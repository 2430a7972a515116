--------------------------- MODULE MemberLifecycle ---------------------------
(***************************************************************************)
(* The owner of a Read+Update installation (sequence-executor.ts and       *)
(* recovery-store.ts).  A request names a key for each of its members and  *)
(* claims the unknown ones; its members then run one per turn of the       *)
(* event loop, between those of other requests, each in a transaction that *)
(* changes the graph and retains the outcome under its key.  A key that is *)
(* retained is compared with the member and replayed.  Claims end with the *)
(* request, or with the process at its next start.                         *)
(***************************************************************************)
EXTENDS MemberGraph

CONSTANTS
  Principals, Carriers,   \* a carrier is a sequence of members
  Retention,              \* of an outcome
  MaximumAttempts, MaximumTime    \* bounds

Slots == {"subject", "source", "target"}

\* A member as the protocol's parser passes it: an operation, references, and an
\* address inside the Scope where it names one.
IsMember(m) ==
  /\ m.operation \in {"createBead", "createLink", "updateBead", "updateLink", "deleteBead",
                     "deleteLink", "putAlias", "deleteAlias"}
  /\ m.id \notin External
  /\ \A s \in Slots : m[s].as \in {"none", "direct", "alias", "binding"}

ASSUME RetentionAssumption == Retention \in Nat \ {0}
ASSUME AttemptsAssumption == MaximumAttempts \in Nat
ASSUME CarriersAssumption ==
  \A c \in Carriers : Len(c) \in Nat \ {0} /\ \A n \in 1..Len(c) : IsMember(c[n])
\* The store allocates addresses below the Scope.
ASSUME OpaqueAssumption == Len(Opaque) \in Nat /\ \A n \in 1..Len(Opaque) : Opaque[n] \notin External
ASSUME EndpointAssumption == EndpointMax \in Nat

VARIABLES
  graph, keys,    \* the database: the Resources, and claim -> the state of the key
  owner,          \* "accepting", "draining" or "closed"
  attempts,       \* the requests in progress
  issued,         \* the number of attempts so far
  now,
  told            \* ghost: the answers that were put into a response

vars == <<graph, keys, owner, attempts, issued, now, told>>

Creates(m) == m.operation \in {"createBead", "createLink"}
-----------------------------------------------------------------------------
(* The identity of a member: what its references mean. *)

\* prior: the meanings under which the key was retained, or none.
AliasTarget(to, prior) ==
  LET known == {s \in DOMAIN prior : prior[s].as = "alias" /\ prior[s].to = to} IN
  IF known # {} THEN prior[CHOOSE s \in known : TRUE].target
  ELSE IF to \in DOMAIN graph.aliases THEN graph.aliases[to] ELSE None

\* Mutant: aliases mean what they mean now.
Meaning_current(m, slot, creators, prior) ==
  LET ref == m[slot] IN
  IF ref.as = "alias" THEN [as |-> "alias", to |-> ref.to, target |-> AliasTarget(ref.to, NoFunction)]
  ELSE IF ref.as = "binding" THEN [as |-> "binding", to |-> None, target |-> creators[ref.to].id]
  ELSE [as |-> ref.as, to |-> None, target |-> ref.to]

Meaning(m, slot, creators, prior) ==
  LET ref == m[slot] IN
  IF ref.as = "alias" THEN [as |-> "alias", to |-> ref.to, target |-> AliasTarget(ref.to, prior)]
  ELSE IF ref.as = "binding" THEN [as |-> "binding", to |-> None, target |-> creators[ref.to].id]
  ELSE [as |-> ref.as, to |-> None, target |-> ref.to]

Witnesses(m, creators, prior) == [s \in Slots |-> Meaning(m, s, creators, prior)]

\* Two members are the same when they ask the same of the same addresses; an
\* alias nobody assigned and a creator without a Resource stand for themselves.
Identity(m, witnesses) ==
  [operation |-> m.operation, id |-> m.id, alias |-> m.alias, body |-> m.body, type |-> m.type,
   expected |-> m.expected,
   refs |-> [s \in Slots |->
     IF witnesses[s].target # None THEN <<"id", witnesses[s].target>>
     ELSE IF witnesses[s].as = "alias" THEN <<"alias", witnesses[s].to>>
     ELSE <<witnesses[s].as, "">>]]

\* The operation as it is evaluated: an address below alias/ that came from a
\* creator is looked up as an alias too.
Input(m, witnesses) ==
  LET address(s) == IF witnesses[s].as = "binding" /\ witnesses[s].target \in Paths
                    THEN None ELSE witnesses[s].target IN
  [operation |-> m.operation, id |-> m.id, alias |-> m.alias, body |-> m.body, type |-> m.type,
   expected |-> m.expected, subject |-> address("subject"), source |-> address("source"),
   target |-> address("target")]

Unbound == [kind |-> "unbound", id |-> None]
Transient == [kind |-> "transient", id |-> None]
Bound(id) == [kind |-> "bound", id |-> id]
Waits(m, creators) ==
  \E s \in Slots : m[s].as = "binding" /\ creators[m[s].to].kind = "transient"
LacksCreator(m, creators) ==
  \E s \in Slots : m[s].as = "binding" /\ creators[m[s].to].kind = "unbound"
-----------------------------------------------------------------------------
(* Keys. *)

Rows(kind) == {k \in DOMAIN keys : keys[k].state = kind}
ClaimedBy(table, a) == {k \in DOMAIN table : table[k].state = "claimed" /\ table[k].owner = a}
Claim(a) == [state |-> "claimed", owner |-> a]
ClaimOf(a, m) == <<attempts[a].principal, m.key>>

\* was: the outcome, kept beyond its retention for the properties only.
Retained(m, witnesses, result) ==
  [state |-> "retained", identity |-> Identity(m, witnesses), witnesses |-> witnesses,
   effect |-> result.effect, until |-> now + Retention,
   creation |-> IF Creates(m) /\ result.effect = "success" THEN result.id ELSE None,
   was |-> [code |-> result.code, id |-> result.id, resource |-> result.resource], of |-> m]

Answer(code, id) == [code |-> code, id |-> id]
Turn(storage, code, id, creator) ==
  [storage |-> storage, answer |-> Answer(code, id), creator |-> creator]

\* A key that is retained or expired, compared with a member.  A retained
\* creation binds its dependents although its result may not be shown.
Compared(m, row, creators) ==
  LET same == Identity(m, Witnesses(m, creators, row.witnesses)) = row.identity
      fact == IF row.creation = None THEN Unbound ELSE Bound(row.creation) IN
  IF ~same THEN Turn("conflict", "idempotency-conflict", None, Unbound)
  ELSE IF row.state = "expired" THEN Turn("expired", "idempotency-expired", None, fact)
  ELSE IF row.was.resource # None /\ ~Discloses(graph, row.was.id, row.was.resource)
  THEN Turn("hidden", "forbidden", None, fact)
  ELSE Turn("replayed", row.was.code, row.was.id, fact)

\* Mutant: the key of an effect is forgotten.
Expired_forgetting(table) ==
  Without(table, {k \in DOMAIN table : table[k].state = "retained" /\ table[k].until <= now})

\* Failures are forgotten, effects keep their key for ever.
Expired(table) ==
  LET due == {k \in DOMAIN table : table[k].state = "retained" /\ table[k].until <= now}
      gone == {k \in due : table[k].effect = "failure"} IN
  [k \in DOMAIN table \ gone |->
     IF k \in due THEN [table[k] EXCEPT !.state = "expired"] ELSE table[k]]
-----------------------------------------------------------------------------
(* One member. *)

Member(a) == attempts[a].carrier[attempts[a].next]
IsFinal(a) == attempts[a].next = Len(attempts[a].carrier)

WithoutWaiting(a, k) == Without(keys, ClaimedBy(keys, a) \cap {k})

\* Mutant: a key that failed runs again while the failure is remembered.
MayRun_failed(a, k) ==
  k \notin DOMAIN keys \/ k \in ClaimedBy(keys, a) \/
  (keys[k].state = "retained" /\ keys[k].effect = "failure")

\* A key nobody holds any more, or this request holds.
MayRun(a, k) == k \notin DOMAIN keys \/ k \in ClaimedBy(keys, a)

Executed(a) ==
  LET m == Member(a)
      witnesses == Witnesses(m, attempts[a].creators, NoFunction)
      result == IF LacksCreator(m, attempts[a].creators) THEN Refused("binding-unavailable")
                ELSE Evaluate(graph, Input(m, witnesses)) IN
  [keys |-> Put(keys, ClaimOf(a, m), Retained(m, witnesses, result)),
   graph |-> IF result.effect = "success" THEN result.graph ELSE graph,
   turn |-> Turn("retained", result.code, result.id,
                 IF result.effect = "success" THEN Bound(result.id) ELSE Unbound)]

Ran(a) ==
  LET m == Member(a)
      k == ClaimOf(a, m)
      kept(turn) == [keys |-> keys, graph |-> graph, turn |-> turn] IN
  IF Waits(m, attempts[a].creators)
  THEN [kept(Turn("waits", "idempotency-in-progress", None, Transient))
          EXCEPT !.keys = WithoutWaiting(a, k)]
  ELSE IF MayRun(a, k) THEN Executed(a)
  ELSE IF keys[k].state = "claimed"
  THEN kept(Turn("in-progress", "idempotency-in-progress", None, Transient))
  ELSE kept(Compared(m, keys[k], attempts[a].creators))
-----------------------------------------------------------------------------
(* The owner. *)

\* A draining owner closes when its last request ends.
Settled(state, live) == IF state = "draining" /\ DOMAIN live = {} THEN "closed" ELSE state

\* A store that is fenced ends all requests with an error; their claims stay.
Fenced == owner' = "closed" /\ attempts' = NoFunction

\* The end of a request; what it still holds is given up.
Ended(a, table) == Without(table, ClaimedBy(table, a))

Submit(p, carrier) ==
  /\ owner = "accepting" /\ issued < MaximumAttempts
  /\ LET a == issued + 1
         wanted == {<<p, carrier[n].key>> : n \in 1..Len(carrier)} \ DOMAIN keys
         claimed == [k \in DOMAIN keys \cup wanted |->
                       IF k \in wanted THEN Claim(a) ELSE keys[k]] IN
     /\ issued' = a
     /\ \/ /\ keys' = claimed
           /\ attempts' = Put(attempts, a, [principal |-> p, carrier |-> carrier, next |-> 1,
                                            creators |-> NoFunction])
           /\ UNCHANGED owner
        \* its first turn cannot be scheduled
        \/ owner' = Settled("draining", attempts) /\ UNCHANGED <<keys, attempts>>
        \/ keys' \in {keys, claimed} /\ Fenced
  /\ UNCHANGED <<graph, now, told>>

\* The next member, or the end of the request.
Advance(a, turn) ==
  IF IsFinal(a) THEN Without(attempts, {a})
  ELSE [attempts EXCEPT ![a].next = @ + 1,
                        ![a].creators = Put(@, Member(a).name, turn.creator)]

\* A turn of a request: the member is answered.
Answered(a) ==
  LET ran == Ran(a)
      left == ClaimedBy(ran.keys, a) IN
  /\ graph' = ran.graph
  /\ attempts' = Advance(a, ran.turn)
  /\ told' = told \cup {[claim |-> ClaimOf(a, Member(a)), of |-> Member(a),
                         storage |-> ran.turn.storage, answer |-> ran.turn.answer]}
  /\ IF IsFinal(a) /\ left # {}
     THEN keys' = Ended(a, ran.keys) /\ owner' = Settled("draining", attempts')
     ELSE keys' = ran.keys /\ owner' = Settled(owner, attempts')

\* A turn that ends the request with an error.
Failed(a) ==
  LET ran == Ran(a)
      rest == Without(attempts, {a}) IN
  /\ \* rolled back by an unexpected failure
     \/ /\ keys' = Ended(a, keys) /\ attempts' = rest /\ owner' = Settled(owner, rest)
        /\ UNCHANGED graph
     \* committed, but the answer cannot be made or the next turn scheduled
     \/ /\ keys' = Ended(a, ran.keys) /\ attempts' = rest /\ graph' = ran.graph
        /\ owner' \in {Settled(owner, rest), Settled("draining", rest)}
     \* it is not known whether it committed
     \/ /\ Fenced
        /\ \/ keys' = ran.keys /\ graph' = ran.graph
           \/ UNCHANGED <<keys, graph>>
  /\ UNCHANGED told

\* A bound: the addresses the store can allocate are not used up.
AddressesLeft ==
  \E n \in 1..Len(Opaque) : Opaque[n] \notin graph.identities \cup DOMAIN graph.aliases

RunMember(a) ==
  /\ a \in DOMAIN attempts /\ AddressesLeft
  /\ Answered(a) \/ Failed(a)
  /\ UNCHANGED <<issued, now>>

Maintain ==
  /\ owner = "accepting"
  /\ \/ keys' = Expired(keys) /\ UNCHANGED <<owner, attempts>>
     \/ keys' \in {keys, Expired(keys)} /\ Fenced
  /\ UNCHANGED <<graph, issued, now, told>>

\* Closing, and the failure of the clock or the timer of the maintenance.
Close ==
  /\ owner = "accepting" /\ owner' = Settled("draining", attempts)
  /\ UNCHANGED <<graph, keys, attempts, issued, now, told>>

\* The end of the process.
Stop ==
  /\ owner # "closed" /\ Fenced
  /\ UNCHANGED <<graph, keys, issued, now, told>>

\* The keys without the claims of the process before.
Swept == Without(keys, Rows("claimed"))

Open ==
  /\ owner = "closed" /\ owner' = "accepting"
  /\ keys' = Expired(Swept)
  /\ UNCHANGED <<graph, attempts, issued, now, told>>

Tick ==
  /\ now < MaximumTime /\ now' = now + 1
  /\ UNCHANGED <<graph, keys, owner, attempts, issued, told>>

Init ==
  /\ graph = EmptyGraph /\ keys = NoFunction /\ owner = "accepting"
  /\ attempts = NoFunction /\ issued = 0 /\ now = 0 /\ told = {}

\* What happens without a new request.
Step ==
  \/ \E a \in 1..MaximumAttempts : RunMember(a)
  \/ Maintain \/ Close \/ Stop \/ Open \/ Tick

Next == Step \/ \E p \in Principals, c \in Carriers : Submit(p, c)

Spec == Init /\ [][Next]_vars
-----------------------------------------------------------------------------
(***************************************************************************)
(* What the keys, the aliases and the Links of a Read+Update installation  *)
(* promise, and under which scheduling its requests end.                   *)
(***************************************************************************)

KeysOf == {<<p, m.key>> : p \in Principals, m \in UNION {ToSet(c) : c \in Carriers}}
Decided == {k \in DOMAIN keys : keys[k].state # "claimed"}
Effects == {k \in Decided : keys[k].effect = "success"}
Succeeded(t) == t.storage \in {"retained", "replayed"} /\ t.answer.code \in {"created", "updated", "deleted"}

\* The shape of the state; a waiting or running request has a member to run.
TypeOK ==
  /\ owner \in {"accepting", "draining", "closed"}
  /\ DOMAIN keys \subseteq KeysOf
  /\ \A k \in DOMAIN keys : keys[k].state \in {"claimed", "retained", "expired"}
  /\ \A k \in Rows("expired") : keys[k].effect = "success"
  /\ DOMAIN attempts \subseteq 1..issued /\ issued \in 0..MaximumAttempts
  /\ \A a \in DOMAIN attempts : attempts[a].next \in 1..Len(attempts[a].carrier)
  /\ owner = "closed" => attempts = NoFunction

\* While an owner is up, every claim belongs to a request that still has the
\* member of this key to run: no key stays in progress for ever
\* (recovery-store.ts abandonAttempt, releaseOwnedClaim and the sweep at the start).
ClaimsHaveOwners ==
  owner # "closed" =>
    \A k \in Rows("claimed") :
      LET a == keys[k].owner IN
      /\ a \in DOMAIN attempts
      /\ attempts[a].principal = k[1]
      /\ \E n \in attempts[a].next..Len(attempts[a].carrier) : attempts[a].carrier[n].key = k[2]

\* An effect somebody was told is the effect of its key for ever, through
\* expiry, restarts and retries (recovery-store.ts executeMember, expire).
AnswersStand ==
  \A t \in told : Succeeded(t) =>
    /\ t.claim \in Effects
    /\ t.answer = Answer(keys[t.claim].was.code, keys[t.claim].was.id)

\* A member that is sent again is recognised whatever its aliases mean by now: a
\* conflict with the very member that was retained needs a creator whose
\* outcome was forgotten or stands in another request (member-identity.ts,
\* member-executor.ts compareExistingMember).
RetryIsRecognised ==
  \A t \in told' \ told :
    t.storage = "conflict" /\ t.of = keys[t.claim].of =>
      \E s \in Slots : t.of[s].as = "binding"

\* The copies of the Links a Bead owns are those of the Links there are
\* (resource-evaluator.ts: every change of such a Link writes its source).
OwnedPlaneIsCurrent ==
  \A a \in DOMAIN graph.resources :
    Live(graph, a, "bead") => graph.resources[a].owned = OwnedBy(graph.resources, graph.resources, a)

\* A Link ends at Beads that are there, within the limit of each
\* (resource-evaluator.ts: endpoints, deletion of Beads, endpoint constraints).
LinksEndAtBeads ==
  /\ \A l \in DOMAIN graph.resources : Live(graph, l, "link") =>
       \A e \in {graph.resources[l].source, graph.resources[l].target} \ External :
         Live(graph, e, "bead")
  /\ \A a \in DOMAIN graph.resources :
       Cardinality(LinksOf(graph.resources, "target", a)) <= EndpointMax

\* No address is given to two creations, and none is both a Resource and an
\* alias (recovery-store.ts identities and Allocation, alias-evaluator.ts).
IdentitiesAreNotReused ==
  /\ \A j, k \in Effects : keys[j].creation # None /\ keys[j].creation = keys[k].creation => j = k
  /\ graph.identities \cap DOMAIN graph.aliases = {}

\* A revision names one state of a Resource: what is changed, its copies
\* included, has a revision no Resource had before, so that a client that
\* expects one overwrites only what it read (resource-evaluator.ts).
RevisionsTell ==
  \A a \in DOMAIN graph.resources \cap DOMAIN graph'.resources :
    graph'.resources[a] # graph.resources[a] =>
      graph'.resources[a].revision \in graph.revision + 1..graph'.revision

\* The tables keep their shape; while an owner is up every claim belongs to a request
\* that still has its member to run; and an effect somebody was told is the effect of
\* its key for ever, through expiry, restarts and retries (recovery-store.ts
\* abandonAttempt, executeMember, expire).
KeysAreSettled == TypeOK /\ ClaimsHaveOwners /\ AnswersStand

\* No address is given twice or to a Resource and an alias, Links end at Beads that
\* are there, and the copies a Bead has of its Links are current (recovery-store.ts
\* identities, alias-evaluator.ts, resource-evaluator.ts).
GraphIsSound == IdentitiesAreNotReused /\ LinksEndAtBeads /\ OwnedPlaneIsCurrent

\* A member that is sent again is recognised whatever its aliases mean by now, and a
\* revision names one state of a Resource (member-executor.ts compareExistingMember,
\* resource-evaluator.ts).
RetriesAndRevisionsTell == [][RetryIsRecognised /\ RevisionsTell]_vars

\* What the keys promise, without requests, graphs and processes.
Ledger == INSTANCE MutationLedger WITH
  Keys <- KeysOf,
  held <- Rows("claimed"),
  final <- [k \in Effects |-> Answer(keys[k].was.code, keys[k].was.id)],
  failed <- [k \in Decided \ Effects |-> keys[k].was],
  told <- {<<t.claim, t.answer>> : t \in {t \in told : Succeeded(t)}}

\* Each key runs at most once to an effect, and replays say what it was
\* (sequence-executor.ts submit, recovery-store.ts executeMember).
ImplementsLedger == Ledger!Spec
===============================================================================
