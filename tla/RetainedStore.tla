----------------------------- MODULE RetainedStore -----------------------------
(***************************************************************************)
(* The retained reference store (openPrivateRetainedStore of               *)
(* retained-v01/store.ts), formats 5 and 7: every request is decided in    *)
(* one transaction of an exclusively locked SQLite database, under the     *)
(* principal's idempotency key, and a repeated request gets the decision   *)
(* that was stored for its key.                                            *)
(*                                                                         *)
(* The environment is the most general one: any request may arrive at any  *)
(* time and again, so a network that loses, delays, repeats or reorders    *)
(* requests is included.  The process may stop, and a COMMIT may fail      *)
(* without anyone knowing whether it took effect.                          *)
(***************************************************************************)
EXTENDS RetainedTables

CONSTANTS
  MaxDecisions,  \* bound on the decisions a behaviour takes
  MaxFaults      \* bound on its stops and failed transactions

ASSUME BoundsAssumption == MaxDecisions \in Nat /\ MaxFaults \in Nat

VARIABLES
  mode,    \* "open", "fenced" after an ambiguous transaction, or "closed"
  faults,  \* stops and failed transactions so far
  acked    \* ghost: the answers callers received under a claimed key

vars == <<tables, mode, faults, acked>>

(***************************************************************************)
(* Answers.  A successful one carries the Resource body (body), the alias  *)
(* target (target) and the context of a historical update (from,           *)
(* previous).                                                              *)
(***************************************************************************)
Response(result, id, body, target, from, previous) ==
  [result |-> result, id |-> id, body |-> body, target |-> target,
   from |-> from, previous |-> previous]

Refusal(code) == Response(code, None, None, None, 0, 0)

Body(revision, data, source, target) ==
  [revision |-> revision, data |-> data, source |-> source, target |-> target]

Revision == Len(events) + 1    \* a fresh revision: the position of the next event
-----------------------------------------------------------------------------
(* Deciding: the claim of a key and its atomic record. *)

\* Mutant: a refusal does not claim the key.
Claim_accepted(p, k) ==
  {d \in 1..Len(outcomes) :
     outcomes[d].principal = p /\ outcomes[d].key = k /\ Succeeded(d)}

Claim(p, k) == {d \in 1..Len(outcomes) : outcomes[d].principal = p /\ outcomes[d].key = k}

\* The decision of request i as the last row of the outcome table.
Decide(p, k, i, response, position) ==
  outcomes' = Append(outcomes,
    [principal |-> p, key |-> k, op |-> i.op, identity |-> Identity(i, Witnesses(i)),
     witnesses |-> Witnesses(i), response |-> response, position |-> position,
     request |-> i])

\* A refusal claims the key as well, and changes nothing else.
Refuse(p, k, i, code) ==
  /\ Decide(p, k, i, Refusal(code), 0)
  /\ UNCHANGED <<identities, resources, aliases, events, versions>>

(***************************************************************************)
(* What happens to the transaction that was decided: it commits and the    *)
(* answer arrives; it commits, but the process stops before it answers, or *)
(* COMMIT reports an error (the store fences itself).  The transaction     *)
(* that leaves no trace is Fail.                                           *)
(***************************************************************************)
Committed(p, k) ==
  \/ /\ acked' = acked \cup
          {[principal |-> p, key |-> k, response |-> outcomes'[Len(outcomes')].response]}
     /\ UNCHANGED <<mode, faults>>
  \/ /\ faults < MaxFaults
     /\ faults' = faults + 1
     /\ mode' \in {"closed", "fenced"}
     /\ UNCHANGED acked
-----------------------------------------------------------------------------
(* The Resource operations.  Each refusal is the first that applies. *)

EndpointRefusal(kind, body) ==
  IF kind = "bead" THEN "none"
  ELSE IF \E uri \in LocalEndpoints(body) : uri \notin DOMAIN resources
  THEN "resource-not-found"
  ELSE IF \E uri \in LocalEndpoints(body) : identities[uri] # "bead"
  THEN "validation-failed"
  ELSE IF LocalEndpoints(body) = {} THEN "validation-failed"
  ELSE "none"

\* The Beads a transition is incident to: a Link's endpoints before and after.
Incident(kind, verb, id, body) ==
  IF kind = "bead" THEN {}
  ELSE (IF id \in DOMAIN resources THEN LocalEndpoints(resources[id]) ELSE {})
         \cup (IF verb = "delete" THEN {} ELSE LocalEndpoints(body))

\* Mutant: the deletion of a Bead shares the revision it deletes.
Terminal_shared(kind, verb) == FALSE

\* Format 7 gives the deletion of a Bead a revision of its own.
Terminal(kind, verb) == Historical /\ kind = "bead" /\ verb = "delete"

\* One lifecycle transition: the Resource row, its event with the Beads it is
\* incident to, and for a Bead of format 7 the version row.
Complete(p, k, i, kind, verb, id, body, from, previous) ==
  LET terminal == Terminal(kind, verb)
      revision == IF verb = "delete" /\ ~terminal THEN body.revision ELSE Revision
      context == IF from = 0 THEN 0 ELSE previous IN
  /\ resources' = IF verb = "delete" THEN Drop(resources, id) ELSE Put(resources, id, body)
  /\ identities' = IF verb = "create" THEN Put(identities, id, kind) ELSE identities
  /\ events' = Append(events,
       [subject |-> id, kind |-> kind, verb |-> verb, revision |-> revision, body |-> body,
        previous |-> IF verb = "delete" /\ ~terminal THEN 0 ELSE previous,
        incident |-> Incident(kind, verb, id, body)])
  /\ versions' =
       IF ~(Historical /\ kind = "bead") THEN versions
       ELSE versions \cup
         {[id |-> id, revision |-> revision, position |-> Revision, from |-> from,
           state |-> IF terminal THEN "deleted" ELSE "live",
           body |-> IF terminal THEN None ELSE body,
           previous |-> IF terminal THEN previous ELSE context]}
  /\ Decide(p, k, i, Response(ResultOf(verb), id, body, None, from, context), Revision)
  /\ UNCHANGED aliases

\* Mutant: an alias at the address is overlooked.
CreateRefusal_noAlias(i, kind, id, body) ==
  IF id \in DOMAIN identities \cup Reserved THEN "identity-taken"
  ELSE IF EndpointRefusal(kind, body) # "none" THEN EndpointRefusal(kind, body)
  ELSE IF i.data \in Oversize THEN "limit-exceeded"
  ELSE "none"

CreateRefusal(i, kind, id, body) ==
  IF id \in DOMAIN identities \cup Reserved THEN "identity-taken"
  ELSE IF id \in DOMAIN aliases THEN "alias-path-taken"
  ELSE IF EndpointRefusal(kind, body) # "none" THEN EndpointRefusal(kind, body)
  ELSE IF i.data \in Oversize THEN "limit-exceeded"
  ELSE "none"

\* Addresses the server may choose for a Resource that names none.  When it
\* finds none (32 collisions) the transaction is abandoned without a trace.
\* Mutant: the address need not be in the Scope.
Unused_anywhere ==
  (Uris \cup External) \ (DOMAIN identities \cup DOMAIN aliases \cup Reserved)
Unused == Uris \ (DOMAIN identities \cup DOMAIN aliases \cup Reserved)

PerformCreate(p, k, i, kind, source, target) ==
  \E id \in IF i.id = None THEN Unused ELSE {i.id} :
    LET body == Body(Revision, i.data, source, target)
        refusal == CreateRefusal(i, kind, id, body) IN
    \/ refusal # "none" /\ Refuse(p, k, i, refusal)
    \/ refusal = "none" /\ Complete(p, k, i, kind, "create", id, body, 0, 0)

\* The row of the retained version index, latest or with a given revision.
VersionRows(id) == {v \in versions : v.id = id}
LatestVersion(id) ==
  CHOOSE v \in VersionRows(id) : \A w \in VersionRows(id) : w.position <= v.position
VersionAt(id, revision) == CHOOSE v \in VersionRows(id) : v.revision = revision
HasVersion(id, revision) == \E v \in VersionRows(id) : v.revision = revision

\* A historical update of a deleted Bead brings it back under its own identity.
Recovering(i, kind, id) ==
  /\ i.from # 0 /\ Historical
  /\ ~IsLive(id, kind)
  /\ VersionRows(id) # {}
  /\ LatestVersion(id).state = "deleted"

Before(i, kind, id) ==
  IF IsLive(id, kind) THEN resources[id]
  ELSE VersionAt(id, LatestVersion(id).previous).body

\* The revision a guard must name and the event succeeds: the terminal one of a
Predecessor(i, kind, id) ==
  IF Recovering(i, kind, id) THEN LatestVersion(id).revision ELSE Before(i, kind, id).revision

Source(i, kind, id) ==
  IF i.from = 0 THEN Before(i, kind, id) ELSE VersionAt(id, i.from).body

\* The document and endpoints after the update; the revision is that of the
\* state before until the update is known to change something.
Candidate(i, kind, id, source, target) ==
  LET old == Before(i, kind, id) IN
  Body(old.revision, Edit[i.data][Source(i, kind, id).data],
       IF source = None THEN old.source ELSE source,
       IF target = None THEN old.target ELSE target)

UpdateRefusal(i, kind, id, source, target) ==
  IF i.from # 0 /\ ~Historical THEN "capability-not-supported"
  ELSE IF ~IsLive(id, kind) /\ ~Recovering(i, kind, id) THEN "resource-not-found"
  ELSE IF i.expected \notin {0, Predecessor(i, kind, id)} THEN "revision-mismatch"
  ELSE IF i.from # 0 /\ ~HasVersion(id, i.from) THEN "revision-unknown"
  ELSE IF i.from # 0 /\ VersionAt(id, i.from).state = "deleted" THEN "validation-failed"
  ELSE IF i.data \in Oversize THEN "limit-exceeded"
  ELSE IF Edit[i.data][Source(i, kind, id).data] = Invalid THEN "validation-failed"
  ELSE EndpointRefusal(kind, Candidate(i, kind, id, source, target))

\* An update that changes nothing succeeds without an event; its answer still
\* names the context of the version that is current.
Unchanged(p, k, i, kind, id) ==
  LET current == LatestVersion(id)
      from == IF i.from = 0 THEN 0 ELSE current.from IN
  /\ Decide(p, k, i,
       Response("unchanged", id, resources[id], None, from,
                IF from = 0 THEN 0 ELSE current.previous), 0)
  /\ UNCHANGED <<identities, resources, aliases, events, versions>>

PerformUpdate(p, k, i, kind, id, source, target) ==
  LET refusal == UpdateRefusal(i, kind, id, source, target)
      next == Candidate(i, kind, id, source, target)
      changed == Recovering(i, kind, id) \/ next # Before(i, kind, id) IN
  \/ refusal # "none" /\ Refuse(p, k, i, refusal)
  \/ refusal = "none" /\ ~changed /\ Unchanged(p, k, i, kind, id)
  \/ refusal = "none" /\ changed /\ next.data \in Oversize
       /\ Refuse(p, k, i, "limit-exceeded")
  \/ /\ refusal = "none" /\ changed /\ next.data \notin Oversize
     /\ Complete(p, k, i, kind, "update", id, [next EXCEPT !.revision = Revision],
                 i.from, Predecessor(i, kind, id))

IncidentLinks(id) ==
  {link \in DOMAIN resources : identities[link] = "link"
                                 /\ id \in {resources[link].source, resources[link].target}}

\* Mutant: the Links of the Bead are not looked for.
DeleteRefusal_noLinks(i, kind, id) ==
  IF ~IsLive(id, kind) THEN "resource-not-found"
  ELSE IF i.expected \notin {0, resources[id].revision} THEN "revision-mismatch"
  ELSE "none"

DeleteRefusal(i, kind, id) ==
  IF ~IsLive(id, kind) THEN "resource-not-found"
  ELSE IF i.expected \notin {0, resources[id].revision} THEN "revision-mismatch"
  ELSE IF kind = "bead" /\ IncidentLinks(id) # {} THEN "incident-links-exist"
  ELSE "none"

PerformDelete(p, k, i, kind, id) ==
  LET refusal == DeleteRefusal(i, kind, id) IN
  \/ refusal # "none" /\ Refuse(p, k, i, refusal)
  \/ refusal = "none"
       /\ Complete(p, k, i, kind, "delete", id, resources[id], 0, resources[id].revision)
-----------------------------------------------------------------------------
(* The requests.  A Reference is resolved through the aliases first. *)

At(i, slot) == IF slot \in Slots(i) THEN Resolve(i[slot], Witnesses(i)) ELSE Bound(i[slot])

CreateBead(p, k, i) ==
  /\ i.op = "createBead"
  /\ \/ i.refused /\ Refuse(p, k, i, "validation-failed")
     \/ ~i.refused /\ PerformCreate(p, k, i, "bead", None, None)

UpdateBead(p, k, i) ==
  /\ i.op = "updateBead"
  /\ \/ i.refused /\ Refuse(p, k, i, "validation-failed")
     \/ ~i.refused /\ ~At(i, "id").bound /\ Refuse(p, k, i, "resource-not-found")
     \/ /\ ~i.refused /\ At(i, "id").bound
        /\ PerformUpdate(p, k, i, "bead", At(i, "id").uri, None, None)

DeleteBead(p, k, i) ==
  /\ i.op = "deleteBead"
  /\ \/ ~At(i, "id").bound /\ Refuse(p, k, i, "resource-not-found")
     \/ At(i, "id").bound /\ PerformDelete(p, k, i, "bead", At(i, "id").uri)

\* The Link requests stop at the first endpoint whose alias is missing.
LinkAdmitted(i) == ~i.refused /\ At(i, "source").bound /\ At(i, "target").bound

LinkRefused(p, k, i) ==
  \/ i.refused /\ Refuse(p, k, i, "validation-failed")
  \/ ~i.refused /\ ~LinkAdmitted(i) /\ Refuse(p, k, i, "resource-not-found")

CreateLink(p, k, i) ==
  /\ i.op = "createLink"
  /\ \/ LinkRefused(p, k, i)
     \/ LinkAdmitted(i)
          /\ PerformCreate(p, k, i, "link", At(i, "source").uri, At(i, "target").uri)

UpdateLink(p, k, i) ==
  /\ i.op = "updateLink"
  /\ \/ LinkRefused(p, k, i)
     \/ LinkAdmitted(i)
          /\ PerformUpdate(p, k, i, "link", i.id, At(i, "source").uri, At(i, "target").uri)

DeleteLink(p, k, i) ==
  /\ i.op = "deleteLink"
  /\ \/ i.refused /\ Refuse(p, k, i, "validation-failed")
     \/ ~i.refused /\ PerformDelete(p, k, i, "link", i.id)

PutAliasRefusal(i) ==
  IF i.id \notin AliasNamespace THEN "resource-not-found"
  ELSE IF i.id \in DOMAIN identities \cup Reserved THEN "identity-taken"
  ELSE IF i.target \notin Uris \/ i.target \in DOMAIN aliases THEN "validation-failed"
  ELSE IF i.target \in DOMAIN identities /\ identities[i.target] # "bead"
  THEN "validation-failed"
  ELSE IF i.target \notin DOMAIN resources THEN "resource-not-found"
  ELSE "none"

PutAlias(p, k, i) ==
  /\ i.op = "putAlias"
  /\ \/ PutAliasRefusal(i) # "none" /\ Refuse(p, k, i, PutAliasRefusal(i))
     \/ /\ PutAliasRefusal(i) = "none"
        /\ aliases' = Put(aliases, i.id, i.target)
        /\ Decide(p, k, i,
             Response(IF i.id \in DOMAIN aliases THEN "updated" ELSE "created",
                      i.id, None, i.target, 0, 0), 0)
        /\ UNCHANGED <<identities, resources, events, versions>>

DeleteAlias(p, k, i) ==
  /\ i.op = "deleteAlias"
  /\ \/ i.id \notin DOMAIN aliases /\ Refuse(p, k, i, "resource-not-found")
     \/ /\ i.id \in DOMAIN aliases
        /\ aliases' = Drop(aliases, i.id)
        /\ Decide(p, k, i, Response("deleted", i.id, None, None, 0, 0), 0)
        /\ UNCHANGED <<identities, resources, events, versions>>

Execute(p, k, i) ==
  \/ CreateBead(p, k, i) \/ UpdateBead(p, k, i) \/ DeleteBead(p, k, i)
  \/ CreateLink(p, k, i) \/ UpdateLink(p, k, i) \/ DeleteLink(p, k, i)
  \/ PutAlias(p, k, i) \/ DeleteAlias(p, k, i)
-----------------------------------------------------------------------------
(* The steps of the store. *)

\* An unknown key: the request is executed, and its answer recorded with it.
Apply(p, k, i) ==
  /\ mode = "open"
  /\ Len(outcomes) < MaxDecisions
  /\ Claim(p, k) = {}
  /\ Execute(p, k, i)
  /\ Committed(p, k)

\* The same invocation under the witnesses its decision stored.
SameInvocation(i, o) == i.op = o.op /\ Identity(i, o.witnesses) = o.identity

\* A known key: the stored answer.  A different invocation gets a conflict,
\* which claims nothing and is not stored.
Replay(p, k, i) ==
  /\ mode = "open"
  /\ \E d \in Claim(p, k) :
       /\ SameInvocation(i, outcomes[d])
       /\ acked' = acked \cup
            {[principal |-> p, key |-> k, response |-> outcomes[d].response]}
  /\ UNCHANGED <<tables, mode, faults>>

\* A transaction that leaves no trace but fences the store: an SQL error, a
\* ROLLBACK that fails, or a COMMIT that fails before it takes effect.
Fail ==
  /\ mode = "open"
  /\ faults < MaxFaults
  /\ faults' = faults + 1
  /\ mode' = "fenced"
  /\ UNCHANGED <<tables, acked>>

\* Mutant: the commit had not reached the disk (synchronous off).
Stop_unsynced ==
  /\ mode # "closed"
  /\ faults < MaxFaults
  /\ faults' = faults + 1
  /\ mode' = "closed"
  /\ \E d \in 0..Len(outcomes) : outcomes' = SubSeq(outcomes, 1, d)
  /\ UNCHANGED <<identities, resources, aliases, events, versions, acked>>

\* close(), or the end of the process at any point outside a commit.
Stop ==
  /\ mode # "closed"
  /\ faults < MaxFaults
  /\ faults' = faults + 1
  /\ mode' = "closed"
  /\ UNCHANGED <<tables, acked>>

\* A store opens only over tables that pass the recovery check.
Open ==
  /\ mode = "closed"
  /\ VerifySingletonRecovery
  /\ mode' = "open"
  /\ UNCHANGED <<tables, faults, acked>>

NoRow == [uri \in {} |-> None]

\* Explicit provisioning of an empty store.
Init ==
  /\ identities = NoRow /\ resources = NoRow /\ aliases = NoRow
  /\ events = <<>> /\ versions = {} /\ outcomes = <<>>
  /\ mode = "closed" /\ faults = 0 /\ acked = {}

Next ==
  \/ \E p \in Principals, k \in Keys, i \in Invocations : Apply(p, k, i) \/ Replay(p, k, i)
  \/ Fail \/ Stop \/ Open

Spec == Init /\ [][Next]_vars
-----------------------------------------------------------------------------
(* What the retained store promises. *)


BodyType ==
  [revision : Nat \ {0}, data : Values,
   source : Uris \cup External \cup {None}, target : Uris \cup External \cup {None}]

\* Types of the tables: every row has the columns of its SQL table, and only
\* addresses of the Scope are identities, aliases or alias targets.
TypeOK ==
  /\ DOMAIN identities \subseteq Uris
  /\ \A id \in DOMAIN identities : identities[id] \in Kinds
  /\ DOMAIN resources \subseteq Uris
  /\ \A id \in DOMAIN resources : resources[id] \in BodyType
  /\ DOMAIN aliases \subseteq Uris
  /\ \A uri \in DOMAIN aliases : aliases[uri] \in Uris
  /\ mode \in {"open", "fenced", "closed"}
  /\ faults \in 0..MaxFaults

\* Every live Link joins only live Beads of the Scope, and at least one: no
\* order of deletions, retargetings and alias-resolved endpoints leaves a Link
\* dangling (endpointRefusal, and the incident-link guard of performDelete).
LinkEndpointsLive ==
  \A id \in DOMAIN resources : identities[id] = "link" =>
    /\ LocalEndpoints(resources[id]) # {}
    /\ \A uri \in LocalEndpoints(resources[id]) : IsLive(uri, "bead")

\* An address never means two things: an alias locator is in the namespace,
\* not reserved and not the identity of any Resource that ever existed, and
\* its target is the identity of a Bead, so aliases never chain.
AliasesWellPlaced ==
  \A uri \in DOMAIN aliases :
    /\ uri \in AliasNamespace \ Reserved
    /\ uri \notin DOMAIN identities
    /\ aliases[uri] \in DOMAIN identities /\ identities[aliases[uri]] = "bead"
    /\ aliases[uri] \notin DOMAIN aliases

\* A retry of the original request is recognised as such for ever: whatever
\* happened to the aliases and addresses it mentions since its decision, its
\* semantic identity under the stored witnesses is the stored one (decide).
RetryIsRecognised ==
  \A d \in 1..Len(outcomes) : SameInvocation(outcomes[d].request, outcomes[d])

\* The retained versions suffice to bring a deleted Bead back: its terminal
\* version names a live one that is still there, the live state has its own
\* version, and no two versions share a revision (the historical baseline and
\* source indexes performUpdate relies on, and throws about when they fail it).
VersionIndexComplete ==
  /\ \A v \in versions : v.state = "deleted" =>
       \E w \in versions : w.id = v.id /\ w.state = "live" /\ w.revision = v.previous
  /\ \A id \in DOMAIN resources : Historical /\ identities[id] = "bead" =>
       \E v \in versions :
         v.id = id /\ v.state = "live" /\ v.revision = resources[id].revision
  /\ \A v, w \in versions : v.revision = w.revision => v = w

\* The store never locks itself out: the tables a behaviour leaves at any
\* moment pass the recovery check of the next start.
RecoveryAccepts == VerifySingletonRecovery

Extends(after, before) ==
  Len(before) <= Len(after) /\ \A n \in 1..Len(before) : after[n] = before[n]

\* Nothing that was ever decided, created or recorded is rewritten: decisions
\* and events only grow, and an identity keeps its kind, across stops, failed
\* commits, deletion and recovery of the Resource.
HistoryIsPermanent ==
  [][/\ Extends(outcomes', outcomes)
     /\ Extends(events', events)
     /\ \A id \in DOMAIN identities : id \in DOMAIN identities' /\ identities'[id] = identities[id]
    ]_vars
-----------------------------------------------------------------------------
(* The retained store implements the decision ledger. *)

ClaimOf(row) == <<row.principal, row.key>>

ClaimsOf(log) == {ClaimOf(log[d]) : d \in 1..Len(log)}

\* The outcome table read as a map from claims to answers.
DecisionsOf(log) ==
  [c \in ClaimsOf(log) |-> log[CHOOSE d \in 1..Len(log) : ClaimOf(log[d]) = c].response]

\* The answers that left the store.
ToldOf(answers) == {<<ClaimOf(a), a.response>> : a \in answers}

Ledger == INSTANCE DecisionLedger WITH
  Claims <- Principals \X Keys, decided <- DecisionsOf(outcomes), told <- ToldOf(acked)

\* Seen from its callers the store is a decision ledger: lost answers, retries,
\* stops, failed commits and fencing never yield a second or a different
\* decision of a key (decide, transaction).
ImplementsLedger == Ledger!Spec
===============================================================================
