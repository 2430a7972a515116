--------------------------- MODULE TransactionStore ---------------------------
(***************************************************************************)
(* The transactional authority's keys: receipts, reservations, sequences,  *)
(* retention, recovery and the publication of the authorization policy     *)
(* (transaction-store.ts with its callers transaction-submission.ts,       *)
(* transaction-comparison.ts, transaction-sequence.ts and the service).    *)
(*                                                                         *)
(* The process is single-threaded and every action is one uninterrupted    *)
(* run of it; calls interleave where the code awaits.  A direct call       *)
(* awaits between its admission and its execution and between the polls of *)
(* a comparison, a sequence between its members.                           *)
(***************************************************************************)
EXTENDS Naturals, Sequences, FiniteSets, Functions

CONSTANTS
  Uris,         \* Resource identities: those clients supply, and the positions
                \* 1..n that stand for the one allocated by the n-th change group
  Locators,     \* alias locators
  None,         \* an absent value
  Keys,         \* a principal's idempotency keys
  Calls,        \* direct submissions
  Attempts,     \* sequence submissions
  Submissions,  \* the [key, request] that may be submitted directly
  Programs,     \* the sequences of [key, request] that may be submitted
  Replaceable   \* whether the operator replaces the authorization policy

VARIABLES
  aliases,     \* locator -> Resource
  facts,       \* <<attempt, member>> -> what the creating member is bound to
  receipts,    \* key -> its receipt row
  groups,      \* the change groups, by position: the transaction of each
  identities,  \* every Resource identity ever committed
  generation,  \* of the authorization policy: 0 initial, 1 no more mutations
  mode,        \* the owner's process: "open" or "stopped" (fenced, closed, dead)
  calls,       \* the direct calls and how far they got
  attempts,    \* the sequences and how far they got
  pause,       \* policy publication: "none", "draining", or "broken" (a drained
               \* call failed)
  told         \* the answers the authority gave
-----------------------------------------------------------------------------
(***************************************************************************)
(* Requests, what identifies them, and how a request is compared with the  *)
(* receipt its key already has (normalizeTransaction of                    *)
(* transaction-batch.ts and transaction-dependencies.ts).                  *)
(*                                                                         *)
(* A request is an operation, the identity it supplies for what it makes   *)
(* (None: the authority chooses) and its references by field.  All other   *)
(* content is part of op, references that leave the Scope included.  A     *)
(* reference is a term: a Resource, an alias, or the Resource an earlier   *)
(* member of the same sequence creates.                                    *)
(***************************************************************************)
Uri(u) == [kind |-> "uri", at |-> u]
Alias(l) == [kind |-> "alias", at |-> l]
Creator(i) == [kind |-> "creator", at |-> i]
\* What references may turn out to be besides a Resource: an alias that has no
\* target, and the creation that permanently failed.
Missing(l) == [kind |-> "missing", at |-> l]
Unbound == [kind |-> "unbound", at |-> None]
\* The fact of a creator that ended without a disposition of its own.
Transient == [kind |-> "transient", at |-> None]

Request(op, id, refs) == [op |-> op, id |-> id, refs |-> refs]

Creates(r) == r.op = "create"

OfKind(r, kind) == {r.refs[f].at : f \in {f \in DOMAIN r.refs : r.refs[f].kind = kind}}
LocatorsOf(r) == OfKind(r, "alias")
CreatorsOf(r) == OfKind(r, "creator")

\* Members whose identity is settled only at their turn.
Deferred(r) == LocatorsOf(r) \cup CreatorsOf(r) # {}

Put(f, k, v) == [x \in DOMAIN f \cup {k} |-> IF x = k THEN v ELSE f[x]]

TargetOf(l) == IF l \in DOMAIN aliases THEN Uri(aliases[l]) ELSE Missing(l)

Witnesses(r) == [l \in LocatorsOf(r) |-> TargetOf(l)]
NoWitnesses == [l \in {} |-> Unbound]

\* Mutant: a retry is read under the aliases of today.
Lookup_current(t, witnesses) == IF t.kind = "alias" THEN TargetOf(t.at) ELSE t

\* An alias is read as its stored witness, or as its current target where the
\* receipt witnessed none.
Lookup(t, witnesses) ==
  IF t.kind # "alias" THEN t
  ELSE IF t.at \in DOMAIN witnesses THEN witnesses[t.at] ELSE TargetOf(t.at)

\* The semantic identity of a request.
Normalize(r, witnesses) ==
  [r EXCEPT !.refs = [f \in DOMAIN r.refs |-> Lookup(r.refs[f], witnesses)]]

\* The member with its creators replaced by what they are bound to.
Bind(r, attempt) ==
  [r EXCEPT !.refs =
    [f \in DOMAIN r.refs |->
       IF r.refs[f].kind = "creator" THEN facts[<<attempt, r.refs[f].at>>] ELSE r.refs[f]]]
-----------------------------------------------------------------------------
(***************************************************************************)
(* A reservation that is not resolved yet keeps the member itself as a     *)
(* template.  A direct request with the same key equals it when every      *)
(* reference is already known to agree, conflicts when no resolution could *)
(* make them agree, and is otherwise undecided.  The code unifies the      *)
(* references field by field; here one meaning of every term is asked for  *)
(* under which the fields agree.  Terms that are only equated with each    *)
(* other may stay open, whatever their domains.                            *)
(***************************************************************************)
Undetermined == [kind |-> "open", at |-> None]

Known(attempt, i) == facts[<<attempt, i>>] \notin {None, Transient}

\* The references a term of the template may still stand for.
Meanings(row, t) ==
  CASE t.kind = "creator" ->
         IF Known(row.attempt, t.at) THEN {facts[<<row.attempt, t.at>>]}
         ELSE {Undetermined} \cup
              {Uri(u) : u \in IF row.supplied[t.at] = None THEN Uris ELSE {row.supplied[t.at]}}
    [] t.kind = "alias" -> {Undetermined, Missing(t.at)} \cup {Uri(u) : u \in Uris}
    [] OTHER -> {t}

\* An alias the template mentions stays a symbol in the candidate as well.
Candidate(row, r) ==
  [f \in DOMAIN r.refs |->
     IF r.refs[f].kind = "alias" /\ r.refs[f].at \in LocatorsOf(row.identity)
     THEN r.refs[f] ELSE Lookup(r.refs[f], NoWitnesses)]

Compatible(row, r) ==
  LET template == row.identity.refs
      candidate == Candidate(row, r)
      terms == Range(template) \cup Range(candidate) IN
  \E meaning \in [terms -> UNION {Meanings(row, t) : t \in terms}] :
    /\ \A t \in terms : meaning[t] \in Meanings(row, t)
    /\ \A f \in DOMAIN template : meaning[template[f]] = meaning[candidate[f]]

SameShape(r, s) == r.op = s.op /\ r.id = s.id /\ DOMAIN r.refs = DOMAIN s.refs

\* Mutant: a request that can still agree with the template is taken to agree.
CompareTemplate_early(row, r) ==
  IF SameShape(row.identity, r) /\ Compatible(row, r) THEN "receipt" ELSE "conflict"

CompareTemplate(row, r) ==
  IF ~SameShape(row.identity, r) THEN "conflict"
  ELSE IF ~Compatible(row, r) THEN "conflict"
  ELSE IF LocatorsOf(row.identity) = {}
          /\ \A i \in CreatorsOf(row.identity) : Known(row.attempt, i)
  THEN "receipt"
  ELSE "undecided"

Unresolved(row) == row.attempt # None

\* How a request relates to the receipt of its key.
Verdict(row, r) ==
  IF Unresolved(row) THEN CompareTemplate(row, r)
  ELSE IF Normalize(r, row.witnesses) = row.identity THEN "receipt" ELSE "conflict"
-----------------------------------------------------------------------------
(* The authority. *)

\* What every admitted request has: a creation supplies its identity or leaves it to
\* the authority, and an alias is put at a locator, for a target.
WellFormed(r) ==
  /\ r = Request(r.op, r.id, r.refs)
  /\ r.refs = [f \in DOMAIN r.refs |-> r.refs[f]]
  /\ Creates(r) => r.id \in Uris \cup {None}
  /\ r.op = "putAlias" => r.id \in Locators /\ "target" \in DOMAIN r.refs

\* A request of its own refers to Resources and aliases only.
Direct(r) == \A f \in DOMAIN r.refs : r.refs[f].kind \in {"uri", "alias"}

\* A sequence has members, each under a key of its own, and a creator is an earlier
\* member that creates.
ASSUME SubmissionsAssumption ==
  /\ \A s \in Submissions :
       s.key \in Keys /\ WellFormed(s.request) /\ Direct(s.request)
  /\ \A p \in Programs :
       /\ p # <<>> /\ p \in Seq({p[i] : i \in 1..Len(p)})
       /\ \A i \in 1..Len(p) :
            /\ p[i].key \in Keys /\ WellFormed(p[i].request)
            /\ \A j \in CreatorsOf(p[i].request) : j \in 1..(i - 1) /\ Creates(p[j].request)
            /\ \A j \in 1..Len(p) : p[j].key = p[i].key => j = i

\* The absent value is none of the others, and claims of calls and members differ.
ASSUME ClaimantsAssumption ==
  /\ None \notin Uris \cup Calls \cup Attempts \cup Nat
  /\ None \notin Attempts \X Nat
  /\ None \notin [kind : {"uri", "unbound", "transient"}, at : Uris \cup Nat \cup {None}]
  /\ \A c \in Calls : c \notin Attempts \X Nat

durable == <<receipts, facts, groups, identities, aliases, generation>>
vars == <<durable, mode, calls, attempts, pause, told>>

\* A claim is the capability of one call or of one member of one sequence.  It
\* names the transaction and stands for its random owner token.
MemberClaim(a, i) == <<a, i>>

NewRow(r, supplied, claim, attempt) ==
  [state |-> "pending", owner |-> claim, transaction |-> claim, request |-> r,
   identity |-> IF attempt = None THEN Normalize(r, NoWitnesses) ELSE r,
   witnesses |-> IF attempt = None THEN Witnesses(r) ELSE NoWitnesses,
   attempt |-> attempt, supplied |-> supplied, allocated |-> None, position |-> 0]

Pending(key) == key \in DOMAIN receipts /\ receipts[key].owner # None

\* An answer given under a key: verdict is "receipt", "conflict", or "busy" when
\* a sequence met the pending receipt of another.  original is the request as
\* submitted (creators named by their keys), presented the same with its
\* creators bound.
Answer(key, original, presented, verdict, row) ==
  [key |-> key, original |-> original, presented |-> presented, verdict |-> verdict,
   transaction |-> row.transaction, state |-> row.state,
   allocated |-> row.allocated, position |-> row.position]

Dropped(keys) == Restrict(receipts, DOMAIN receipts \ keys)

\* A call that fails while a policy publication drains makes that fail too.
Reject == pause' = IF pause = "draining" THEN "broken" ELSE pause
-----------------------------------------------------------------------------
(* Execution of an admitted, resolved request. *)

\* What evaluation may come to, over the Resources there may be.
Outcomes(r) ==
  IF \/ \E f \in DOMAIN r.refs : r.refs[f].kind # "uri" \/ r.refs[f].at \notin identities
     \/ Creates(r) /\ r.id \in identities
     \/ r.op = "deleteAlias" /\ r.id \notin DOMAIN aliases
  THEN {"failed"}
  ELSE CASE Creates(r) -> {"failed", "effective"}
         [] r.op \in {"putAlias", "deleteAlias"} -> {"failed", "noop"}
         [] OTHER -> {"failed", "noop", "effective"}

\* The identity a creation allocates.
Allocated(r, outcome) ==
  IF outcome = "effective" /\ Creates(r)
  THEN IF r.id = None THEN Len(groups) + 1 ELSE r.id
  ELSE None

\* Effects, change group, position and terminal receipt in one transaction.
Finish(key, row, outcome) ==
  LET r == row.identity
      effective == outcome = "effective"
      allocated == Allocated(r, outcome) IN
  /\ outcome \in Outcomes(r)
  /\ receipts' = Put(receipts, key,
       [row EXCEPT !.state = IF outcome = "failed" THEN "failed" ELSE "completed",
                   !.owner = None, !.allocated = allocated,
                   !.position = IF effective THEN Len(groups) + 1 ELSE 0])
  /\ groups' = IF effective THEN Append(groups, row.transaction) ELSE groups
  /\ identities' = IF allocated = None THEN identities ELSE identities \cup {allocated}
  /\ aliases' =
       CASE outcome # "failed" /\ r.op = "putAlias" -> Put(aliases, r.id, r.refs["target"].at)
         [] outcome # "failed" /\ r.op = "deleteAlias" ->
              Restrict(aliases, DOMAIN aliases \ {r.id})
         [] OTHER -> aliases
  /\ UNCHANGED generation

\* The answer is given, or the commit took effect and the owner fenced itself
\* or died before it could be.
Committed(answer) ==
  \/ told' = told \cup {answer} /\ UNCHANGED mode
  \/ mode' = "stopped" /\ UNCHANGED told
-----------------------------------------------------------------------------
(* Direct calls: submitTransaction, with its comparison loop. *)

InPhase(phase, key, r) == [phase |-> phase, key |-> key, request |-> r]
Finished == InPhase("done", None, None)

\* Mutant: the policy in force is not consulted.
Admitting_always == pause = "none"

\* Admission refuses while a publication is pending and after it.
Admitting == pause = "none" /\ generation = 0

\* One admission: the key is claimed, or its receipt answers, or the comparison
\* is undecided and will be repeated.
Present(c, key, r) ==
  \/ /\ key \notin DOMAIN receipts
     /\ receipts' = Put(receipts, key, NewRow(r, <<>>, c, None))
     /\ calls' = [calls EXCEPT ![c] = InPhase("owned", key, r)]
     /\ UNCHANGED told
  \/ /\ key \in DOMAIN receipts
     /\ LET verdict == Verdict(receipts[key], r) IN
        /\ calls' = [calls EXCEPT ![c] =
             IF verdict = "undecided" THEN InPhase("comparing", key, r) ELSE Finished]
        /\ told' = IF verdict = "undecided" THEN told
                   ELSE told \cup {Answer(key, r, r, verdict, receipts[key])}
     /\ UNCHANGED receipts

Submit(c) ==
  /\ mode = "open" /\ calls[c].phase = "new" /\ Admitting
  /\ \E s \in Submissions : Present(c, s.key, s.request)
  /\ UNCHANGED <<facts, groups, identities, aliases, generation, mode, attempts, pause>>

Poll(c) ==
  /\ mode = "open" /\ calls[c].phase = "comparing"
  /\ \/ Admitting /\ Present(c, calls[c].key, calls[c].request) /\ UNCHANGED pause
     \/ ~Admitting /\ calls' = [calls EXCEPT ![c] = Finished] /\ Reject /\ UNCHANGED <<receipts, told>>
  /\ UNCHANGED <<facts, groups, identities, aliases, generation, mode, attempts>>

\* The comparison budget is finite and never renewed.
Deadline(c) ==
  /\ mode = "open" /\ calls[c].phase = "comparing"
  /\ calls' = [calls EXCEPT ![c] = Finished]
  /\ UNCHANGED <<durable, mode, attempts, pause, told>>

Execute(c) ==
  /\ mode = "open" /\ calls[c].phase = "owned"
  /\ LET key == calls[c].key IN
     /\ Pending(key) /\ receipts[key].owner = c
     /\ \E outcome \in {"failed", "noop", "effective"} :
          Finish(key, receipts[key], outcome)
     /\ Committed(Answer(key, calls[c].request, calls[c].request, "receipt", receipts'[key]))
  /\ calls' = [calls EXCEPT ![c] = Finished]
  /\ UNCHANGED <<facts, attempts, pause>>

\* An internal error: the execution takes its reservation back.
FailExecution(c) ==
  /\ mode = "open" /\ calls[c].phase = "owned"
  /\ receipts' = Dropped({calls[c].key})
  /\ calls' = [calls EXCEPT ![c] = Finished]
  /\ Reject
  /\ UNCHANGED <<facts, groups, identities, aliases, generation, mode, attempts, told>>
-----------------------------------------------------------------------------
(* Sequences: admitSequence, nextSequence, cancelSequence. *)

Active(a) == attempts[a].phase = "active"

Supplied(p) == [i \in 1..Len(p) |-> p[i].request.id]
CreatingMembers(p) == {i \in 1..Len(p) : Creates(p[i].request)}

\* Every member whose key is unknown is reserved, all in one transaction.
AdmitSequence(a) ==
  /\ mode = "open" /\ attempts[a].phase = "new" /\ Admitting
  /\ \E p \in Programs :
       LET unknown == {i \in 1..Len(p) : p[i].key \notin DOMAIN receipts}
           Reserved(i) ==
             NewRow(p[i].request, Supplied(p), MemberClaim(a, i),
                    IF Deferred(p[i].request) THEN a ELSE None)
           member == [k \in {p[i].key : i \in unknown} |->
                        CHOOSE i \in unknown : p[i].key = k] IN
       /\ receipts' = [k \in DOMAIN receipts \cup DOMAIN member |->
            IF k \in DOMAIN member THEN Reserved(member[k]) ELSE receipts[k]]
       /\ facts' = [f \in DOMAIN facts \cup ({a} \X CreatingMembers(p)) |->
            IF f[1] = a THEN None ELSE facts[f]]
       /\ attempts' = [attempts EXCEPT ![a] =
            [phase |-> "active", program |-> p, owned |-> unknown, next |-> 1]]
  /\ UNCHANGED <<groups, identities, aliases, generation, mode, calls, pause, told>>

\* What a dependent will read of a creator: its allocation, or that it has none,
\* or that nothing is decided.
FactOf(row) ==
  CASE row.state = "failed" -> Unbound
    [] row.state = "pending" -> Transient
    [] OTHER -> Uri(row.allocated)

\* The turn of a ends: its fact is recorded, and after the last member the
\* attempt's facts go.
EndTurn(a, fact) ==
  LET t == attempts[a]
      done == t.next = Len(t.program) IN
  /\ facts' =
       IF done THEN Restrict(facts, {f \in DOMAIN facts : f[1] # a})
       ELSE IF Creates(t.program[t.next].request)
       THEN [facts EXCEPT ![<<a, t.next>>] = fact] ELSE facts
  /\ attempts' = [attempts EXCEPT ![a].next = t.next + 1,
                                  ![a].phase = IF done THEN "done" ELSE "active"]

Member(a) == attempts[a].program[attempts[a].next]
AsSubmitted(a) ==
  LET r == Member(a).request IN
  [r EXCEPT !.refs = [f \in DOMAIN r.refs |->
     IF r.refs[f].kind = "creator" THEN Creator(attempts[a].program[r.refs[f].at].key)
     ELSE r.refs[f]]]
Owns(a) == attempts[a].next \in attempts[a].owned
Waiting(a) == \E i \in CreatorsOf(Member(a).request) : facts[<<a, i>>] = Transient

\* A creator is undecided: so is its dependent, whose own reservation goes.
TransientTurn(a) ==
  /\ Waiting(a)
  /\ receipts' = IF Owns(a) THEN Dropped({Member(a).key}) ELSE receipts
  /\ EndTurn(a, Transient)
  /\ UNCHANGED <<groups, identities, aliases, generation, mode, told>>

\* Mutant: a pending receipt of another is waited for.
AnsweredTurn_waits(a) ==
  LET key == Member(a).key
      presented == Bind(Member(a).request, a) IN
  /\ ~Waiting(a) /\ ~Owns(a) /\ key \in DOMAIN receipts /\ ~Pending(key)
  /\ LET row == receipts[key]
         verdict == Verdict(row, presented) IN
     /\ told' = told \cup {Answer(key, AsSubmitted(a), presented, verdict, row)}
     /\ EndTurn(a, IF verdict = "conflict" THEN Unbound ELSE FactOf(row))
  /\ UNCHANGED <<receipts, groups, identities, aliases, generation, mode>>

\* The key already had a receipt: a pending one of another is not waited for.
AnsweredTurn(a) ==
  LET key == Member(a).key
      presented == Bind(Member(a).request, a) IN
  /\ ~Waiting(a) /\ ~Owns(a) /\ key \in DOMAIN receipts
  /\ LET row == receipts[key]
         verdict == IF Pending(key) THEN "busy" ELSE Verdict(row, presented) IN
     /\ told' = told \cup {Answer(key, AsSubmitted(a), presented, verdict, row)}
     /\ EndTurn(a, IF verdict = "conflict" THEN Unbound ELSE FactOf(row))
  /\ UNCHANGED <<receipts, groups, identities, aliases, generation, mode>>

\* The member's own reservation is resolved, or a key unknown by now is claimed,
\* and executed.
ExecutedTurn(a) ==
  LET key == Member(a).key
      claim == MemberClaim(a, attempts[a].next)
      r == Member(a).request
      row == [NewRow(Bind(r, a), <<>>, claim, None) EXCEPT !.request = r] IN
  /\ ~Waiting(a)
  /\ \/ Owns(a) /\ Pending(key) /\ receipts[key].owner = claim
     \/ ~Owns(a) /\ key \notin DOMAIN receipts
  /\ \E outcome \in {"failed", "noop", "effective"} : Finish(key, row, outcome)
  /\ EndTurn(a, FactOf(receipts'[key]))
  /\ Committed(Answer(key, AsSubmitted(a), Bind(r, a), "receipt", receipts'[key]))

Turn(a) ==
  /\ mode = "open" /\ Active(a)
  /\ TransientTurn(a) \/ AnsweredTurn(a) \/ ExecutedTurn(a)
  /\ UNCHANGED <<calls, pause>>

\* Mutant: only the current member's reservation is released.
Cancel_current(a) ==
  /\ mode = "open" /\ Active(a)
  /\ receipts' = IF Owns(a) THEN Dropped({Member(a).key}) ELSE receipts
  /\ facts' = Restrict(facts, {f \in DOMAIN facts : f[1] # a})
  /\ attempts' = [attempts EXCEPT ![a].phase = "done"]
  /\ Reject
  /\ UNCHANGED <<groups, identities, aliases, generation, mode, calls, told>>

\* Mutant: keys are released without a look at who owns them by now.
Cancel_keys(a) ==
  /\ mode = "open" /\ Active(a)
  /\ receipts' = Dropped({attempts[a].program[i].key : i \in attempts[a].owned})
  /\ facts' = Restrict(facts, {f \in DOMAIN facts : f[1] # a})
  /\ attempts' = [attempts EXCEPT ![a].phase = "done"]
  /\ Reject
  /\ UNCHANGED <<groups, identities, aliases, generation, mode, calls, told>>

\* An internal error in a turn, or an authority abort: what the attempt still
\* holds is released, what it committed stays.
Cancel(a) ==
  /\ mode = "open" /\ Active(a)
  /\ receipts' = Dropped({k \in DOMAIN receipts :
       \E i \in attempts[a].owned :
         receipts[k].owner = MemberClaim(a, i)})
  /\ facts' = Restrict(facts, {f \in DOMAIN facts : f[1] # a})
  /\ attempts' = [attempts EXCEPT ![a].phase = "done"]
  /\ Reject
  /\ UNCHANGED <<groups, identities, aliases, generation, mode, calls, told>>
-----------------------------------------------------------------------------
(* Retention, recovery and policy. *)

\* Mutant: the compact receipt loses the allocation.
Sweep_allocations ==
  /\ mode = "open"
  /\ \E K \in SUBSET {k \in DOMAIN receipts : receipts[k].state \in {"completed", "failed"}} :
       LET forgotten == {k \in K : receipts[k].state = "failed"} IN
       /\ K # {}
       /\ receipts' = [k \in DOMAIN receipts \ forgotten |->
            IF k \in K THEN [receipts[k] EXCEPT !.state = "expired", !.allocated = None]
            ELSE receipts[k]]
  /\ UNCHANGED <<facts, groups, identities, aliases, generation, mode, calls, attempts, pause, told>>

\* Detail expires any time after its term: of a completed transaction the key,
\* identity and allocations stay for ever, a failed one is forgotten.  The same
\* happens to the row an admission looks up and to all at startup; with no bound
\* on the delay those are this action just before the admission or after Open.
Sweep ==
  /\ mode = "open"
  /\ \E K \in SUBSET {k \in DOMAIN receipts : receipts[k].state \in {"completed", "failed"}} :
       LET forgotten == {k \in K : receipts[k].state = "failed"} IN
       /\ K # {}
       /\ receipts' = [k \in DOMAIN receipts \ forgotten |->
            IF k \in K THEN [receipts[k] EXCEPT !.state = "expired"] ELSE receipts[k]]
  /\ UNCHANGED <<facts, groups, identities, aliases, generation, mode, calls, attempts, pause, told>>

Pause ==
  /\ Replaceable
  /\ mode = "open" /\ pause = "none"
  /\ pause' = "draining"
  /\ UNCHANGED <<durable, mode, calls, attempts, told>>

Drained ==
  /\ \A c \in Calls : calls[c].phase \notin {"owned", "comparing"}
  /\ \A a \in Attempts : ~Active(a)

\* The new policy is published once nothing that was admitted is unfinished.
Publish ==
  /\ mode = "open" /\ pause = "draining" /\ Drained
  /\ \A k \in DOMAIN receipts : ~Pending(k)
  /\ generation' = 1
  /\ pause' = "none"
  /\ UNCHANGED <<receipts, facts, groups, identities, aliases, mode, calls, attempts, told>>

\* The publication is given up: its deadline, its caller, or a failed call.
Resume ==
  /\ mode = "open" /\ pause # "none"
  /\ pause' = "none"
  /\ UNCHANGED <<durable, mode, calls, attempts, told>>

\* The process ends, is closed, or fences itself, between any two steps.
Stop ==
  /\ mode = "open"
  /\ mode' = "stopped"
  /\ UNCHANGED <<durable, calls, attempts, pause, told>>

\* Startup retracts whatever was pending and forgets the facts; the calls and
\* sequences of the old process are gone.
Open ==
  /\ mode = "stopped"
  /\ mode' = "open"
  /\ receipts' = Dropped({k \in DOMAIN receipts : Pending(k)})
  /\ facts' = Restrict(facts, {})
  /\ calls' = [c \in Calls |->
       IF calls[c].phase \in {"owned", "comparing"} THEN Finished ELSE calls[c]]
  /\ attempts' = [a \in Attempts |->
       IF Active(a) THEN [attempts[a] EXCEPT !.phase = "done"] ELSE attempts[a]]
  /\ pause' = "none"
  /\ UNCHANGED <<groups, identities, aliases, generation, told>>

NoRow == [x \in {} |-> None]

Init ==
  /\ receipts = NoRow /\ facts = NoRow /\ aliases = NoRow
  /\ groups = <<>> /\ identities = {} /\ generation = 0
  /\ mode = "open" /\ pause = "none" /\ told = {}
  /\ calls = [c \in Calls |-> InPhase("new", None, None)]
  /\ attempts = [a \in Attempts |->
       [phase |-> "new", program |-> <<>>, owned |-> {}, next |-> 1]]

Next ==
  \/ \E c \in Calls : Submit(c) \/ Poll(c) \/ Deadline(c) \/ Execute(c) \/ FailExecution(c)
  \/ \E a \in Attempts : AdmitSequence(a) \/ Turn(a) \/ Cancel(a)
  \/ Sweep \/ Pause \/ Publish \/ Resume \/ Stop \/ Open

Spec == Init /\ [][Next]_vars
-----------------------------------------------------------------------------
(* What the transactional authority promises. *)

States == {"pending", "completed", "failed", "expired"}

\* Types of the tables; a receipt has an owner exactly while it is pending, and
\* a position only where a change group is.
TypeOK ==
  /\ DOMAIN receipts \subseteq Keys
  /\ \A k \in DOMAIN receipts :
       /\ receipts[k].state \in States
       /\ receipts[k].state = "pending" <=> receipts[k].owner # None
       /\ receipts[k].allocated \in Uris \cup 1..Len(groups) \cup {None}
       /\ receipts[k].position \in 0..Len(groups)
  /\ DOMAIN facts \subseteq Attempts \X Nat
  /\ identities \subseteq Uris \cup 1..Len(groups)
  /\ DOMAIN aliases \subseteq Locators /\ Range(aliases) \subseteq identities
  /\ generation \in {0, 1} /\ mode \in {"open", "stopped"}
  /\ pause \in {"none", "draining", "broken"}

Claimed(claim, key) ==
  \/ \E c \in Calls : claim = c /\ calls[c].phase = "owned" /\ calls[c].key = key
  \/ \E a \in Attempts : Active(a)
       /\ \E i \in attempts[a].owned :
            claim = MemberClaim(a, i) /\ i >= attempts[a].next
              /\ attempts[a].program[i].key = key

\* While the owner is up no key is stuck "in progress", and no execution finds
\* its reservation gone: a receipt is pending exactly while the call or the
\* sequence that owns it will still come to it (admitKey, executeClaim,
\* cancelSequence, the startup of the owner).
ClaimsMatchReceipts ==
  mode = "open" =>
    /\ \A k \in DOMAIN receipts : Pending(k) => Claimed(receipts[k].owner, k)
    /\ \A c \in Calls : calls[c].phase = "owned" =>
         Pending(calls[c].key) /\ receipts[calls[c].key].owner = c
    /\ \A a \in Attempts : Active(a) =>
         \A i \in attempts[a].owned : i >= attempts[a].next =>
           LET key == attempts[a].program[i].key IN
           Pending(key) /\ receipts[key].owner = MemberClaim(a, i)

\* The comparison of a direct request with an unresolved reservation always
\* finds the facts of its creators, and a sequence always knows the creators of
\* the member it comes to: never "unresolved receipt lost creator fact" or
\* "creator turn not resolved".
DeferredHasFacts ==
  /\ \A k \in DOMAIN receipts : Unresolved(receipts[k]) =>
       \A i \in CreatorsOf(receipts[k].request) : <<receipts[k].attempt, i>> \in DOMAIN facts
  /\ \A a \in Attempts : Active(a) =>
       \A i \in CreatingMembers(attempts[a].program) :
         /\ <<a, i>> \in DOMAIN facts
         /\ i < attempts[a].next => facts[<<a, i>>] # None

\* A dependent that took effect used the Resource that its creator's key stands
\* for, through retries, foreign receipts, expiry and forgotten failures.
BoundToCreator ==
  \A k \in DOMAIN receipts :
    LET row == receipts[k] IN
    row.state \in {"completed", "expired"} =>
      \A f \in DOMAIN row.request.refs :
        row.request.refs[f].kind = "creator" =>
          LET program == attempts[row.transaction[1]].program
              creator == program[row.request.refs[f].at].key IN
          /\ creator \in DOMAIN receipts
          /\ receipts[creator].state \in {"completed", "expired"}
          /\ row.identity.refs[f] = Uri(receipts[creator].allocated)

\* No answer is contradicted later: a request that was told the receipt of its
\* key, or a conflict, while the reservation was still unresolved is told the
\* same for as long as the key has that transaction.  (Of a request with aliases
\* the receipt did not witness this cannot be said: they are read anew.)
VerdictsStand ==
  \A t \in told : t.key \in DOMAIN receipts /\ t.verdict # "busy" =>
    LET row == receipts[t.key] IN
    /\ row.transaction = t.transaction
    /\ ~Unresolved(row)
    /\ LocatorsOf(t.presented) \subseteq DOMAIN row.witnesses
    => Verdict(row, t.presented) = t.verdict

\* A retry of a request, or of a sequence whose creators are bound by then, is
\* never told that it conflicts with its own completed receipt.  (A sequence of
\* which a creator permanently failed may be: that failure was forgotten and its
\* key taken by another meanwhile.  So may a request through aliases of which the
\* receipt witnessed none: they are read anew.)
RetriesMeetTheirReceipts ==
  [][\A u \in told' \ told :
       /\ u.verdict = "conflict" /\ Unbound \notin Range(u.presented.refs)
       /\ LocatorsOf(u.presented) \subseteq DOMAIN receipts[u.key].witnesses
       => ~\E t \in told : /\ t.key = u.key /\ t.original = u.original
                           /\ t.verdict = "receipt" /\ t.state \in {"completed", "expired"}
    ]_vars

\* Once the new policy is published nothing is admitted or takes effect any
\* more, whatever was in flight and across restarts.
PolicyIsFinal ==
  [][generation = 1 =>
       /\ generation' = 1
       /\ groups' = groups /\ aliases' = aliases
       /\ \A k \in DOMAIN receipts' : k \in DOMAIN receipts /\ ~Pending(k)]_vars

EffectOf(row) ==
  [transaction |-> row.transaction, allocated |-> row.allocated, position |-> row.position]

RowsIn(states) == {k \in DOMAIN receipts : receipts[k].state \in states}

Ledger == INSTANCE MutationLedger WITH
  held <- RowsIn({"pending"}),
  final <- [k \in RowsIn({"completed", "expired"}) |-> EffectOf(receipts[k])],
  failed <- [k \in RowsIn({"failed"}) |-> receipts[k].transaction],
  told <- {<<t.key, EffectOf(t)>> : t \in
             {t \in told : t.verdict = "receipt" /\ t.state \in {"completed", "expired"}}}

\* Seen from the callers the receipts are a mutation ledger: one holder per key
\* and at most one effect, for ever, whatever stops, expires or is retried.
ImplementsLedger == Ledger!Spec

\* Each position has one group and each group the receipt of its transaction,
\* which names it: no effect is lost or repeated by a retry of its key.
GroupsHaveReceipts ==
  \A n \in 1..Len(groups) :
    \E k \in RowsIn({"completed", "expired"}) :
      receipts[k].position = n /\ receipts[k].transaction = groups[n]

\* The tables keep their shape, and reservations and their owners, facts of creators
\* included, agree.
ReservationsAreOwned == TypeOK /\ ClaimsMatchReceipts /\ DeferredHasFacts

\* Each effect is told by the receipt of its key, of the Resource that its
\* creators' keys stand for.
EffectsAreTold == BoundToCreator /\ GroupsHaveReceipts

(***************************************************************************)
(* Liveness.  The scheduler delivers every turn of a sequence that is not  *)
(* cancelled, an admitted call executes after its await, and a comparison  *)
(* has one deadline (the contracts of transaction-service.ts and           *)
(* transaction-comparison.ts).                                             *)
(***************************************************************************)
Fairness ==
  /\ \A c \in Calls : WF_vars(Execute(c)) /\ WF_vars(Deadline(c))
  /\ \A a \in Attempts : WF_vars(Turn(a))

\* Every admitted call and sequence ends, unless the process does: nobody waits
\* for a key in a circle, however the keys of the sequences overlap.
EveryCallEnds ==
  /\ \A c \in Calls : calls[c].phase \in {"owned", "comparing"} ~>
                        (calls[c].phase = "done" \/ mode = "stopped")
  /\ \A a \in Attempts : Active(a) ~> (~Active(a) \/ mode = "stopped")
=============================================================================
