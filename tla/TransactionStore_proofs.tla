----------------------- MODULE TransactionStore_proofs -----------------------
(***************************************************************************)
(* Proofs about the transactional authority's receipts, reservations and   *)
(* sequences (TransactionStore), for every set of keys, callers, requests  *)
(* and sequences.                                                          *)
(*                                                                         *)
(* The inductive invariant IInv adds to the properties what they rest on:  *)
(* the shapes of the tables; that a receipt pending for a deferred member  *)
(* knows the turn that will come to it; that a receipt's transaction is a  *)
(* call or a member whose request it has; that facts name what creators'   *)
(* keys stand for; and that a published policy leaves nothing unfinished.  *)
(*                                                                         *)
(* AInv adds that no answer is contradicted later, and RInv that a retry   *)
(* presents what was presented when its effect was told.                   *)
(***************************************************************************)
EXTENDS TransactionStore, TLAPS

(* Shapes. *)

RowFields == {"state", "owner", "transaction", "request", "identity", "witnesses",
              "attempt", "supplied", "allocated", "position"}
IsRow(row) == row = [f \in RowFields |-> row[f]]

\* What a receipt was made for: the request and the identity agree but for the
\* references.
RowFits(row) ==
  /\ IsRow(row)
  /\ WellFormed(row.request)
  /\ row.identity = Request(row.request.op, row.request.id, row.identity.refs)
  /\ DOMAIN row.identity.refs = DOMAIN row.request.refs
  /\ row.owner \in {None, row.transaction}

CallFits(call) ==
  /\ call = InPhase(call.phase, call.key, call.request)
  /\ call.phase \in {"new", "owned", "comparing", "done"}
  /\ call.phase \in {"owned", "comparing"} =>
       /\ call.key \in Keys
       /\ WellFormed(call.request) /\ Direct(call.request)

AttemptFits(t) ==
  /\ t = [phase |-> t.phase, program |-> t.program, owned |-> t.owned, next |-> t.next]
  /\ t.phase \in {"new", "active", "done"}
  /\ t.phase # "new" => t.program \in Programs /\ t.owned \subseteq 1..Len(t.program)
  /\ t.phase = "active" => t.next \in 1..Len(t.program)

RowShapes ==
  /\ receipts = [k \in DOMAIN receipts |-> receipts[k]]
  /\ \A k \in DOMAIN receipts : RowFits(receipts[k])
  /\ aliases = [l \in DOMAIN aliases |-> aliases[l]]
  /\ groups \in Seq(Calls \cup (Attempts \X Nat))

CallerShapes ==
  /\ facts = [f \in DOMAIN facts |-> facts[f]]
  /\ calls = [c \in Calls |-> calls[c]]
  /\ \A c \in Calls : CallFits(calls[c])
  /\ attempts = [a \in Attempts |-> attempts[a]]
  /\ \A a \in Attempts : AttemptFits(attempts[a])

\* An unresolved receipt is the reservation of a member that has its turn to come.
UnresolvedHasTurn ==
  \A k \in DOMAIN receipts : Unresolved(receipts[k]) =>
    \E a \in Attempts : \E i \in attempts[a].owned :
      /\ Active(a) /\ i >= attempts[a].next
      /\ k = attempts[a].program[i].key
      /\ receipts[k].attempt = a /\ receipts[k].owner = MemberClaim(a, i)
      /\ receipts[k].request = attempts[a].program[i].request

\* The transaction of a receipt is a call, of a request with no creators, or a member of
\* a sequence, whose request it has.
RowHasTransaction ==
  \A k \in DOMAIN receipts :
    LET row == receipts[k] IN
    \/ row.transaction \in Calls /\ CreatorsOf(row.request) = {} 
    \/ \E a \in Attempts : \E i \in 1..Len(attempts[a].program) :
         /\ attempts[a].phase # "new" /\ row.transaction = MemberClaim(a, i)
         /\ row.request = attempts[a].program[i].request

Decided(key) == key \in DOMAIN receipts /\ receipts[key].state \in {"completed", "expired"}

\* The fact of a creator is the allocation under its key, once and for ever.
FactsAreAllocations ==
  \A a \in Attempts : Active(a) =>
    \A j \in CreatingMembers(attempts[a].program) :
      LET key == attempts[a].program[j].key IN
      \/ facts[<<a, j>>] \in {None, Unbound, Transient}
      \/ Decided(key) /\ facts[<<a, j>>] = Uri(receipts[key].allocated)

\* Nothing is unfinished under the last policy.
PolicyLeavesNothing ==
  generation = 1 =>
    /\ \A c \in Calls : calls[c].phase \notin {"owned", "comparing"}
    /\ \A a \in Attempts : ~Active(a)
    /\ \A k \in DOMAIN receipts : ~Pending(k)

IInv ==
  /\ RowShapes /\ CallerShapes /\ TypeOK
  /\ UnresolvedHasTurn /\ RowHasTransaction /\ ClaimsMatchReceipts /\ DeferredHasFacts
  /\ FactsAreAllocations /\ BoundToCreator /\ GroupsHaveReceipts /\ PolicyLeavesNothing
-----------------------------------------------------------------------------
(* What a step does to the receipts. *)

\* A reservation is made for a call or for a member of a sequence that is running then.
Reserves(k) ==
  \E r, supplied, claim, attempt :
    /\ receipts'[k] = NewRow(r, supplied, claim, attempt)
    /\ k \in Keys /\ WellFormed(r)
    /\ \/ claim \in Calls /\ attempt = None /\ CreatorsOf(r) = {}
       \/ \E a \in Attempts : \E i \in 1..Len(attempts'[a].program) :
            /\ claim = MemberClaim(a, i) /\ attempt \in {None, a}
            /\ attempts'[a].phase # "new" /\ r = attempts'[a].program[i].request

ReserveStep ==
  /\ receipts' = [k \in DOMAIN receipts' |-> receipts'[k]]
  /\ DOMAIN receipts \subseteq DOMAIN receipts'
  /\ \A k \in DOMAIN receipts' : IF k \in DOMAIN receipts THEN receipts'[k] = receipts[k]
                                 ELSE Reserves(k)
  /\ (\E c \in Calls : Submit(c) \/ Poll(c)) \/ (\E a \in Attempts : AdmitSequence(a))
  /\ UNCHANGED <<groups, identities, aliases, generation>>

DropStep ==
  /\ \E K : receipts' = Dropped(K) /\ \A k \in K \cap DOMAIN receipts : Pending(k)
  /\ UNCHANGED <<groups, identities, aliases, generation>>

KeepStep == UNCHANGED <<receipts, groups, identities, aliases, generation>>

PublishStep == UNCHANGED <<receipts, groups, identities, aliases>> /\ generation' = 1

SweepStep ==
  /\ \E K \in SUBSET {k \in DOMAIN receipts : receipts[k].state \in {"completed", "failed"}} :
       LET forgotten == {k \in K : receipts[k].state = "failed"} IN
       receipts' = [k \in DOMAIN receipts \ forgotten |->
            IF k \in K THEN [receipts[k] EXCEPT !.state = "expired"] ELSE receipts[k]]
  /\ UNCHANGED <<groups, identities, aliases, generation>>

\* The request of the row that is finished is a call's, or the member's whose turn it is.
Finishes(key, row, outcome) ==
  /\ Finish(key, row, outcome)
  /\ outcome \in {"failed", "noop", "effective"}
  /\ key \in Keys /\ RowFits(row)
  /\ row.transaction \in Calls \cup (Attempts \X Nat)
  /\ key \in DOMAIN receipts => Pending(key)
  /\ row.attempt = None
  /\ row.owner = row.transaction

\* The row a turn executes.
TurnRow(a) ==
  [NewRow(Bind(Member(a).request, a), <<>>, MemberClaim(a, attempts[a].next), None)
     EXCEPT !.request = Member(a).request]

ExecutesCall(c, key, row) == Execute(c) /\ key = calls[c].key /\ row = receipts[key]

ExecutesTurn(a, key, row) ==
  /\ mode = "open" /\ Active(a) /\ ExecutedTurn(a)
  /\ key = Member(a).key /\ row = TurnRow(a)

FinishStep ==
  \E key, row, outcome :
    /\ Finishes(key, row, outcome)
    /\ (\E c \in Calls : ExecutesCall(c, key, row)) \/ (\E a \in Attempts : ExecutesTurn(a, key, row))
-----------------------------------------------------------------------------
(* The tables after a step of each kind. *)

\* The types of the tables that hold what was decided.
RowTypes ==
  /\ DOMAIN receipts \subseteq Keys
  /\ \A k \in DOMAIN receipts :
       /\ receipts[k].state \in States
       /\ receipts[k].state = "pending" <=> receipts[k].owner # None
       /\ receipts[k].allocated \in Uris \cup 1..Len(groups) \cup {None}
       /\ receipts[k].position \in 0..Len(groups)
  /\ identities \subseteq Uris \cup 1..Len(groups)
  /\ DOMAIN aliases \subseteq Locators /\ Range(aliases) \subseteq identities
  /\ generation \in {0, 1}

RowInv == RowShapes /\ RowTypes

\* What was decided stays, with all it says.
DecidedStays ==
  \A k \in DOMAIN receipts : receipts[k].state \in {"completed", "expired"} =>
    /\ k \in DOMAIN receipts' /\ receipts'[k].state \in {"completed", "expired"}
    /\ receipts'[k] = [receipts[k] EXCEPT !.state = receipts'[k].state]

LEMMA PutHolds ==
  ASSUME NEW f, NEW k, NEW v
  PROVE  /\ DOMAIN Put(f, k, v) = DOMAIN f \cup {k}
         /\ Put(f, k, v)[k] = v
         /\ \A x \in DOMAIN f \ {k} : Put(f, k, v)[x] = f[x]
         /\ Put(f, k, v) = [x \in DOMAIN Put(f, k, v) |-> Put(f, k, v)[x]]
BY DEF Put

LEMMA DroppedHolds ==
  ASSUME NEW K
  PROVE  /\ DOMAIN Dropped(K) = DOMAIN receipts \ K
         /\ \A k \in DOMAIN receipts \ K : Dropped(K)[k] = receipts[k]
         /\ Dropped(K) = [k \in DOMAIN Dropped(K) |-> Dropped(K)[k]]
BY DEF Dropped, Restrict

LEMMA DropHolds ==
  ASSUME DropStep
  PROVE  \A k \in DOMAIN receipts' : k \in DOMAIN receipts /\ receipts'[k] = receipts[k]
<1>1. PICK K : receipts' = Dropped(K)
  BY DEF DropStep
<1>2. QED
  BY <1>1, DroppedHolds

LEMMA DirectHolds == ASSUME NEW r, Direct(r) PROVE CreatorsOf(r) = {}
BY DEF Direct, CreatorsOf, OfKind

LEMMA ReservedRow ==
  ASSUME NEW r, NEW supplied, NEW claim \in Calls \cup (Attempts \X Nat), NEW attempt, WellFormed(r),
         NEW row, row = NewRow(r, supplied, claim, attempt)
  PROVE  /\ RowFits(row) /\ row.state = "pending" /\ row.owner = claim /\ row.owner # None
         /\ row.transaction = claim /\ row.request = r /\ row.attempt = attempt
         /\ row.allocated = None /\ row.position = 0
BY ClaimantsAssumption DEF NewRow, RowFits, IsRow, RowFields, Normalize, Request, WellFormed

LEMMA KeepRows == ASSUME RowInv, KeepStep \/ PublishStep PROVE RowInv' /\ DecidedStays
BY DEF KeepStep, PublishStep, RowInv, RowShapes, RowTypes, DecidedStays, RowFits, IsRow, RowFields

LEMMA DropRows == ASSUME RowInv, DropStep PROVE RowInv' /\ DecidedStays
<1>1. PICK K : receipts' = Dropped(K) /\ \A k \in K \cap DOMAIN receipts : Pending(k)
  BY DEF DropStep
<1>2. UNCHANGED <<groups, identities, aliases, generation>>
  BY DEF DropStep
<1>3. /\ DOMAIN receipts' = DOMAIN receipts \ K
      /\ \A k \in DOMAIN receipts' : receipts'[k] = receipts[k]
      /\ receipts' = [k \in DOMAIN receipts' |-> receipts'[k]]
  BY <1>1, DroppedHolds
<1>4. RowShapes'
  BY <1>2, <1>3 DEF RowInv, RowShapes
<1>5. RowTypes'
  BY <1>2, <1>3 DEF RowInv, RowTypes
<1>6. DecidedStays
  BY <1>1, <1>3 DEF RowInv, RowTypes, RowShapes, RowFits, IsRow, RowFields, DecidedStays, Pending
<1>7. QED
  BY <1>4, <1>5, <1>6 DEF RowInv

LEMMA SweepRows == ASSUME RowInv, SweepStep PROVE RowInv' /\ DecidedStays
<1>1. PICK K \in SUBSET {k \in DOMAIN receipts : receipts[k].state \in {"completed", "failed"}} :
        receipts' = [k \in DOMAIN receipts \ {k \in K : receipts[k].state = "failed"} |->
            IF k \in K THEN [receipts[k] EXCEPT !.state = "expired"] ELSE receipts[k]]
  BY DEF SweepStep
<1>2. UNCHANGED <<groups, identities, aliases, generation>>
  BY DEF SweepStep
<1>3. ASSUME NEW k \in DOMAIN receipts'
      PROVE  /\ k \in DOMAIN receipts
             /\ \/ receipts'[k] = receipts[k]
                \/ /\ receipts[k].state = "completed"
                   /\ receipts'[k] = [receipts[k] EXCEPT !.state = "expired"]
  BY <1>1
<1>4. ASSUME NEW k \in DOMAIN receipts'
      PROVE  /\ RowFits(receipts'[k])
             /\ receipts'[k].state \in States
             /\ receipts'[k].state = "pending" <=> receipts'[k].owner # None
             /\ receipts'[k].allocated = receipts[k].allocated
             /\ receipts'[k].position = receipts[k].position
  <2>1. /\ RowFits(receipts[k]) /\ receipts[k].state \in States
        /\ receipts[k].state = "pending" <=> receipts[k].owner # None
    BY <1>3 DEF RowInv, RowShapes, RowTypes
  <2>2. CASE receipts'[k] = receipts[k]
    BY <2>1, <2>2
  <2>3. CASE receipts[k].state = "completed" /\ receipts'[k] = [receipts[k] EXCEPT !.state = "expired"]
    BY <2>1, <2>3 DEF RowFits, IsRow, RowFields, States
  <2>4. QED
    BY <1>3, <2>2, <2>3
<1>5. RowShapes'
  BY <1>1, <1>2, <1>4 DEF RowInv, RowShapes
<1>6. RowTypes'
  BY <1>2, <1>3, <1>4 DEF RowInv, RowTypes
<1>7. ASSUME NEW k \in DOMAIN receipts, receipts[k].state \in {"completed", "expired"}
      PROVE  /\ k \in DOMAIN receipts' /\ receipts'[k].state \in {"completed", "expired"}
             /\ receipts'[k] = [receipts[k] EXCEPT !.state = receipts'[k].state]
  <2>1. RowFits(receipts[k])
    BY DEF RowInv, RowShapes
  <2>2. k \in DOMAIN receipts'
    BY <1>1, <1>7
  <2>3. QED
    BY <1>3, <1>7, <2>1, <2>2 DEF RowFits, IsRow, RowFields
<1>8. QED
  BY <1>5, <1>6, <1>7 DEF RowInv, DecidedStays

LEMMA ReserveRows == ASSUME RowInv, ReserveStep PROVE RowInv' /\ DecidedStays
<1>1. ASSUME NEW k \in DOMAIN receipts', k \notin DOMAIN receipts
      PROVE  /\ k \in Keys /\ RowFits(receipts'[k]) /\ receipts'[k].state = "pending"
             /\ receipts'[k].owner # None
             /\ receipts'[k].allocated = None /\ receipts'[k].position = 0
  <2>1. Reserves(k)
    BY <1>1 DEF ReserveStep
  <2>2. PICK r, supplied, claim, attempt :
          /\ receipts'[k] = NewRow(r, supplied, claim, attempt)
          /\ k \in Keys /\ WellFormed(r)
          /\ \/ claim \in Calls
             \/ \E a \in Attempts : \E i \in 1..Len(attempts'[a].program) : claim = MemberClaim(a, i)
    BY <2>1 DEF Reserves
  <2>3. claim \in Calls \cup (Attempts \X Nat)
    BY <2>2 DEF MemberClaim
  <2>4. QED
    BY <2>2, <2>3, ReservedRow
<1>2. UNCHANGED <<groups, identities, aliases, generation>>
  BY DEF ReserveStep
<1>3. \A k \in DOMAIN receipts : k \in DOMAIN receipts' /\ receipts'[k] = receipts[k]
  BY DEF ReserveStep
<1>4. RowShapes'
  BY <1>1, <1>2, <1>3 DEF RowInv, RowShapes, ReserveStep
<1>5. Len(groups) \in Nat
  BY DEF RowInv, RowShapes
<1>6. RowTypes'
  <2>1. ASSUME NEW k \in DOMAIN receipts'
        PROVE  /\ k \in Keys /\ receipts'[k].state \in States
               /\ receipts'[k].state = "pending" <=> receipts'[k].owner # None
               /\ receipts'[k].allocated \in Uris \cup 1..Len(groups) \cup {None}
               /\ receipts'[k].position \in 0..Len(groups)
    <3>1. CASE k \in DOMAIN receipts
      BY <3>1, <1>3 DEF RowInv, RowTypes
    <3>2. CASE k \notin DOMAIN receipts
      BY <3>2, <1>1, <1>5 DEF States
    <3>3. QED
      BY <3>1, <3>2
  <2>2. QED
    BY <1>2, <2>1 DEF RowInv, RowTypes
<1>7. DecidedStays
  BY <1>3 DEF RowInv, RowShapes, RowFits, IsRow, RowFields, DecidedStays
<1>8. QED
  BY <1>4, <1>6, <1>7 DEF RowInv

\* The row an execution leaves under its key.
Final(key, row, outcome) ==
  LET effective == outcome = "effective" IN
  /\ IsRow(receipts'[key])
  /\ receipts'[key].state = IF outcome = "failed" THEN "failed" ELSE "completed"
  /\ receipts'[key].owner = None /\ receipts'[key].attempt = None
  /\ receipts'[key].transaction = row.transaction
  /\ receipts'[key].request = row.request /\ receipts'[key].identity = row.identity
  /\ receipts'[key].allocated = Allocated(row.identity, outcome)
  /\ receipts'[key].position = IF effective THEN Len(groups) + 1 ELSE 0

LEMMA FinishRow ==
  ASSUME NEW key, NEW row, NEW outcome, Finishes(key, row, outcome)
  PROVE  /\ DOMAIN receipts' = DOMAIN receipts \cup {key}
         /\ receipts' = [k \in DOMAIN receipts' |-> receipts'[k]]
         /\ \A k \in DOMAIN receipts \ {key} : receipts'[k] = receipts[k]
         /\ Final(key, row, outcome)
<1> DEFINE new == [row EXCEPT !.state = IF outcome = "failed" THEN "failed" ELSE "completed",
                   !.owner = None, !.allocated = Allocated(row.identity, outcome),
                   !.position = IF outcome = "effective" THEN Len(groups) + 1 ELSE 0]
<1>1. receipts' = Put(receipts, key, new)
  BY DEF Finishes, Finish
<1>2. /\ DOMAIN receipts' = DOMAIN receipts \cup {key}
      /\ receipts' = [k \in DOMAIN receipts' |-> receipts'[k]]
      /\ \A k \in DOMAIN receipts \ {key} : receipts'[k] = receipts[k]
      /\ receipts'[key] = new
  <2> HIDE DEF new
  <2> QED
    BY <1>1 DEF Put
<1>3. IsRow(row) /\ row.attempt = None
  BY DEF Finishes, RowFits
<1>4. Final(key, row, outcome)
  <2> HIDE DEF Allocated
  <2>1. DOMAIN row = RowFields
    BY <1>3 DEF IsRow
  <2>2. /\ new = [f \in RowFields |-> new[f]]
        /\ new.state = IF outcome = "failed" THEN "failed" ELSE "completed"
        /\ new.owner = None /\ new.attempt = row.attempt
        /\ new.transaction = row.transaction
        /\ new.request = row.request /\ new.identity = row.identity
        /\ new.allocated = Allocated(row.identity, outcome)
        /\ new.position = IF outcome = "effective" THEN Len(groups) + 1 ELSE 0
    BY <2>1 DEF RowFields
  <2> HIDE DEF new
  <2>3. QED
    BY <1>2, <1>3, <2>2 DEF Final, IsRow
<1>5. QED
  BY <1>2, <1>4

\* An execution allocates for creations only: the identity supplied, or the
\* position of its group.
LEMMA AllocatedHolds ==
  ASSUME NEW key, NEW row, NEW outcome, Finishes(key, row, outcome), RowInv
  PROVE  /\ Len(groups) \in Nat
         /\ Allocated(row.identity, outcome) \in Uris \cup {Len(groups) + 1, None}
         /\ Len(groups') \in Len(groups)..(Len(groups) + 1)
         /\ outcome = "effective" <=> Len(groups') = Len(groups) + 1
         /\ groups' \in Seq(Calls \cup (Attempts \X Nat))
<1>1. Len(groups) \in Nat /\ groups \in Seq(Calls \cup (Attempts \X Nat))
  BY DEF RowInv, RowShapes
<1>2. row.transaction \in Calls \cup (Attempts \X Nat)
  BY DEF Finishes
<1>3. groups' = IF outcome = "effective" THEN Append(groups, row.transaction) ELSE groups
  BY DEF Finishes, Finish
<1>4. row.identity.op = row.request.op /\ row.identity.id = row.request.id /\ WellFormed(row.request)
  BY DEF Finishes, RowFits, Request
<1>5. Allocated(row.identity, outcome) \in Uris \cup {Len(groups) + 1, None}
  BY <1>4 DEF Allocated, WellFormed, Creates
<1>6. QED
  BY <1>1, <1>2, <1>3, <1>5

LEMMA FinishRows ==
  ASSUME RowInv, NEW key, NEW row, NEW outcome, Finishes(key, row, outcome)
  PROVE  RowInv' /\ DecidedStays
<1> DEFINE r == row.identity
           allocated == Allocated(r, outcome)
<1>1. /\ DOMAIN receipts' = DOMAIN receipts \cup {key}
      /\ receipts' = [k \in DOMAIN receipts' |-> receipts'[k]]
      /\ \A k \in DOMAIN receipts \ {key} : receipts'[k] = receipts[k]
      /\ Final(key, row, outcome)
  BY FinishRow
<1>2. /\ Len(groups) \in Nat /\ allocated \in Uris \cup {Len(groups) + 1, None}
      /\ Len(groups') \in Len(groups)..(Len(groups) + 1)
      /\ outcome = "effective" <=> Len(groups') = Len(groups) + 1
      /\ groups' \in Seq(Calls \cup (Attempts \X Nat))
  BY AllocatedHolds
<1>3. allocated # None => outcome = "effective"
  BY DEF Allocated
<1>4. allocated \in Uris \cup 1..Len(groups') \cup {None}
  <2> HIDE DEF allocated
  <2> QED
    BY <1>2, <1>3
<1>5. /\ outcome \in {"failed", "noop", "effective"} /\ outcome \in Outcomes(r)
      /\ identities' = IF allocated = None THEN identities ELSE identities \cup {allocated}
      /\ generation' = generation
      /\ aliases' =
           CASE outcome # "failed" /\ r.op = "putAlias" -> Put(aliases, r.id, r.refs["target"].at)
             [] outcome # "failed" /\ r.op = "deleteAlias" ->
                  Restrict(aliases, DOMAIN aliases \ {r.id})
             [] OTHER -> aliases
  BY DEF Finishes, Finish
<1>6. /\ WellFormed(row.request) /\ RowFits(row) /\ key \in Keys
      /\ r.op = row.request.op /\ r.id = row.request.id /\ DOMAIN r.refs = DOMAIN row.request.refs
  BY DEF Finishes, RowFits, Request
<1>7. outcome # "failed" => \A f \in DOMAIN r.refs : r.refs[f].at \in identities
  BY <1>5 DEF Outcomes
<1>8. /\ DOMAIN aliases' \subseteq Locators /\ Range(aliases') \subseteq identities
      /\ aliases' = [l \in DOMAIN aliases' |-> aliases'[l]]
  <2> HIDE DEF allocated, r
  <2>1. /\ DOMAIN aliases \subseteq Locators /\ Range(aliases) \subseteq identities
        /\ aliases = [l \in DOMAIN aliases |-> aliases[l]]
    BY DEF RowInv, RowShapes, RowTypes
  <2>2. CASE outcome # "failed" /\ r.op = "putAlias"
    <3>1. aliases' = Put(aliases, r.id, r.refs["target"].at)
      BY <1>5, <2>2
    <3>2. r.id \in Locators /\ r.refs["target"].at \in identities
      BY <1>6, <1>7, <2>2 DEF WellFormed
    <3>3. QED
      BY <2>1, <3>1, <3>2 DEF Range, Put
  <2>3. CASE outcome # "failed" /\ r.op = "deleteAlias"
    BY <1>5, <2>1, <2>3 DEF Restrict, Range
  <2>4. CASE outcome = "failed" \/ r.op \notin {"putAlias", "deleteAlias"}
    BY <1>5, <2>1, <2>4
  <2>5. QED
    BY <2>2, <2>3, <2>4
<1> HIDE DEF allocated, r
<1>9. identities \subseteq identities' /\ identities' \subseteq Uris \cup 1..Len(groups')
  BY <1>2, <1>4, <1>5 DEF RowInv, RowTypes
<1>10. RowFits(receipts'[key])
  BY <1>1, <1>6, ClaimantsAssumption DEF Final, RowFits
<1>11. RowShapes'
  BY <1>1, <1>2, <1>8, <1>10 DEF RowInv, RowShapes
<1>12. ASSUME NEW k \in DOMAIN receipts'
       PROVE  /\ k \in Keys /\ receipts'[k].state \in States
              /\ receipts'[k].state = "pending" <=> receipts'[k].owner # None
              /\ receipts'[k].allocated \in Uris \cup 1..Len(groups') \cup {None}
              /\ receipts'[k].position \in 0..Len(groups')
  <2>1. CASE k = key
    BY <2>1, <1>1, <1>2, <1>4, <1>6 DEF Final, States, allocated, r
  <2>2. CASE k # key
    BY <2>2, <1>1, <1>2 DEF RowInv, RowTypes
  <2>3. QED
    BY <2>1, <2>2
<1>13. RowTypes'
  BY <1>5, <1>8, <1>9, <1>12 DEF RowInv, RowTypes
<1>14. ASSUME NEW k \in DOMAIN receipts, receipts[k].state \in {"completed", "expired"}
       PROVE  /\ k \in DOMAIN receipts' /\ receipts'[k].state \in {"completed", "expired"}
              /\ receipts'[k] = [receipts[k] EXCEPT !.state = receipts'[k].state]
  <2>1. k # key
    BY <1>14 DEF Finishes, Pending, RowInv, RowTypes
  <2>2. QED
    BY <1>1, <1>14, <2>1 DEF RowInv, RowShapes, RowFits, IsRow, RowFields
<1>15. QED
  BY <1>11, <1>13, <1>14 DEF RowInv, DecidedStays

-----------------------------------------------------------------------------
(* Which kind of step each action is. *)

LEMMA ProgramHolds ==
  ASSUME NEW p \in Programs
  PROVE  /\ Len(p) \in Nat \ {0} /\ DOMAIN p = 1..Len(p)
         /\ \A i \in 1..Len(p) :
              /\ p[i].key \in Keys /\ WellFormed(p[i].request)
              /\ \A j \in CreatorsOf(p[i].request) : j \in 1..(i - 1) /\ Creates(p[j].request)
              /\ \A j \in 1..Len(p) : p[j].key = p[i].key => j = i
<1>1. p # <<>> /\ p \in Seq({p[i] : i \in 1..Len(p)})
  BY SubmissionsAssumption
<1>2. Len(p) \in Nat \ {0} /\ DOMAIN p = 1..Len(p)
  BY <1>1
<1>3. QED
  BY <1>2, SubmissionsAssumption

LEMMA PresentRows ==
  ASSUME NEW c \in Calls, NEW key \in Keys, NEW r, WellFormed(r), Direct(r),
         RowInv, Submit(c) \/ Poll(c), Present(c, key, r),
         UNCHANGED <<groups, identities, aliases, generation>>
  PROVE  ReserveStep \/ KeepStep
<1>1. CASE /\ key \notin DOMAIN receipts
           /\ receipts' = Put(receipts, key, NewRow(r, <<>>, c, None))
  <2>1. /\ DOMAIN receipts' = DOMAIN receipts \cup {key}
        /\ receipts'[key] = NewRow(r, <<>>, c, None)
        /\ \A k \in DOMAIN receipts : receipts'[k] = receipts[k]
        /\ receipts' = [k \in DOMAIN receipts' |-> receipts'[k]]
    BY <1>1 DEF Put
  <2>2. Reserves(key)
    BY <2>1, DirectHolds DEF Reserves
  <2>3. QED
    BY <2>1, <2>2 DEF ReserveStep
<1>2. CASE UNCHANGED receipts
  BY <1>2 DEF KeepStep
<1>3. QED
  BY <1>1, <1>2 DEF Present

\* An admitted sequence is at its first member, and has reserved every key that
\* was unknown for the member with that key.
AdmittedAs(a, p) ==
  LET t == attempts'[a] IN
  /\ t.phase = "active" /\ t.program = p /\ t.next = 1
  /\ t.owned = {i \in 1..Len(p) : p[i].key \notin DOMAIN receipts}
  /\ \A b \in Attempts \ {a} : attempts'[b] = attempts[b]
  /\ DOMAIN receipts' = DOMAIN receipts \cup {p[i].key : i \in t.owned}
  /\ \A k \in DOMAIN receipts : receipts'[k] = receipts[k]
  /\ receipts' = [k \in DOMAIN receipts' |-> receipts'[k]]
  /\ \A i \in t.owned : receipts'[p[i].key] =
       NewRow(p[i].request, Supplied(p), MemberClaim(a, i),
              IF Deferred(p[i].request) THEN a ELSE None)
  /\ facts' = [f \in DOMAIN facts \cup ({a} \X CreatingMembers(p)) |->
       IF f[1] = a THEN None ELSE facts[f]]

LEMMA AdmitHolds ==
  ASSUME NEW a \in Attempts, CallerShapes, AdmitSequence(a)
  PROVE  \E p \in Programs : AdmittedAs(a, p)
<1>1. PICK p \in Programs :
       LET unknown == {i \in 1..Len(p) : p[i].key \notin DOMAIN receipts}
           Reserved(i) ==
             NewRow(p[i].request, Supplied(p), MemberClaim(a, i),
                    IF Deferred(p[i].request) THEN a ELSE None)
           member == [k \in {p[i].key : i \in unknown} |->
                        CHOOSE i \in unknown : p[i].key = k] IN
       /\ receipts' = [k \in DOMAIN receipts \cup DOMAIN member |->
            IF k \in DOMAIN member THEN Reserved(member[k]) ELSE receipts[k]]
       /\ facts' = [f \in DOMAIN facts \cup ({a} \X CreatingMembers(p)) |->
            IF f[1] = a THEN None ELSE facts[f]]
       /\ attempts' = [attempts EXCEPT ![a] =
            [phase |-> "active", program |-> p, owned |-> unknown, next |-> 1]]
  BY DEF AdmitSequence
<1> DEFINE unknown == {i \in 1..Len(p) : p[i].key \notin DOMAIN receipts}
           Reserved(i) ==
             NewRow(p[i].request, Supplied(p), MemberClaim(a, i),
                    IF Deferred(p[i].request) THEN a ELSE None)
           fresh == {p[i].key : i \in unknown}
           member == [k \in fresh |-> CHOOSE i \in unknown : p[i].key = k]
<1>2. \A k \in fresh : member[k] \in unknown /\ p[member[k]].key = k
  OBVIOUS
<1>3. /\ DOMAIN receipts' = DOMAIN receipts \cup fresh
      /\ \A k \in fresh : receipts'[k] = Reserved(member[k]) /\ k \notin DOMAIN receipts
      /\ \A k \in DOMAIN receipts : receipts'[k] = receipts[k]
      /\ receipts' = [k \in DOMAIN receipts' |-> receipts'[k]]
  <2> HIDE DEF Reserved
  <2>1. receipts' = [k \in DOMAIN receipts \cup fresh |->
            IF k \in fresh THEN Reserved(member[k]) ELSE receipts[k]]
    BY <1>1 DEF Reserved
  <2>2. \A k \in fresh : k \notin DOMAIN receipts
    OBVIOUS
  <2> HIDE DEF member, fresh
  <2>3. QED
    BY <2>1, <2>2
<1>4. /\ attempts'[a] = [phase |-> "active", program |-> p, owned |-> unknown, next |-> 1]
      /\ \A b \in Attempts \ {a} : attempts'[b] = attempts[b]
  BY <1>1 DEF CallerShapes
<1>5. ASSUME NEW i \in unknown PROVE receipts'[p[i].key] = Reserved(i)
  <2>1. member[p[i].key] \in 1..Len(p) /\ p[member[p[i].key]].key = p[i].key
    BY <1>2
  <2>2. member[p[i].key] = i
    BY <2>1, ProgramHolds
  <2>3. p[i].key \in fresh
    OBVIOUS
  <2> HIDE DEF member, fresh, Reserved
  <2>4. QED
    BY <1>3, <2>2, <2>3
<1>6. facts' = [f \in DOMAIN facts \cup ({a} \X CreatingMembers(p)) |->
            IF f[1] = a THEN None ELSE facts[f]]
  BY <1>1
<1> HIDE DEF unknown, member
<1>7. AdmittedAs(a, p)
  BY <1>3, <1>4, <1>5, <1>6 DEF AdmittedAs, unknown
<1>8. QED
  BY <1>7

LEMMA AdmitRows ==
  ASSUME NEW a \in Attempts, IInv, AdmitSequence(a)
  PROVE  ReserveStep
<1>1. PICK p \in Programs : AdmittedAs(a, p)
  BY AdmitHolds DEF IInv
<1>2. ASSUME NEW i \in attempts'[a].owned PROVE Reserves(p[i].key)
  <2>1. i \in 1..Len(p) /\ p[i].key \in Keys /\ WellFormed(p[i].request)
    BY <1>1, <1>2, ProgramHolds DEF AdmittedAs
  <2>2. /\ receipts'[p[i].key] = NewRow(p[i].request, Supplied(p), MemberClaim(a, i),
                                        IF Deferred(p[i].request) THEN a ELSE None)
        /\ attempts'[a].program = p /\ attempts'[a].phase = "active"
    BY <1>1, <1>2 DEF AdmittedAs
  <2>3. QED
    BY <2>1, <2>2 DEF Reserves
<1>3. /\ receipts' = [k \in DOMAIN receipts' |-> receipts'[k]]
      /\ DOMAIN receipts' = DOMAIN receipts \cup {p[i].key : i \in attempts'[a].owned}
      /\ \A k \in DOMAIN receipts : receipts'[k] = receipts[k]
  BY <1>1 DEF AdmittedAs
<1>4. ASSUME NEW k \in DOMAIN receipts', k \notin DOMAIN receipts PROVE Reserves(k)
  BY <1>2, <1>3, <1>4
<1>5. UNCHANGED <<groups, identities, aliases, generation>>
  BY DEF AdmitSequence
<1>6. QED
  BY <1>3, <1>4, <1>5 DEF ReserveStep

\* A call holds a receipt that is a call's.
LEMMA OwnedCall ==
  ASSUME NEW c \in Calls, IInv, mode = "open", calls[c].phase = "owned"
  PROVE  LET row == receipts[calls[c].key] IN
         /\ calls[c].key \in DOMAIN receipts /\ Pending(calls[c].key) /\ calls[c].key \in Keys
         /\ RowFits(row) /\ row.owner = c /\ row.transaction = c /\ row.attempt = None
<1> DEFINE key == calls[c].key
<1>1. Pending(key) /\ receipts[key].owner = c
  BY DEF IInv, ClaimsMatchReceipts
<1>2. key \in DOMAIN receipts
  BY <1>1 DEF Pending
<1>3. RowFits(receipts[key]) /\ key \in Keys
  BY <1>2 DEF IInv, RowShapes, TypeOK
<1>4. receipts[key].transaction = c
  BY <1>1, <1>3, ClaimantsAssumption DEF RowFits
<1>5. receipts[key].attempt = None
  <2>1. SUFFICES ASSUME Unresolved(receipts[key]) PROVE FALSE
    BY DEF Unresolved
  <2>2. PICK a \in Attempts : \E i \in attempts[a].owned :
           receipts[key].owner = MemberClaim(a, i) /\ Active(a)
    BY <1>2, <2>1 DEF IInv, UnresolvedHasTurn
  <2>3. attempts[a].owned \subseteq Nat
    BY <2>2, ProgramHolds DEF IInv, CallerShapes, AttemptFits, Active
  <2>4. QED
    BY <1>1, <2>2, <2>3, ClaimantsAssumption DEF MemberClaim
<1>6. QED
  BY <1>1, <1>2, <1>3, <1>4, <1>5

LEMMA ExecuteRows ==
  ASSUME NEW c \in Calls, IInv, Execute(c)
  PROVE  FinishStep
<1>1. mode = "open" /\ calls[c].phase = "owned"
  BY DEF Execute
<1>2. PICK outcome \in {"failed", "noop", "effective"} : Finish(calls[c].key, receipts[calls[c].key], outcome)
  BY DEF Execute
<1>3. Finishes(calls[c].key, receipts[calls[c].key], outcome)
  BY <1>1, <1>2, OwnedCall DEF Finishes
<1>4. QED
  BY <1>3 DEF FinishStep, ExecutesCall

\* The running sequences, and the member whose turn it is.
LEMMA ActiveHolds ==
  ASSUME NEW a \in Attempts, CallerShapes, Active(a)
  PROVE  /\ attempts[a].program \in Programs
         /\ attempts[a].next \in 1..Len(attempts[a].program)
         /\ attempts[a].owned \subseteq 1..Len(attempts[a].program)
         /\ Member(a) = attempts[a].program[attempts[a].next]
         /\ Member(a).key \in Keys /\ WellFormed(Member(a).request)
         /\ Len(attempts[a].program) \in Nat \ {0}
<1>1. AttemptFits(attempts[a]) /\ attempts[a].phase = "active"
  BY DEF CallerShapes, Active
<1>2. /\ attempts[a].program \in Programs
      /\ attempts[a].next \in 1..Len(attempts[a].program)
      /\ attempts[a].owned \subseteq 1..Len(attempts[a].program)
  BY <1>1 DEF AttemptFits
<1>3. QED
  BY <1>2, ProgramHolds DEF Member

LEMMA OwnedMember ==
  ASSUME NEW a \in Attempts, IInv, mode = "open", Active(a), Owns(a)
  PROVE  /\ Pending(Member(a).key) /\ Member(a).key \in DOMAIN receipts
         /\ receipts[Member(a).key].owner = MemberClaim(a, attempts[a].next)
BY ActiveHolds DEF IInv, ClaimsMatchReceipts, Owns, Pending

LEMMA RequestParts ==
  ASSUME NEW op, NEW id, NEW refs
  PROVE  /\ Request(op, id, refs).op = op /\ Request(op, id, refs).id = id
         /\ Request(op, id, refs).refs = refs
         /\ DOMAIN Request(op, id, refs) = {"op", "id", "refs"}
BY DEF Request

\* Requests differ from each other in their references only.
LEMMA OtherRefs ==
  ASSUME NEW r, r = Request(r.op, r.id, r.refs), NEW refs
  PROVE  [r EXCEPT !.refs = refs] = Request(r.op, r.id, refs)
<1>1. PICK op, id, was : r = [op |-> op, id |-> id, refs |-> was]
  BY DEF Request
<1>2. QED
  BY <1>1 DEF Request

LEMMA TurnRowHolds ==
  ASSUME NEW a \in Attempts, CallerShapes, Active(a)
  PROVE  LET row == TurnRow(a)
             r == Member(a).request IN
         /\ RowFits(row) /\ row.request = r /\ row.attempt = None
         /\ row.owner = MemberClaim(a, attempts[a].next)
         /\ row.transaction = MemberClaim(a, attempts[a].next)
         /\ row.transaction \in Attempts \X Nat
         /\ \A f \in DOMAIN r.refs : row.identity.refs[f] =
              Lookup(IF r.refs[f].kind = "creator" THEN facts[<<a, r.refs[f].at>>] ELSE r.refs[f],
                     NoWitnesses)
<1> DEFINE r == Member(a).request
           bound == Bind(r, a)
           claim == MemberClaim(a, attempts[a].next)
           plain == NewRow(bound, <<>>, claim, None)
<1>1. WellFormed(r) /\ claim \in Attempts \X Nat
  BY ActiveHolds DEF MemberClaim
<1>2. /\ bound = Request(r.op, r.id, bound.refs)
      /\ bound.refs = [f \in DOMAIN r.refs |->
           IF r.refs[f].kind = "creator" THEN facts[<<a, r.refs[f].at>>] ELSE r.refs[f]]
  <2> DEFINE refs == [f \in DOMAIN r.refs |->
           IF r.refs[f].kind = "creator" THEN facts[<<a, r.refs[f].at>>] ELSE r.refs[f]]
  <2>1. bound = [r EXCEPT !.refs = refs]
    BY DEF Bind
  <2> HIDE DEF refs, bound, r
  <2>2. bound = Request(r.op, r.id, refs)
    BY <1>1, <2>1, OtherRefs DEF WellFormed
  <2>3. QED
    BY <2>2, RequestParts DEF refs
<1>3. WellFormed(bound)
  <2> HIDE DEF bound, r
  <2>1. bound.op = r.op /\ bound.id = r.id
    BY <1>2, RequestParts
  <2>2. /\ bound.refs = [f \in DOMAIN bound.refs |-> bound.refs[f]]
        /\ DOMAIN bound.refs = DOMAIN r.refs
    BY <1>2
  <2>3. bound = Request(bound.op, bound.id, bound.refs)
    BY <1>2, <2>1
  <2>4. QED
    BY <1>1, <2>1, <2>2, <2>3 DEF WellFormed, Creates
<1> HIDE DEF bound
<1>4. /\ RowFits(plain) /\ plain.owner = claim /\ plain.transaction = claim /\ plain.attempt = None
      /\ plain.identity = Normalize(bound, NoWitnesses) /\ plain.request = bound
  BY <1>1, <1>3, ReservedRow DEF NewRow
<1>5. /\ plain.identity = Request(r.op, r.id, plain.identity.refs)
      /\ plain.identity.refs = [f \in DOMAIN r.refs |-> Lookup(bound.refs[f], NoWitnesses)]
  <2> DEFINE refs == [f \in DOMAIN bound.refs |-> Lookup(bound.refs[f], NoWitnesses)]
  <2> HIDE DEF plain, r
  <2>1. plain.identity = [bound EXCEPT !.refs = refs]
    BY <1>4 DEF Normalize
  <2> HIDE DEF refs
  <2>2. bound.op = r.op /\ bound.id = r.id
    BY <1>2, RequestParts
  <2>3. plain.identity = Request(r.op, r.id, refs)
    BY <1>2, <2>1, <2>2, OtherRefs
  <2>4. plain.identity.refs = refs
    BY <2>3, RequestParts
  <2>5. refs = [f \in DOMAIN r.refs |-> Lookup(bound.refs[f], NoWitnesses)]
    BY <1>2 DEF refs
  <2>6. QED
    BY <2>3, <2>4, <2>5
<1> HIDE DEF plain
<1>6. TurnRow(a) = [plain EXCEPT !.request = r]
  BY DEF TurnRow, plain, bound
<1>7. /\ IsRow(TurnRow(a)) /\ TurnRow(a).request = r /\ TurnRow(a).attempt = None
      /\ TurnRow(a).owner = claim /\ TurnRow(a).transaction = claim
      /\ TurnRow(a).identity = plain.identity
  BY <1>4, <1>6 DEF RowFits, IsRow, RowFields
<1>8. RowFits(TurnRow(a))
  BY <1>1, <1>5, <1>7 DEF RowFits
<1>9. ASSUME NEW f \in DOMAIN r.refs
      PROVE  TurnRow(a).identity.refs[f] =
               Lookup(IF r.refs[f].kind = "creator" THEN facts[<<a, r.refs[f].at>>] ELSE r.refs[f],
                      NoWitnesses)
  <2>1. TurnRow(a).identity.refs[f] = Lookup(bound.refs[f], NoWitnesses)
    BY <1>5, <1>7
  <2>2. bound.refs[f] =
          IF r.refs[f].kind = "creator" THEN facts[<<a, r.refs[f].at>>] ELSE r.refs[f]
    BY <1>2
  <2>3. QED
    BY <2>1, <2>2
<1>10. QED
  BY <1>1, <1>7, <1>8, <1>9

\* A sequence that ran keeps its program.
ProgramsStay ==
  \A a \in Attempts : attempts[a].phase # "new" =>
    attempts'[a].phase # "new" /\ attempts'[a].program = attempts[a].program

Done(a) == attempts[a].next = Len(attempts[a].program)

LEMMA EndTurnHolds ==
  ASSUME NEW a \in Attempts, NEW fact, CallerShapes, Active(a), EndTurn(a, fact)
  PROVE  /\ attempts' = [b \in Attempts |-> attempts'[b]]
         /\ \A b \in Attempts \ {a} : attempts'[b] = attempts[b]
         /\ attempts'[a].program = attempts[a].program
         /\ attempts'[a].owned = attempts[a].owned
         /\ attempts'[a].next = attempts[a].next + 1
         /\ attempts'[a].phase = IF Done(a) THEN "done" ELSE "active"
         /\ \A b \in Attempts : AttemptFits(attempts'[b])
         /\ ProgramsStay
<1>1. /\ attempts' = [attempts EXCEPT ![a].next = attempts[a].next + 1,
                                     ![a].phase = IF Done(a) THEN "done" ELSE "active"]
  BY DEF EndTurn, Done
<1>2. /\ attempts = [b \in Attempts |-> attempts[b]]
      /\ \A b \in Attempts : AttemptFits(attempts[b])
  BY DEF CallerShapes
<1>3. DOMAIN attempts[a] = {"phase", "program", "owned", "next"}
  BY <1>2 DEF AttemptFits
<1>4. /\ attempts' = [b \in Attempts |-> attempts'[b]]
      /\ \A b \in Attempts \ {a} : attempts'[b] = attempts[b]
      /\ attempts'[a] = [phase |-> attempts'[a].phase, program |-> attempts'[a].program,
                         owned |-> attempts'[a].owned, next |-> attempts'[a].next]
      /\ attempts'[a].program = attempts[a].program
      /\ attempts'[a].owned = attempts[a].owned
      /\ attempts'[a].next = attempts[a].next + 1
      /\ attempts'[a].phase = IF Done(a) THEN "done" ELSE "active"
  BY <1>1, <1>2, <1>3
<1>5. attempts[a].next \in 1..Len(attempts[a].program) /\ Len(attempts[a].program) \in Nat
  BY ActiveHolds
<1>6. AttemptFits(attempts'[a])
  <2>1. AttemptFits(attempts[a]) /\ attempts[a].phase # "new"
    BY <1>2 DEF Active
  <2>2. attempts'[a].phase = "active" => attempts'[a].next \in 1..Len(attempts'[a].program)
    BY <1>4, <1>5 DEF Done
  <2>3. QED
    BY <1>4, <2>1, <2>2 DEF AttemptFits
<1>7. ProgramsStay
  BY <1>4 DEF ProgramsStay
<1>8. QED
  BY <1>2, <1>4, <1>6, <1>7

LEMMA ExecutedRows ==
  ASSUME NEW a \in Attempts, IInv, mode = "open", Active(a), ExecutedTurn(a)
  PROVE  \E outcome : Finishes(Member(a).key, TurnRow(a), outcome)
<1>1. PICK outcome \in {"failed", "noop", "effective"} : Finish(Member(a).key, TurnRow(a), outcome)
  BY DEF ExecutedTurn, TurnRow
<1>2. Member(a).key \in DOMAIN receipts => Pending(Member(a).key)
  BY DEF ExecutedTurn
<1>3. Member(a).key \in Keys /\ CallerShapes
  BY ActiveHolds DEF IInv
<1> HIDE DEF TurnRow
<1>4. QED
  BY <1>1, <1>2, <1>3, TurnRowHolds DEF Finishes

LEMMA DropRow ==
  ASSUME NEW K, receipts' = Dropped(K), \A k \in K \cap DOMAIN receipts : Pending(k),
         UNCHANGED <<groups, identities, aliases, generation>>
  PROVE  DropStep
BY DEF DropStep

LEMMA TurnRows ==
  ASSUME NEW a \in Attempts, IInv, Turn(a)
  PROVE  KeepStep \/ DropStep \/ FinishStep
<1>1. mode = "open" /\ Active(a)
  BY DEF Turn
<1>2. CASE TransientTurn(a)
  <2>1. CASE Owns(a)
    <3>1. receipts' = Dropped({Member(a).key}) /\ Pending(Member(a).key)
      BY <1>1, <1>2, <2>1, OwnedMember DEF TransientTurn
    <3>2. QED
      BY <1>2, <3>1, DropRow DEF TransientTurn
  <2>2. CASE ~Owns(a)
    BY <1>2, <2>2 DEF TransientTurn, KeepStep
  <2>3. QED
    BY <2>1, <2>2
<1>3. CASE AnsweredTurn(a)
  BY <1>3 DEF AnsweredTurn, KeepStep
<1>4. CASE ExecutedTurn(a)
  BY <1>1, <1>4, ExecutedRows DEF FinishStep, ExecutesTurn
<1>5. QED
  BY <1>2, <1>3, <1>4 DEF Turn

LEMMA StepRows ==
  ASSUME IInv, [Next]_vars
  PROVE  KeepStep \/ PublishStep \/ DropStep \/ SweepStep \/ ReserveStep \/ FinishStep
<1>1. ASSUME NEW c \in Calls, Submit(c) PROVE ReserveStep \/ KeepStep
  <2>1. PICK s \in Submissions : Present(c, s.key, s.request)
    BY <1>1 DEF Submit
  <2>2. s.key \in Keys /\ WellFormed(s.request) /\ Direct(s.request)
    BY SubmissionsAssumption
  <2>3. QED
    BY <1>1, <2>1, <2>2, PresentRows DEF Submit, IInv, RowInv, RowTypes, TypeOK
<1>2. ASSUME NEW c \in Calls, Poll(c) PROVE ReserveStep \/ KeepStep
  <2>1. CASE Present(c, calls[c].key, calls[c].request)
    <3>1. CallFits(calls[c]) /\ calls[c].phase = "comparing"
      BY <1>2 DEF IInv, CallerShapes, Poll
    <3>2. QED
      BY <1>2, <2>1, <3>1, PresentRows DEF Poll, IInv, RowInv, RowTypes, TypeOK, CallFits
  <2>2. CASE UNCHANGED receipts
    BY <1>2, <2>2 DEF Poll, KeepStep
  <2>3. QED
    BY <1>2, <2>1, <2>2 DEF Poll
<1>3. ASSUME NEW c \in Calls, FailExecution(c) PROVE DropStep
  BY <1>3, OwnedCall, DropRow DEF FailExecution
<1>4. ASSUME NEW a \in Attempts, Cancel(a) PROVE DropStep
  <2> DEFINE K == {k \in DOMAIN receipts :
       \E i \in attempts[a].owned : receipts[k].owner = MemberClaim(a, i)}
  <2>1. attempts[a].owned \subseteq Nat
    BY <1>4, ActiveHolds DEF Cancel, IInv
  <2>2. \A k \in K : Pending(k)
    BY <2>1, ClaimantsAssumption DEF MemberClaim, Pending
  <2>3. receipts' = Dropped(K)
    BY <1>4 DEF Cancel
  <2> HIDE DEF K
  <2>4. QED
    BY <1>4, <2>2, <2>3, DropRow DEF Cancel
<1>5. CASE Open
  <2> DEFINE K == {k \in DOMAIN receipts : Pending(k)}
  <2>1. receipts' = Dropped(K) /\ \A k \in K : Pending(k)
    BY <1>5 DEF Open
  <2> HIDE DEF K
  <2>2. QED
    BY <1>5, <2>1, DropRow DEF Open
<1>6. CASE Sweep
  <2>1. PICK K \in SUBSET {k \in DOMAIN receipts : receipts[k].state \in {"completed", "failed"}} :
       LET forgotten == {k \in K : receipts[k].state = "failed"} IN
       receipts' = [k \in DOMAIN receipts \ forgotten |->
            IF k \in K THEN [receipts[k] EXCEPT !.state = "expired"] ELSE receipts[k]]
    BY <1>6 DEF Sweep
  <2>2. QED
    BY <1>6, <2>1 DEF Sweep, SweepStep
<1>7. ASSUME NEW c \in Calls, Deadline(c) PROVE KeepStep
  BY <1>7 DEF Deadline, KeepStep, durable
<1>8. CASE Pause \/ Resume \/ Stop \/ UNCHANGED vars
  BY <1>8 DEF Pause, Resume, Stop, vars, durable, KeepStep
<1>9. CASE Publish
  BY <1>9 DEF Publish, PublishStep
<1>10. QED
  BY <1>1, <1>2, <1>3, <1>4, <1>5, <1>6, <1>7, <1>8, <1>9, AdmitRows, ExecuteRows, TurnRows DEF Next

LEMMA RowsHold == ASSUME IInv, [Next]_vars PROVE RowInv' /\ DecidedStays
<1>1. RowInv
  BY DEF IInv, RowInv, RowTypes, TypeOK
<1>2. CASE FinishStep
  BY <1>1, <1>2, FinishRows DEF FinishStep
<1>3. QED
  BY <1>1, <1>2, StepRows, KeepRows, DropRows, SweepRows, ReserveRows
-----------------------------------------------------------------------------
(* Calls and sequences. *)

\* What a step does to the sequences: one is admitted, ends a turn or is
\* cancelled, all end with their process, or none does.
LEMMA CallersHold == ASSUME IInv, [Next]_vars PROVE CallerShapes' /\ ProgramsStay
<1> USE DEF CallerShapes
<1>1. CallerShapes
  BY DEF IInv
<1>2. \A c \in Calls : CallFits(InPhase("done", None, None))
  BY DEF CallFits, InPhase
<1>3. ASSUME NEW c \in Calls, NEW key \in Keys, NEW r, WellFormed(r), Direct(r), Present(c, key, r)
      PROVE  /\ calls' = [d \in Calls |-> calls'[d]]
             /\ \A d \in Calls : CallFits(calls'[d])
  <2>1. /\ CallFits(InPhase("owned", key, r)) /\ CallFits(InPhase("comparing", key, r))
        /\ CallFits(Finished)
    BY <1>3 DEF CallFits, InPhase, Finished
  <2>2. PICK new : CallFits(new) /\ calls' = [calls EXCEPT ![c] = new]
    BY <1>3, <2>1 DEF Present
  <2>3. QED
    BY <1>1, <2>2
<1>4. ASSUME UNCHANGED attempts PROVE /\ attempts' = [a \in Attempts |-> attempts'[a]]
                                      /\ \A a \in Attempts : AttemptFits(attempts'[a])
                                      /\ ProgramsStay
  BY <1>1, <1>4 DEF ProgramsStay
<1>5. ASSUME UNCHANGED calls PROVE /\ calls' = [c \in Calls |-> calls'[c]]
                                   /\ \A c \in Calls : CallFits(calls'[c])
  BY <1>1, <1>5
<1>6. ASSUME NEW c \in Calls, calls' = [calls EXCEPT ![c] = Finished]
      PROVE  /\ calls' = [d \in Calls |-> calls'[d]]
             /\ \A d \in Calls : CallFits(calls'[d])
  BY <1>1, <1>2, <1>6 DEF Finished
<1>7. ASSUME NEW c \in Calls, Submit(c) PROVE CallerShapes' /\ ProgramsStay
  <2>1. PICK s \in Submissions : Present(c, s.key, s.request)
    BY <1>7 DEF Submit
  <2>2. s.key \in Keys /\ WellFormed(s.request) /\ Direct(s.request)
    BY SubmissionsAssumption
  <2>3. QED
    BY <1>1, <1>3, <1>4, <1>7, <2>1, <2>2 DEF Submit
<1>8. ASSUME NEW c \in Calls, Poll(c) PROVE CallerShapes' /\ ProgramsStay
  <2>1. CallFits(calls[c]) /\ calls[c].phase = "comparing"
    BY <1>1, <1>8 DEF Poll
  <2>2. UNCHANGED <<facts, attempts>>
    BY <1>8 DEF Poll
  <2>3. CASE Present(c, calls[c].key, calls[c].request)
    BY <1>1, <1>3, <1>4, <2>1, <2>2, <2>3 DEF CallFits
  <2>4. CASE calls' = [calls EXCEPT ![c] = Finished]
    BY <1>1, <1>4, <1>6, <2>2, <2>4
  <2>5. QED
    BY <1>8, <2>3, <2>4 DEF Poll
<1>9. ASSUME NEW c \in Calls, Deadline(c) \/ Execute(c) \/ FailExecution(c)
      PROVE  CallerShapes' /\ ProgramsStay
  <2>1. calls' = [calls EXCEPT ![c] = Finished] /\ UNCHANGED <<facts, attempts>>
    BY <1>9 DEF Deadline, Execute, FailExecution, durable
  <2>2. QED
    BY <1>1, <1>4, <1>6, <2>1
<1>10. ASSUME NEW a \in Attempts, AdmitSequence(a) PROVE CallerShapes' /\ ProgramsStay
  <2>1. PICK p \in Programs :
          LET unknown == {i \in 1..Len(p) : p[i].key \notin DOMAIN receipts} IN
          /\ facts' = [f \in DOMAIN facts \cup ({a} \X CreatingMembers(p)) |->
               IF f[1] = a THEN None ELSE facts[f]]
          /\ attempts' = [attempts EXCEPT ![a] =
               [phase |-> "active", program |-> p, owned |-> unknown, next |-> 1]]
    BY <1>10 DEF AdmitSequence
  <2>2. attempts[a].phase = "new" /\ UNCHANGED calls
    BY <1>10 DEF AdmitSequence
  <2>3. Len(p) \in Nat \ {0}
    BY ProgramHolds
  <2> DEFINE t == [phase |-> "active", program |-> p,
                   owned |-> {i \in 1..Len(p) : p[i].key \notin DOMAIN receipts}, next |-> 1]
  <2>4. AttemptFits(t)
    BY <2>3 DEF AttemptFits
  <2>5. attempts' = [attempts EXCEPT ![a] = t]
    BY <2>1
  <2> HIDE DEF t
  <2>6. /\ attempts' = [b \in Attempts |-> attempts'[b]]
        /\ \A b \in Attempts : AttemptFits(attempts'[b])
        /\ ProgramsStay
    BY <1>1, <2>2, <2>4, <2>5 DEF ProgramsStay
  <2>7. facts' = [f \in DOMAIN facts' |-> facts'[f]]
    BY <2>1
  <2>8. QED
    BY <1>5, <2>2, <2>6, <2>7
<1>11. ASSUME NEW a \in Attempts, Turn(a) PROVE CallerShapes' /\ ProgramsStay
  <2>1. PICK fact : EndTurn(a, fact)
    BY <1>11 DEF Turn, TransientTurn, AnsweredTurn, ExecutedTurn
  <2>2. Active(a) /\ UNCHANGED calls
    BY <1>11 DEF Turn
  <2>3. facts' = [f \in DOMAIN facts' |-> facts'[f]]
    BY <1>1, <2>1 DEF EndTurn, Restrict
  <2>4. QED
    BY <1>1, <1>5, <2>1, <2>2, <2>3, EndTurnHolds
<1>12. ASSUME NEW a \in Attempts, Cancel(a) PROVE CallerShapes' /\ ProgramsStay
  <2>1. /\ attempts' = [attempts EXCEPT ![a].phase = "done"] /\ UNCHANGED calls
        /\ facts' = [f \in DOMAIN facts' |-> facts'[f]]
    BY <1>12 DEF Cancel, Restrict
  <2>2. Active(a) /\ AttemptFits(attempts[a])
    BY <1>1, <1>12 DEF Cancel
  <2>3. DOMAIN attempts[a] = {"phase", "program", "owned", "next"}
    BY <2>2 DEF AttemptFits
  <2>4. /\ attempts'[a] = [phase |-> "done", program |-> attempts[a].program,
                           owned |-> attempts[a].owned, next |-> attempts[a].next]
        /\ \A b \in Attempts \ {a} : attempts'[b] = attempts[b]
        /\ attempts' = [b \in Attempts |-> attempts'[b]]
    BY <1>1, <2>1, <2>3
  <2>5. AttemptFits(attempts'[a])
    BY <2>2, <2>4 DEF AttemptFits, Active
  <2>6. QED
    BY <1>1, <1>5, <2>1, <2>4, <2>5 DEF ProgramsStay
<1>13. CASE Open
  <2>1. /\ calls' = [c \in Calls |->
             IF calls[c].phase \in {"owned", "comparing"} THEN Finished ELSE calls[c]]
        /\ attempts' = [a \in Attempts |->
             IF Active(a) THEN [attempts[a] EXCEPT !.phase = "done"] ELSE attempts[a]]
        /\ facts' = [f \in DOMAIN facts' |-> facts'[f]]
    BY <1>13 DEF Open, Restrict
  <2>2. ASSUME NEW a \in Attempts
        PROVE /\ AttemptFits(attempts'[a])
              /\ attempts[a].phase # "new" =>
                   attempts'[a].phase # "new" /\ attempts'[a].program = attempts[a].program
    <3>1. AttemptFits(attempts[a])
      BY <1>1
    <3>2. DOMAIN attempts[a] = {"phase", "program", "owned", "next"}
      BY <3>1 DEF AttemptFits
    <3>3. CASE Active(a)
      <4>1. attempts'[a] = [phase |-> "done", program |-> attempts[a].program,
                            owned |-> attempts[a].owned, next |-> attempts[a].next]
        BY <2>1, <3>2, <3>3
      <4>2. QED
        BY <3>1, <3>3, <4>1 DEF AttemptFits, Active
    <3>4. CASE ~Active(a)
      BY <2>1, <3>1, <3>4
    <3>5. QED
      BY <3>3, <3>4
  <2>3. QED
    BY <1>1, <1>2, <2>1, <2>2 DEF ProgramsStay, Finished
<1>14. CASE Sweep \/ Pause \/ Publish \/ Resume \/ Stop \/ UNCHANGED vars
  BY <1>1, <1>4, <1>5, <1>14 DEF Sweep, Pause, Publish, Resume, Stop, vars, durable
<1>15. QED
  BY <1>7, <1>8, <1>9, <1>10, <1>11, <1>12, <1>13, <1>14 DEF Next

-----------------------------------------------------------------------------
(* Types, the unresolved receipts and what was published. *)

LEMMA TypeHolds == ASSUME IInv, [Next]_vars PROVE TypeOK'
<1>1. TypeOK
  BY DEF IInv
<1>2. RowTypes'
  BY RowsHold DEF RowInv
<1>3. mode' \in {"open", "stopped"}
  BY <1>1 DEF TypeOK, Next, vars, durable, Submit, Poll, Deadline, Execute, FailExecution, AdmitSequence,
     Turn, TransientTurn, AnsweredTurn, ExecutedTurn, Committed, Cancel, Sweep, Pause, Publish,
     Resume, Stop, Open
<1>4. pause' \in {"none", "draining", "broken"}
  BY <1>1 DEF TypeOK, Next, vars, durable, Submit, Poll, Deadline, Execute, FailExecution, AdmitSequence,
     Turn, Cancel, Sweep, Pause, Publish, Resume, Stop, Open, Reject
<1>5. DOMAIN facts' \subseteq Attempts \X Nat
  <2>1. DOMAIN facts \subseteq Attempts \X Nat
    BY <1>1 DEF TypeOK
  <2>2. ASSUME NEW a \in Attempts, AdmitSequence(a) PROVE DOMAIN facts' \subseteq Attempts \X Nat
    <3>1. PICK p \in Programs :
            facts' = [f \in DOMAIN facts \cup ({a} \X CreatingMembers(p)) |->
                        IF f[1] = a THEN None ELSE facts[f]]
      BY <2>2 DEF AdmitSequence
    <3>2. CreatingMembers(p) \subseteq Nat
      BY ProgramHolds DEF CreatingMembers
    <3>3. QED
      BY <2>1, <3>1, <3>2
  <2>3. ASSUME NEW a \in Attempts, Turn(a) PROVE DOMAIN facts' \subseteq DOMAIN facts
    <3>1. PICK fact : EndTurn(a, fact)
      BY <2>3 DEF Turn, TransientTurn, AnsweredTurn, ExecutedTurn
    <3>2. QED
      BY <3>1 DEF EndTurn, Restrict
  <2>4. ASSUME NEW a \in Attempts, Cancel(a) PROVE DOMAIN facts' \subseteq DOMAIN facts
    BY <2>4 DEF Cancel, Restrict
  <2>5. CASE Open
    BY <2>5 DEF Open, Restrict
  <2>6. QED
    BY <2>1, <2>2, <2>3, <2>4, <2>5 DEF Next, vars, durable, Submit, Poll, Deadline, Execute,
       FailExecution, Sweep, Pause, Publish, Resume, Stop
<1>6. QED
  BY <1>2, <1>3, <1>4, <1>5 DEF RowTypes, TypeOK

LEMMA SweptRow ==
  ASSUME IInv, SweepStep, NEW k \in DOMAIN receipts'
  PROVE  /\ k \in DOMAIN receipts
         /\ \/ receipts'[k] = receipts[k]
            \/ /\ receipts[k].state = "completed"
               /\ receipts'[k] = [receipts[k] EXCEPT !.state = "expired"]
               /\ receipts'[k].state = "expired" /\ receipts'[k].attempt = receipts[k].attempt
               /\ receipts'[k].owner = receipts[k].owner
               /\ receipts'[k].transaction = receipts[k].transaction
               /\ receipts'[k].request = receipts[k].request
               /\ receipts'[k].identity = receipts[k].identity
               /\ receipts'[k].allocated = receipts[k].allocated
               /\ receipts'[k].position = receipts[k].position
<1>1. PICK K \in SUBSET {j \in DOMAIN receipts : receipts[j].state \in {"completed", "failed"}} :
        receipts' = [j \in DOMAIN receipts \ {j \in K : receipts[j].state = "failed"} |->
            IF j \in K THEN [receipts[j] EXCEPT !.state = "expired"] ELSE receipts[j]]
  BY DEF SweepStep
<1>2. /\ k \in DOMAIN receipts
      /\ \/ receipts'[k] = receipts[k]
         \/ /\ receipts[k].state = "completed"
            /\ receipts'[k] = [receipts[k] EXCEPT !.state = "expired"]
  BY <1>1
<1>3. DOMAIN receipts[k] = RowFields
  BY <1>2 DEF IInv, RowShapes, RowFits, IsRow
<1>4. QED
  BY <1>2, <1>3 DEF RowFields

LEMMA RowHasTransactionHolds == ASSUME IInv, [Next]_vars PROVE RowHasTransaction'
<1> DEFINE Of(row, ts) ==
      \/ row.transaction \in Calls /\ CreatorsOf(row.request) = {}
      \/ \E a \in Attempts : \E i \in 1..Len(ts[a].program) :
           /\ ts[a].phase # "new" /\ row.transaction = MemberClaim(a, i)
           /\ row.request = ts[a].program[i].request
<1>1. \A k \in DOMAIN receipts : Of(receipts[k], attempts)
  BY DEF IInv, RowHasTransaction
<1>2. \A row : Of(row, attempts) => Of(row, attempts')
  BY CallersHold DEF ProgramsStay
<1>3. SUFFICES \A k \in DOMAIN receipts' : Of(receipts'[k], attempts')
  BY DEF RowHasTransaction
<1> HIDE DEF Of
<1>4. CASE KeepStep \/ PublishStep
  BY <1>1, <1>2, <1>4 DEF KeepStep, PublishStep
<1>5. CASE DropStep
  <2>1. PICK K : receipts' = Dropped(K)
    BY <1>5 DEF DropStep
  <2>2. DOMAIN receipts' = DOMAIN receipts \ K /\ \A k \in DOMAIN receipts' : receipts'[k] = receipts[k]
    BY <2>1, DroppedHolds
  <2>3. QED
    BY <1>1, <1>2, <2>2
<1>6. CASE SweepStep
  <2>1. SUFFICES ASSUME NEW k \in DOMAIN receipts' PROVE Of(receipts'[k], attempts')
    OBVIOUS
  <2>2. /\ k \in DOMAIN receipts
        /\ receipts'[k].transaction = receipts[k].transaction
        /\ receipts'[k].request = receipts[k].request
    BY <1>6, <2>1, SweptRow
  <2>3. Of(receipts[k], attempts')
    BY <1>1, <1>2, <2>2
  <2>4. QED
    BY <2>2, <2>3 DEF Of
<1>7. CASE ReserveStep
  <2>1. ASSUME NEW k \in DOMAIN receipts', k \notin DOMAIN receipts PROVE Of(receipts'[k], attempts')
    <3>1. Reserves(k)
      BY <1>7, <2>1 DEF ReserveStep
    <3>2. PICK r, supplied, claim, attempt :
            /\ receipts'[k] = NewRow(r, supplied, claim, attempt)
            /\ \/ claim \in Calls /\ CreatorsOf(r) = {}
               \/ \E a \in Attempts : \E i \in 1..Len(attempts'[a].program) :
                    /\ claim = MemberClaim(a, i)
                    /\ attempts'[a].phase # "new" /\ r = attempts'[a].program[i].request
      BY <3>1 DEF Reserves
    <3>3. receipts'[k].transaction = claim /\ receipts'[k].request = r
      BY <3>2 DEF NewRow
    <3>4. QED
      BY <3>2, <3>3 DEF Of
  <2>2. QED
    BY <1>1, <1>2, <1>7, <2>1 DEF ReserveStep
<1>8. CASE FinishStep
  <2>1. PICK key, row, outcome :
    /\ Finishes(key, row, outcome)
    /\ (\E c \in Calls : ExecutesCall(c, key, row)) \/ (\E a \in Attempts : ExecutesTurn(a, key, row))
    BY <1>8 DEF FinishStep
  <2>2. ASSUME NEW c \in Calls, ExecutesCall(c, key, row) PROVE Of(row, attempts)
    <3>1. key \in DOMAIN receipts /\ row = receipts[key]
      BY <2>2, OwnedCall DEF ExecutesCall, Execute
    <3>2. QED
      BY <1>1, <3>1
  <2>3. ASSUME NEW a \in Attempts, ExecutesTurn(a, key, row) PROVE Of(row, attempts)
    <3>1. /\ row.transaction = MemberClaim(a, attempts[a].next)
          /\ row.request = attempts[a].program[attempts[a].next].request
          /\ attempts[a].next \in 1..Len(attempts[a].program)
      BY <2>3, TurnRowHolds, ActiveHolds DEF IInv, ExecutesTurn
    <3>2. QED
      BY <2>3, <3>1 DEF Of, Active, ExecutesTurn
  <2>4. Of(row, attempts')
    BY <1>2, <2>1, <2>2, <2>3
  <2>5. /\ DOMAIN receipts' = DOMAIN receipts \cup {key}
        /\ \A k \in DOMAIN receipts \ {key} : receipts'[k] = receipts[k]
        /\ receipts'[key].transaction = row.transaction /\ receipts'[key].request = row.request
    BY <2>1, FinishRow DEF Final
  <2>6. Of(receipts'[key], attempts')
    BY <2>4, <2>5 DEF Of
  <2>7. QED
    BY <1>1, <1>2, <2>5, <2>6
<1>9. QED
  BY <1>4, <1>5, <1>6, <1>7, <1>8, StepRows

\* What a cancelled sequence held is gone, and nothing else.
LEMMA CancelHolds ==
  ASSUME NEW a \in Attempts, CallerShapes, Cancel(a)
  PROVE  /\ DOMAIN receipts' = {k \in DOMAIN receipts :
              \A i \in attempts[a].owned : receipts[k].owner # MemberClaim(a, i)}
         /\ \A k \in DOMAIN receipts' : receipts'[k] = receipts[k]
         /\ attempts'[a].phase = "done"
         /\ \A b \in Attempts \ {a} : attempts'[b] = attempts[b]
         /\ DOMAIN facts' = {f \in DOMAIN facts : f[1] # a}
         /\ \A f \in DOMAIN facts' : facts'[f] = facts[f]
<1> DEFINE K == {k \in DOMAIN receipts :
       \E i \in attempts[a].owned : receipts[k].owner = MemberClaim(a, i)}
<1>1. receipts' = Dropped(K)
  BY DEF Cancel
<1>2. DOMAIN receipts' = DOMAIN receipts \ K /\ \A k \in DOMAIN receipts' : receipts'[k] = receipts[k]
  BY <1>1 DEF Dropped, Restrict
<1>3. DOMAIN attempts[a] = {"phase", "program", "owned", "next"}
  BY DEF CallerShapes, AttemptFits
<1>4. attempts'[a].phase = "done" /\ \A b \in Attempts \ {a} : attempts'[b] = attempts[b]
  BY <1>3 DEF Cancel, CallerShapes
<1>5. /\ DOMAIN facts' = {f \in DOMAIN facts : f[1] # a}
      /\ \A f \in DOMAIN facts' : facts'[f] = facts[f]
  BY DEF Cancel, Restrict
<1>6. QED
  BY <1>2, <1>4, <1>5

LEMMA OpenHolds ==
  ASSUME CallerShapes, Open
  PROVE  /\ DOMAIN receipts' = {k \in DOMAIN receipts : ~Pending(k)}
         /\ \A k \in DOMAIN receipts' : receipts'[k] = receipts[k]
         /\ \A a \in Attempts : attempts'[a].phase # "active"
         /\ \A c \in Calls : calls'[c].phase \notin {"owned", "comparing"}
<1>1. /\ DOMAIN receipts' = {k \in DOMAIN receipts : ~Pending(k)}
      /\ \A k \in DOMAIN receipts' : receipts'[k] = receipts[k]
  BY DEF Open, Dropped, Restrict
<1>2. ASSUME NEW a \in Attempts PROVE attempts'[a].phase # "active"
  <2>1. DOMAIN attempts[a] = {"phase", "program", "owned", "next"}
    BY DEF CallerShapes, AttemptFits
  <2>2. QED
    BY <2>1 DEF Open, Active
<1>3. \A c \in Calls : calls'[c].phase \notin {"owned", "comparing"}
  BY DEF Open, Finished, InPhase
<1>4. QED
  BY <1>1, <1>2, <1>3

LEMMA UnresolvedHolds == ASSUME IInv, [Next]_vars PROVE UnresolvedHasTurn'
<1> DEFINE Has(k, row, ts) ==
      \E a \in Attempts : \E i \in ts[a].owned :
        /\ ts[a].phase = "active" /\ i >= ts[a].next
        /\ k = ts[a].program[i].key
        /\ row.attempt = a /\ row.owner = MemberClaim(a, i)
        /\ row.request = ts[a].program[i].request
<1>1. \A k \in DOMAIN receipts : receipts[k].attempt # None => Has(k, receipts[k], attempts)
  BY DEF IInv, UnresolvedHasTurn, Unresolved, Active
<1>2. SUFFICES \A k \in DOMAIN receipts' : receipts'[k].attempt # None => Has(k, receipts'[k], attempts')
  BY DEF UnresolvedHasTurn, Unresolved, Active
<1>3. CASE UNCHANGED attempts
  <2> HIDE DEF Has
  <2>1. CASE KeepStep \/ PublishStep
    BY <1>1, <1>3, <2>1 DEF KeepStep, PublishStep
  <2>2. CASE DropStep
    <3>1. PICK K : receipts' = Dropped(K)
      BY <2>2 DEF DropStep
    <3>2. DOMAIN receipts' = DOMAIN receipts \ K /\ \A k \in DOMAIN receipts' : receipts'[k] = receipts[k]
      BY <3>1, DroppedHolds
    <3>3. QED
      BY <1>1, <1>3, <3>2
  <2>3. CASE SweepStep
    <3>1. SUFFICES ASSUME NEW k \in DOMAIN receipts', receipts'[k].attempt # None
                   PROVE  Has(k, receipts'[k], attempts')
      OBVIOUS
    <3>2. /\ k \in DOMAIN receipts /\ receipts'[k].attempt = receipts[k].attempt
          /\ receipts'[k].owner = receipts[k].owner /\ receipts'[k].request = receipts[k].request
      BY <2>3, <3>1, SweptRow
    <3>3. QED
      BY <1>1, <1>3, <3>1, <3>2 DEF Has
  <2>4. CASE \E c \in Calls : Submit(c) \/ Poll(c)
    <3>1. ASSUME NEW c \in Calls, NEW key, NEW r, Present(c, key, r)
          PROVE  \A k \in DOMAIN receipts' : \/ k \in DOMAIN receipts /\ receipts'[k] = receipts[k]
                                             \/ receipts'[k].attempt = None
      <4>1. NewRow(r, <<>>, c, None).attempt = None
        BY DEF NewRow
      <4>2. CASE receipts' = Put(receipts, key, NewRow(r, <<>>, c, None)) /\ key \notin DOMAIN receipts
        BY <4>1, <4>2 DEF Put
      <4>3. CASE UNCHANGED receipts
        BY <4>3
      <4>4. QED
        BY <3>1, <4>2, <4>3 DEF Present
    <3>2. \A k \in DOMAIN receipts' : \/ k \in DOMAIN receipts /\ receipts'[k] = receipts[k]
                                      \/ receipts'[k].attempt = None
      BY <2>4, <3>1 DEF Submit, Poll
    <3>3. QED
      BY <1>1, <1>3, <3>2
  <2>5. CASE FinishStep
    <3>1. \A k \in DOMAIN receipts' : \/ k \in DOMAIN receipts /\ receipts'[k] = receipts[k]
                                      \/ receipts'[k].attempt = None
      BY <2>5, FinishRow DEF FinishStep, Final
    <3>2. QED
      BY <1>1, <1>3, <3>1
  <2>6. CASE \E a \in Attempts : AdmitSequence(a) \/ Turn(a) \/ Cancel(a)
    <3>1. PICK a \in Attempts : AdmitSequence(a) \/ Turn(a) \/ Cancel(a)
      BY <2>6
    <3>2. CASE AdmitSequence(a)
      BY <1>3, <3>2, AdmitHolds DEF IInv, AdmittedAs, AdmitSequence
    <3>3. CASE Turn(a)
      <4>1. PICK fact : EndTurn(a, fact) /\ Active(a)
        BY <3>3 DEF Turn, TransientTurn, AnsweredTurn, ExecutedTurn
      <4>2. attempts'[a].next = attempts[a].next + 1 /\ attempts[a].next \in Nat
        BY <4>1, EndTurnHolds, ActiveHolds DEF IInv
      <4>3. QED
        BY <1>3, <4>2
    <3>4. CASE Cancel(a)
      BY <1>3, <3>4, CancelHolds DEF IInv, Active, Cancel
    <3>5. QED
      BY <3>1, <3>2, <3>3, <3>4
  <2>7. QED
    BY <2>1, <2>2, <2>3, <2>4, <2>5, <2>6, StepRows DEF ReserveStep
<1>4. ASSUME NEW a \in Attempts, AdmitSequence(a)
      PROVE  \A k \in DOMAIN receipts' : receipts'[k].attempt # None => Has(k, receipts'[k], attempts')
  <2>1. PICK p \in Programs : AdmittedAs(a, p)
    BY <1>4, AdmitHolds DEF IInv
  <2>2. SUFFICES ASSUME NEW k \in DOMAIN receipts', receipts'[k].attempt # None
                 PROVE  Has(k, receipts'[k], attempts')
    OBVIOUS
  <2>3. CASE k \in DOMAIN receipts
    <3>1. Has(k, receipts[k], attempts) /\ receipts'[k] = receipts[k]
      BY <1>1, <2>1, <2>2, <2>3 DEF AdmittedAs
    <3>2. PICK b \in Attempts : \E i \in attempts[b].owned :
            /\ attempts[b].phase = "active" /\ i >= attempts[b].next
            /\ k = attempts[b].program[i].key
            /\ receipts[k].attempt = b /\ receipts[k].owner = MemberClaim(b, i)
            /\ receipts[k].request = attempts[b].program[i].request
      BY <3>1
    <3>3. b # a
      BY <1>4, <3>2 DEF AdmitSequence
    <3>4. attempts'[b] = attempts[b]
      BY <2>1, <3>3 DEF AdmittedAs
    <3>5. QED
      BY <3>1, <3>2, <3>4
  <2>4. CASE k \notin DOMAIN receipts
    <3>1. PICK i \in attempts'[a].owned : k = p[i].key
      BY <2>1, <2>4 DEF AdmittedAs
    <3>2. receipts'[k] = NewRow(p[i].request, Supplied(p), MemberClaim(a, i),
                                IF Deferred(p[i].request) THEN a ELSE None)
      BY <2>1, <3>1 DEF AdmittedAs
    <3>3. /\ receipts'[k].attempt = a /\ receipts'[k].owner = MemberClaim(a, i)
          /\ receipts'[k].request = p[i].request
      <4> DEFINE attempt == IF Deferred(p[i].request) THEN a ELSE None
      <4>1. attempt = a \/ attempt = None
        OBVIOUS
      <4> HIDE DEF attempt
      <4>2. receipts'[k].attempt = attempt
        BY <3>2 DEF NewRow, attempt
      <4>3. QED
        BY <2>2, <3>2, <4>1, <4>2 DEF NewRow
    <3>4. i >= 1
      BY <2>1, <3>1, ProgramHolds DEF AdmittedAs
    <3>5. QED
      BY <2>1, <3>1, <3>3, <3>4 DEF AdmittedAs
  <2>5. QED
    BY <2>3, <2>4
<1>5. ASSUME NEW a \in Attempts, Turn(a)
      PROVE  \A k \in DOMAIN receipts' : receipts'[k].attempt # None => Has(k, receipts'[k], attempts')
  <2>1. PICK fact : EndTurn(a, fact) /\ Active(a) /\ mode = "open"
    BY <1>5 DEF Turn, TransientTurn, AnsweredTurn, ExecutedTurn
  <2>2. /\ \A b \in Attempts \ {a} : attempts'[b] = attempts[b]
        /\ attempts'[a].program = attempts[a].program
        /\ attempts'[a].owned = attempts[a].owned
        /\ attempts'[a].next = attempts[a].next + 1
        /\ attempts'[a].phase = IF Done(a) THEN "done" ELSE "active"
    BY <2>1, EndTurnHolds DEF IInv
  <2>3. /\ attempts[a].next \in 1..Len(attempts[a].program)
        /\ attempts[a].owned \subseteq 1..Len(attempts[a].program)
        /\ Len(attempts[a].program) \in Nat
        /\ Member(a) = attempts[a].program[attempts[a].next]
    BY <2>1, ActiveHolds DEF IInv
  <2>4. SUFFICES ASSUME NEW k \in DOMAIN receipts', receipts'[k].attempt # None
                 PROVE  Has(k, receipts'[k], attempts')
    OBVIOUS
  <2>5. /\ k \in DOMAIN receipts /\ receipts'[k] = receipts[k]
        /\ k # Member(a).key \/ ~Owns(a)
    <3>1. CASE TransientTurn(a)
      BY <3>1, <2>4 DEF TransientTurn, Dropped, Restrict
    <3>2. CASE AnsweredTurn(a)
      BY <3>2 DEF AnsweredTurn
    <3>3. CASE ExecutedTurn(a)
      <4>1. PICK outcome : Finishes(Member(a).key, TurnRow(a), outcome)
        BY <2>1, <3>3, ExecutedRows
      <4>2. /\ DOMAIN receipts' = DOMAIN receipts \cup {Member(a).key}
            /\ \A j \in DOMAIN receipts \ {Member(a).key} : receipts'[j] = receipts[j]
            /\ receipts'[Member(a).key].attempt = None
        BY <4>1, FinishRow DEF Final
      <4>3. QED
        BY <2>4, <4>2
    <3>4. QED
      BY <1>5, <3>1, <3>2, <3>3 DEF Turn
  <2>6. PICK b, i :
        /\ b \in Attempts /\ i \in attempts[b].owned
        /\ attempts[b].phase = "active" /\ i >= attempts[b].next
        /\ k = attempts[b].program[i].key
        /\ receipts[k].attempt = b /\ receipts[k].owner = MemberClaim(b, i)
        /\ receipts[k].request = attempts[b].program[i].request
    BY <1>1, <2>4, <2>5
  <2>7. CASE b = a
    <3>1. i # attempts[a].next
      BY <2>3, <2>5, <2>6, <2>7 DEF Owns
    <3>2. i >= attempts'[a].next /\ ~Done(a)
      BY <2>2, <2>3, <2>6, <2>7, <3>1 DEF Done
    <3>3. QED
      BY <2>2, <2>5, <2>6, <2>7, <3>2
  <2>8. CASE b # a
    BY <2>2, <2>5, <2>6, <2>8
  <2>9. QED
    BY <2>7, <2>8
<1>6. ASSUME NEW a \in Attempts, Cancel(a)
      PROVE  \A k \in DOMAIN receipts' : receipts'[k].attempt # None => Has(k, receipts'[k], attempts')
  <2>1. SUFFICES ASSUME NEW k \in DOMAIN receipts', receipts'[k].attempt # None
                 PROVE  Has(k, receipts'[k], attempts')
    OBVIOUS
  <2>2. /\ k \in DOMAIN receipts /\ receipts'[k] = receipts[k]
        /\ \A i \in attempts[a].owned : receipts[k].owner # MemberClaim(a, i)
        /\ \A b \in Attempts \ {a} : attempts'[b] = attempts[b]
    BY <1>6, <2>1, CancelHolds DEF IInv
  <2>3. Has(k, receipts[k], attempts)
    BY <1>1, <2>1, <2>2
  <2>4. QED
    BY <2>2, <2>3
<1>7. CASE Open
  <2>1. \A k \in DOMAIN receipts : receipts[k].attempt # None => Pending(k)
    <3>1. ASSUME NEW k \in DOMAIN receipts, receipts[k].attempt # None PROVE receipts[k].owner # None
      <4>1. PICK a, i : a \in Attempts /\ i \in attempts[a].owned /\
              receipts[k].owner = MemberClaim(a, i) /\ Active(a)
        BY <1>1, <3>1 DEF Active
      <4>2. i \in Nat
        BY <4>1, ActiveHolds DEF IInv
      <4>3. QED
        BY <4>1, <4>2, ClaimantsAssumption DEF MemberClaim
    <3>2. QED
      BY <3>1 DEF Pending
  <2>2. QED
    BY <1>7, <2>1, OpenHolds DEF IInv
<1>8. QED
  BY <1>3, <1>4, <1>5, <1>6, <1>7 DEF Next, Submit, Poll, Deadline, Execute, FailExecution, Sweep,
     Pause, Publish, Resume, Stop, vars, durable

-----------------------------------------------------------------------------
(* What was decided. *)

IsDecided(row) == row.state \in {"completed", "expired"}

LEMMA StaysSame ==
  ASSUME IInv, DecidedStays, NEW k \in DOMAIN receipts, IsDecided(receipts[k])
  PROVE  /\ k \in DOMAIN receipts' /\ IsDecided(receipts'[k])
         /\ receipts'[k].allocated = receipts[k].allocated
         /\ receipts'[k].position = receipts[k].position
         /\ receipts'[k].transaction = receipts[k].transaction
         /\ receipts'[k].request = receipts[k].request
         /\ receipts'[k].identity = receipts[k].identity
<1>1. DOMAIN receipts[k] = RowFields
  BY DEF IInv, RowShapes, RowFits, IsRow
<1>2. /\ k \in DOMAIN receipts' /\ IsDecided(receipts'[k])
      /\ receipts'[k] = [receipts[k] EXCEPT !.state = receipts'[k].state]
  BY DEF DecidedStays, IsDecided
<1>3. QED
  BY <1>1, <1>2 DEF RowFields

\* What is decided after a step was decided before it, or is what an execution
\* of the step decided.
LEMMA DecidedOnce ==
  ASSUME IInv, [Next]_vars, NEW k \in DOMAIN receipts', IsDecided(receipts'[k])
  PROVE  \/ k \in DOMAIN receipts /\ IsDecided(receipts[k])
         \/ \E row : \E outcome \in {"noop", "effective"} :
              /\ Finishes(k, row, outcome)
              /\ \/ \E c \in Calls : ExecutesCall(c, k, row)
                 \/ \E a \in Attempts : ExecutesTurn(a, k, row)
<1>1. CASE KeepStep \/ PublishStep
  BY <1>1 DEF KeepStep, PublishStep
<1>2. CASE DropStep
  BY <1>2, DropHolds
<1>3. CASE SweepStep
  BY <1>3, SweptRow DEF IsDecided
<1>4. CASE ReserveStep
  <2>1. CASE k \in DOMAIN receipts
    BY <1>4, <2>1 DEF ReserveStep
  <2>2. CASE k \notin DOMAIN receipts
    <3>1. Reserves(k)
      BY <1>4, <2>2 DEF ReserveStep
    <3>2. receipts'[k].state = "pending"
      BY <3>1 DEF Reserves, NewRow
    <3>3. QED
      BY <3>2 DEF IsDecided
  <2>3. QED
    BY <2>1, <2>2
<1>5. CASE FinishStep
  <2>1. PICK key, row, outcome :
    /\ Finishes(key, row, outcome)
    /\ (\E c \in Calls : ExecutesCall(c, key, row)) \/ (\E a \in Attempts : ExecutesTurn(a, key, row))
    BY <1>5 DEF FinishStep
  <2>2. /\ DOMAIN receipts' = DOMAIN receipts \cup {key}
        /\ \A j \in DOMAIN receipts \ {key} : receipts'[j] = receipts[j]
        /\ receipts'[key].state = IF outcome = "failed" THEN "failed" ELSE "completed"
    BY <2>1, FinishRow DEF Final
  <2>3. CASE k # key
    BY <2>2, <2>3
  <2>4. CASE k = key
    <3>1. outcome \in {"noop", "effective"}
      BY <2>1, <2>2, <2>4 DEF IsDecided, Finishes
    <3>2. QED
      BY <2>1, <2>4, <3>1
  <2>5. QED
    BY <2>3, <2>4
<1>6. QED
  BY <1>1, <1>2, <1>3, <1>4, <1>5, StepRows

LEMMA GroupsHold == ASSUME IInv, [Next]_vars PROVE GroupsHaveReceipts'
<1>1. DecidedStays /\ GroupsHaveReceipts
  BY RowsHold DEF IInv
<1>2. groups \in Seq(Calls \cup (Attempts \X Nat))
  BY DEF IInv, RowShapes
<1>3. ASSUME NEW n \in 1..Len(groups), groups'[n] = groups[n]
      PROVE  \E k \in DOMAIN receipts' : IsDecided(receipts'[k]) /\ receipts'[k].position = n
                                           /\ receipts'[k].transaction = groups'[n]
  <2>1. PICK k \in DOMAIN receipts : /\ IsDecided(receipts[k]) /\ receipts[k].position = n
                                     /\ receipts[k].transaction = groups[n]
    BY <1>1 DEF GroupsHaveReceipts, RowsIn, IsDecided
  <2>2. QED
    BY <1>1, <1>3, <2>1, StaysSame
<1>4. SUFFICES ASSUME NEW n \in 1..Len(groups')
               PROVE  \E k \in DOMAIN receipts' :
                        /\ IsDecided(receipts'[k]) /\ receipts'[k].position = n
                        /\ receipts'[k].transaction = groups'[n]
  BY DEF GroupsHaveReceipts, RowsIn, IsDecided
<1>5. CASE UNCHANGED groups
  BY <1>3, <1>4, <1>5
<1>6. CASE FinishStep
  <2>1. PICK key, row, outcome : Finishes(key, row, outcome)
    BY <1>6 DEF FinishStep
  <2>2. CASE outcome # "effective"
    BY <1>5, <2>1, <2>2 DEF Finishes, Finish
  <2>3. CASE outcome = "effective"
    <3>1. groups' = Append(groups, row.transaction)
      BY <2>1, <2>3 DEF Finishes, Finish
    <3>2. row.transaction \in Calls \cup (Attempts \X Nat)
      BY <2>1 DEF Finishes
    <3>3. /\ Len(groups') = Len(groups) + 1 /\ groups'[Len(groups) + 1] = row.transaction
          /\ \A m \in 1..Len(groups) : groups'[m] = groups[m]
          /\ Len(groups) \in Nat
      BY <1>2, <3>1, <3>2
    <3>4. /\ key \in DOMAIN receipts' /\ IsDecided(receipts'[key])
          /\ receipts'[key].position = Len(groups) + 1
          /\ receipts'[key].transaction = row.transaction
      BY <2>1, <2>3, FinishRow DEF Final, IsDecided
    <3>5. QED
      BY <1>3, <1>4, <3>3, <3>4
  <2>4. QED
    BY <2>2, <2>3
<1>7. QED
  BY <1>5, <1>6, StepRows DEF KeepStep, PublishStep, DropStep, SweepStep, ReserveStep

-----------------------------------------------------------------------------
(* Facts of creators. *)

\* A step leaves the facts of a running sequence, begins them, or records one.
FactsStep(a) ==
  \/ /\ attempts'[a] = attempts[a]
     /\ \A f \in DOMAIN facts : f[1] = a => f \in DOMAIN facts' /\ facts'[f] = facts[f]
  \/ \E p \in Programs : AdmittedAs(a, p)
  \/ /\ Turn(a) /\ ~Done(a)
     /\ attempts'[a].program = attempts[a].program
     /\ attempts'[a].next = attempts[a].next + 1
     /\ DOMAIN facts' = DOMAIN facts
     /\ \A f \in DOMAIN facts : f # <<a, attempts[a].next>> => facts'[f] = facts[f]

LEMMA EndTurnFacts ==
  ASSUME NEW a \in Attempts, NEW fact, CallerShapes, Active(a), EndTurn(a, fact)
  PROVE  /\ \A f \in DOMAIN facts : f[1] # a => f \in DOMAIN facts' /\ facts'[f] = facts[f]
         /\ ~Done(a) =>
              /\ DOMAIN facts' = DOMAIN facts
              /\ \A f \in DOMAIN facts : f # <<a, attempts[a].next>> => facts'[f] = facts[f]
              /\ Creates(Member(a).request) /\ <<a, attempts[a].next>> \in DOMAIN facts =>
                   facts'[<<a, attempts[a].next>>] = fact
<1>1. CASE Done(a)
  BY <1>1 DEF EndTurn, Done, Restrict
<1>2. CASE ~Done(a)
  <2>1. facts' = IF Creates(Member(a).request)
                 THEN [facts EXCEPT ![<<a, attempts[a].next>>] = fact] ELSE facts
    BY <1>2 DEF EndTurn, Done, Member
  <2>2. facts = [f \in DOMAIN facts |-> facts[f]]
    BY DEF CallerShapes
  <2>3. QED
    BY <1>2, <2>1, <2>2
<1>3. QED
  BY <1>1, <1>2

LEMMA FactsSteps ==
  ASSUME IInv, [Next]_vars, NEW a \in Attempts, attempts'[a].phase = "active"
  PROVE  FactsStep(a)
<1>1. CallerShapes
  BY DEF IInv
<1>2. ASSUME NEW b \in Attempts, AdmitSequence(b) PROVE FactsStep(a)
  <2>1. PICK p \in Programs : AdmittedAs(b, p)
    BY <1>1, <1>2, AdmitHolds
  <2>2. CASE a # b
    <3>1. attempts'[a] = attempts[a]
      BY <2>1, <2>2 DEF AdmittedAs
    <3>2. \A f \in DOMAIN facts : f[1] = a => f \in DOMAIN facts' /\ facts'[f] = facts[f]
      BY <2>1, <2>2 DEF AdmittedAs
    <3>3. QED
      BY <3>1, <3>2 DEF FactsStep
  <2>3. QED
    BY <2>1, <2>2 DEF FactsStep
<1>3. ASSUME NEW b \in Attempts, Turn(b) PROVE FactsStep(a)
  <2>1. PICK fact : EndTurn(b, fact) /\ Active(b)
    BY <1>3 DEF Turn, TransientTurn, AnsweredTurn, ExecutedTurn
  <2>2. CASE a # b
    BY <1>1, <2>1, <2>2, EndTurnHolds, EndTurnFacts DEF FactsStep
  <2>3. CASE a = b
    <3>1. ~Done(a)
      BY <1>1, <2>1, <2>3, EndTurnHolds
    <3>2. QED
      BY <1>1, <1>3, <2>1, <2>3, <3>1, EndTurnHolds, EndTurnFacts DEF FactsStep
  <2>4. QED
    BY <2>2, <2>3
<1>4. ASSUME NEW b \in Attempts, Cancel(b) PROVE FactsStep(a)
  BY <1>1, <1>4, CancelHolds DEF FactsStep
<1>5. ~Open
  BY <1>1, OpenHolds
<1>6. CASE UNCHANGED <<facts, attempts>>
  BY <1>6 DEF FactsStep
<1>7. QED
  BY <1>2, <1>3, <1>4, <1>5, <1>6 DEF Next, Submit, Poll, Deadline, Execute, FailExecution, Sweep,
     Pause, Publish, Resume, Stop, vars, durable

\* The fact of the member whose turn it is: no disposition of its own, none it
\* could have, or what is decided under its key.
LEMMA TurnFact ==
  ASSUME IInv, [Next]_vars, NEW a \in Attempts, Turn(a), ~Done(a), Creates(Member(a).request),
         <<a, attempts[a].next>> \in DOMAIN facts
  PROVE  LET f == <<a, attempts[a].next>>
             key == Member(a).key IN
         \/ facts'[f] \in {Unbound, Transient}
         \/ /\ key \in DOMAIN receipts' /\ IsDecided(receipts'[key])
            /\ facts'[f] = Uri(receipts'[key].allocated)
<1> DEFINE f == <<a, attempts[a].next>>
           key == Member(a).key
<1>1. CallerShapes /\ Active(a) /\ mode = "open"
  BY DEF IInv, Turn
<1>2. ASSUME NEW fact, EndTurn(a, fact) PROVE facts'[f] = fact
  BY <1>1, <1>2, EndTurnFacts
<1>3. ASSUME NEW row, row.state \in States, FactOf(row) \notin {Unbound, Transient}
      PROVE  IsDecided(row) /\ FactOf(row) = Uri(row.allocated)
  BY <1>3 DEF FactOf, States, IsDecided
<1>4. CASE TransientTurn(a)
  BY <1>2, <1>4 DEF TransientTurn
<1>5. CASE AnsweredTurn(a)
  <2>1. key \in DOMAIN receipts /\ UNCHANGED receipts
    BY <1>5 DEF AnsweredTurn
  <2>2. receipts[key].state \in States
    BY <2>1 DEF IInv, TypeOK
  <2>3. facts'[f] = Unbound \/ facts'[f] = FactOf(receipts[key])
    BY <1>2, <1>5 DEF AnsweredTurn
  <2>4. QED
    BY <1>3, <2>1, <2>2, <2>3
<1>6. CASE ExecutedTurn(a)
  <2>1. facts'[f] = FactOf(receipts'[key])
    BY <1>2, <1>6 DEF ExecutedTurn
  <2>2. PICK outcome : Finishes(key, TurnRow(a), outcome)
    BY <1>1, <1>6, ExecutedRows
  <2>3. key \in DOMAIN receipts' /\ receipts'[key].state \in States
    BY <2>2, FinishRow DEF Final, States
  <2>4. QED
    BY <1>3, <2>1, <2>3
<1>7. QED
  BY <1>4, <1>5, <1>6 DEF Turn

LEMMA FactsHold == ASSUME IInv, [Next]_vars PROVE FactsAreAllocations' /\ DeferredHasFacts'
<1>1. /\ DecidedStays /\ RowInv' /\ CallerShapes' /\ UnresolvedHasTurn' /\ TypeOK'
  BY RowsHold, CallersHold, UnresolvedHolds, TypeHolds
<1>2. ASSUME NEW a \in Attempts, attempts'[a].phase = "active",
             NEW j \in CreatingMembers(attempts'[a].program)
      PROVE  LET f == <<a, j>>
                 key == attempts'[a].program[j].key IN
             /\ f \in DOMAIN facts'
             /\ j < attempts'[a].next => facts'[f] # None
             /\ \/ facts'[f] \in {None, Unbound, Transient}
                \/ /\ key \in DOMAIN receipts' /\ IsDecided(receipts'[key])
                   /\ facts'[f] = Uri(receipts'[key].allocated)
  <2> DEFINE f == <<a, j>>
             key == attempts'[a].program[j].key
  <2>0. /\ attempts'[a].program \in Programs
        /\ j \in 1..Len(attempts'[a].program) /\ Creates(attempts'[a].program[j].request)
        /\ j \in Nat
    <3>1. AttemptFits(attempts'[a])
      BY <1>1 DEF CallerShapes
    <3>2. attempts'[a].program \in Programs
      BY <1>2, <3>1 DEF AttemptFits
    <3>3. QED
      BY <1>2, <3>2, ProgramHolds DEF CreatingMembers
  <2>1. ASSUME Active(a), attempts'[a].program = attempts[a].program
        PROVE  /\ f \in DOMAIN facts
               /\ j < attempts[a].next => facts[f] # None
               /\ facts[f] \notin {None, Unbound, Transient} =>
                    /\ key \in DOMAIN receipts' /\ IsDecided(receipts'[key])
                    /\ facts[f] = Uri(receipts'[key].allocated)
    <3>1. /\ f \in DOMAIN facts
          /\ j < attempts[a].next => facts[f] # None
      BY <1>2, <2>1 DEF IInv, DeferredHasFacts
    <3>2. ASSUME facts[f] \notin {None, Unbound, Transient}
          PROVE  /\ key \in DOMAIN receipts' /\ IsDecided(receipts'[key])
                 /\ facts[f] = Uri(receipts'[key].allocated)
      <4>1. Decided(key) /\ facts[f] = Uri(receipts[key].allocated)
        BY <1>2, <2>1, <3>2 DEF IInv, FactsAreAllocations
      <4>2. QED
        BY <1>1, <4>1, StaysSame DEF Decided, IsDecided
    <3>3. QED
      BY <3>1, <3>2
  <2>2. CASE /\ attempts'[a] = attempts[a]
             /\ \A g \in DOMAIN facts : g[1] = a => g \in DOMAIN facts' /\ facts'[g] = facts[g]
    <3>1. Active(a)
      BY <1>2, <2>2 DEF Active
    <3>2. f \in DOMAIN facts' /\ facts'[f] = facts[f]
      BY <2>1, <2>2, <3>1
    <3>3. QED
      BY <2>1, <2>2, <3>1, <3>2
  <2>3. ASSUME NEW p \in Programs, AdmittedAs(a, p)
        PROVE  f \in DOMAIN facts' /\ facts'[f] = None /\ ~(j < attempts'[a].next)
    <3>1. /\ attempts'[a].program = p /\ attempts'[a].next = 1
          /\ facts' = [g \in DOMAIN facts \cup ({a} \X CreatingMembers(p)) |->
               IF g[1] = a THEN None ELSE facts[g]]
      BY <2>3 DEF AdmittedAs
    <3>2. QED
      BY <1>2, <2>0, <3>1
  <2>4. CASE /\ Turn(a) /\ ~Done(a)
             /\ attempts'[a].program = attempts[a].program
             /\ attempts'[a].next = attempts[a].next + 1
             /\ DOMAIN facts' = DOMAIN facts
             /\ \A g \in DOMAIN facts : g # <<a, attempts[a].next>> => facts'[g] = facts[g]
    <3>1. Active(a) /\ CallerShapes
      BY <2>4 DEF Turn, IInv
    <3>2. /\ attempts[a].next \in 1..Len(attempts[a].program) /\ attempts[a].next \in Nat
          /\ Member(a) = attempts[a].program[attempts[a].next]
      BY <3>1, ActiveHolds
    <3>3. CASE j # attempts[a].next
      <4>1. facts'[f] = facts[f] /\ f \in DOMAIN facts'
        BY <2>1, <2>4, <3>1, <3>3
      <4>2. j < attempts'[a].next => j < attempts[a].next
        BY <2>0, <2>4, <3>2, <3>3
      <4>3. QED
        BY <2>1, <2>4, <3>1, <4>1, <4>2
    <3>4. CASE j = attempts[a].next
      <4>1. /\ f \in DOMAIN facts /\ f = <<a, attempts[a].next>> /\ key = Member(a).key
            /\ Creates(Member(a).request)
        BY <2>0, <2>1, <2>4, <3>1, <3>2, <3>4
      <4>2. \/ facts'[f] \in {Unbound, Transient}
            \/ /\ key \in DOMAIN receipts' /\ IsDecided(receipts'[key])
               /\ facts'[f] = Uri(receipts'[key].allocated)
        BY <2>4, <4>1, TurnFact
      <4>3. key \in DOMAIN receipts' =>
              receipts'[key].allocated \in Uris \cup Nat \cup {None}
        <5>1. groups' \in Seq(Calls \cup (Attempts \X Nat))
          BY <1>1 DEF RowInv, RowShapes
        <5>2. 1..Len(groups') \subseteq Nat
          BY <5>1
        <5>3. QED
          BY <1>1, <5>2 DEF RowInv, RowTypes
      <4>4. facts'[f] # None
        BY <4>2, <4>3, ClaimantsAssumption DEF Unbound, Transient, Uri
      <4>5. QED
        BY <2>4, <4>1, <4>2, <4>4
    <3>5. QED
      BY <3>3, <3>4
  <2>5. FactsStep(a)
    BY <1>2, FactsSteps
  <2>6. QED
    BY <2>2, <2>3, <2>4, <2>5 DEF FactsStep
<1>3. FactsAreAllocations'
  BY <1>2 DEF FactsAreAllocations, Active, Decided, IsDecided
<1>4. ASSUME NEW k \in DOMAIN receipts', receipts'[k].attempt # None,
             NEW j \in CreatorsOf(receipts'[k].request)
      PROVE  <<receipts'[k].attempt, j>> \in DOMAIN facts'
  <2>1. PICK a, i :
           /\ a \in Attempts /\ i \in attempts'[a].owned /\ attempts'[a].phase = "active"
           /\ receipts'[k].attempt = a /\ receipts'[k].request = attempts'[a].program[i].request
    BY <1>1, <1>4 DEF UnresolvedHasTurn, Unresolved, Active
  <2>2. /\ attempts'[a].program \in Programs /\ attempts'[a].owned \subseteq 1..Len(attempts'[a].program)
    BY <1>1, <2>1 DEF CallerShapes, AttemptFits
  <2>3. j \in CreatingMembers(attempts'[a].program)
    <3>1. i \in 1..Len(attempts'[a].program) /\ Len(attempts'[a].program) \in Nat
      BY <2>1, <2>2, ProgramHolds
    <3>2. j \in 1..(i - 1) /\ Creates(attempts'[a].program[j].request)
      BY <1>4, <2>1, <2>2, <3>1, ProgramHolds
    <3>3. QED
      BY <3>1, <3>2 DEF CreatingMembers
  <2>4. QED
    BY <1>2, <2>1, <2>3
<1>5. DeferredHasFacts'
  BY <1>2, <1>4 DEF DeferredHasFacts, Unresolved, Active
<1>6. QED
  BY <1>3, <1>5

LEMMA CreatorField ==
  ASSUME NEW r, NEW f \in DOMAIN r.refs, r.refs[f].kind = "creator"
  PROVE  r.refs[f].at \in CreatorsOf(r)
BY DEF CreatorsOf, OfKind

LEMMA LookedUp ==
  /\ \A u : Lookup(Uri(u), NoWitnesses) = Uri(u)
  /\ Lookup(Unbound, NoWitnesses).kind = "unbound"
  /\ Lookup(Transient, NoWitnesses).kind = "transient"
BY DEF Lookup, Uri, Unbound, Transient

LEMMA BoundHolds == ASSUME IInv, [Next]_vars PROVE BoundToCreator'
<1>1. DecidedStays /\ ProgramsStay /\ CallerShapes
  BY RowsHold, CallersHold DEF IInv
<1> DEFINE Bound(row, f, ts, rs) ==
      LET program == ts[row.transaction[1]].program
          creator == program[row.request.refs[f].at].key IN
      /\ creator \in DOMAIN rs /\ IsDecided(rs[creator])
      /\ row.identity.refs[f] = Uri(rs[creator].allocated)
<1>2. SUFFICES ASSUME NEW k \in DOMAIN receipts', IsDecided(receipts'[k]),
                      NEW f \in DOMAIN receipts'[k].request.refs,
                      receipts'[k].request.refs[f].kind = "creator"
               PROVE  Bound(receipts'[k], f, attempts', receipts')
  BY DEF BoundToCreator, IsDecided
<1>3. CASE k \in DOMAIN receipts /\ IsDecided(receipts[k])
  <2>1. /\ receipts'[k].transaction = receipts[k].transaction
        /\ receipts'[k].request = receipts[k].request
        /\ receipts'[k].identity = receipts[k].identity
    BY <1>1, <1>3, StaysSame
  <2>2. Bound(receipts[k], f, attempts, receipts)
    BY <1>2, <1>3, <2>1 DEF IInv, BoundToCreator, IsDecided
  <2>3. PICK a \in Attempts, i \in Nat :
           /\ attempts[a].phase # "new" /\ receipts[k].transaction = MemberClaim(a, i)
    <3>1. receipts[k].request.refs[f].at \in CreatorsOf(receipts[k].request)
      BY <1>2, <2>1, CreatorField
    <3>2. PICK a \in Attempts : \E i \in 1..Len(attempts[a].program) :
           /\ attempts[a].phase # "new" /\ receipts[k].transaction = MemberClaim(a, i)
      BY <1>3, <3>1 DEF IInv, RowHasTransaction
    <3>3. 1..Len(attempts[a].program) \subseteq Nat
      BY <1>1, <3>2, ProgramHolds DEF CallerShapes, AttemptFits
    <3>4. QED
      BY <3>2, <3>3
  <2>4. receipts[k].transaction[1] = a /\ attempts'[a].program = attempts[a].program
    BY <1>1, <2>3 DEF MemberClaim, ProgramsStay
  <2>5. receipts[k].request.refs[f] = receipts'[k].request.refs[f]
    BY <2>1
  <2> DEFINE creator == attempts[a].program[receipts[k].request.refs[f].at].key
  <2>6. /\ creator \in DOMAIN receipts /\ IsDecided(receipts[creator])
        /\ receipts[k].identity.refs[f] = Uri(receipts[creator].allocated)
    BY <2>2, <2>4
  <2>7. /\ creator \in DOMAIN receipts' /\ IsDecided(receipts'[creator])
        /\ receipts'[creator].allocated = receipts[creator].allocated
    BY <1>1, <2>6, StaysSame
  <2>8. QED
    BY <2>1, <2>4, <2>6, <2>7
<1>4. ASSUME NEW row, NEW outcome \in {"noop", "effective"}, Finishes(k, row, outcome),
             \/ \E c \in Calls : ExecutesCall(c, k, row)
             \/ \E a \in Attempts : ExecutesTurn(a, k, row)
      PROVE  Bound(receipts'[k], f, attempts', receipts')
  <2>1. /\ receipts'[k].transaction = row.transaction
        /\ receipts'[k].request = row.request
        /\ receipts'[k].identity = row.identity
    BY <1>4, FinishRow DEF Final
  <2>2. row.request.refs[f].at \in CreatorsOf(row.request)
    BY <1>2, <2>1, CreatorField
  <2>3. ASSUME NEW c \in Calls, ExecutesCall(c, k, row) PROVE FALSE
    <3>1. k \in DOMAIN receipts /\ row = receipts[k] /\ row.transaction = c
      BY <2>3, OwnedCall DEF ExecutesCall, Execute
    <3>2. PICK a \in Attempts : \E i \in 1..Len(attempts[a].program) :
           attempts[a].phase # "new" /\ receipts[k].transaction = MemberClaim(a, i)
      BY <2>2, <3>1 DEF IInv, RowHasTransaction
    <3>3. 1..Len(attempts[a].program) \subseteq Nat
      BY <1>1, <3>2, ProgramHolds DEF CallerShapes, AttemptFits
    <3>4. PICK i \in Nat : c = <<a, i>>
      BY <3>1, <3>2, <3>3 DEF MemberClaim
    <3>5. c \in Attempts \X Nat
      BY <3>4
    <3>6. QED
      BY <3>5, ClaimantsAssumption
  <2>4. ASSUME NEW a \in Attempts, ExecutesTurn(a, k, row)
        PROVE  Bound(row, f, attempts', receipts')
    <3> DEFINE r == Member(a).request
               j == r.refs[f].at
               p == attempts[a].program
    <3>1. /\ Active(a) /\ row.request = r /\ row.transaction = MemberClaim(a, attempts[a].next)
          /\ f \in DOMAIN r.refs /\ r.refs[f].kind = "creator"
          /\ row.identity.refs[f] = Lookup(facts[<<a, j>>], NoWitnesses)
          /\ DOMAIN row.identity.refs = DOMAIN r.refs
      BY <1>1, <1>2, <2>1, <2>4, TurnRowHolds DEF ExecutesTurn, RowFits
    <3>2. /\ p \in Programs /\ attempts[a].next \in 1..Len(p) /\ r = p[attempts[a].next].request
      BY <1>1, <3>1, ActiveHolds
    <3>3. /\ j \in 1..(attempts[a].next - 1) /\ Creates(p[j].request) /\ Len(p) \in Nat
      BY <2>2, <3>1, <3>2, ProgramHolds
    <3>4. j \in CreatingMembers(p) /\ j < attempts[a].next
      <4> HIDE DEF r, j, p, Bound
      <4>1. attempts[a].next \in Nat /\ j \in Nat /\ j < attempts[a].next /\ j \in 1..Len(p)
        BY <3>2, <3>3
      <4>2. QED
        BY <3>3, <4>1 DEF CreatingMembers
    <3>5. /\ facts[<<a, j>>] # None
          /\ \/ facts[<<a, j>>] \in {None, Unbound, Transient}
             \/ Decided(p[j].key) /\ facts[<<a, j>>] = Uri(receipts[p[j].key].allocated)
      BY <3>1, <3>4 DEF IInv, DeferredHasFacts, FactsAreAllocations
    <3>6. row.identity.refs[f].kind = "uri"
      <4>1. outcome \in Outcomes(row.identity) /\ outcome # "failed"
        BY <1>4 DEF Finishes, Finish
      <4>2. QED
        BY <3>1, <4>1 DEF Outcomes
    <3>7. /\ Decided(p[j].key) /\ facts[<<a, j>>] = Uri(receipts[p[j].key].allocated)
      <4> HIDE DEF r, j, p
      <4>1. facts[<<a, j>>] # Unbound /\ facts[<<a, j>>] # Transient
        BY <3>1, <3>6, LookedUp
      <4>2. QED
        BY <3>5, <4>1
    <3>8. row.identity.refs[f] = Uri(receipts[p[j].key].allocated)
      BY <3>1, <3>7, LookedUp
    <3>9. attempts'[a].program = p /\ row.transaction[1] = a
      BY <1>1, <3>1 DEF ProgramsStay, Active, MemberClaim
    <3>10. /\ p[j].key \in DOMAIN receipts' /\ IsDecided(receipts'[p[j].key])
           /\ receipts'[p[j].key].allocated = receipts[p[j].key].allocated
      BY <1>1, <3>7, StaysSame DEF Decided, IsDecided
    <3>11. QED
      BY <3>1, <3>8, <3>9, <3>10
  <2>5. Bound(row, f, attempts', receipts')
    BY <1>4, <2>3, <2>4
  <2>6. QED
    BY <2>1, <2>5
<1>5. QED
  BY <1>2, <1>3, <1>4, DecidedOnce

-----------------------------------------------------------------------------
(* Claims and the policy. *)

LEMMA PolicyHolds == ASSUME IInv, [Next]_vars PROVE PolicyLeavesNothing'
<1>1. CallerShapes /\ PolicyLeavesNothing /\ TypeOK
  BY DEF IInv
<1>2. CASE Publish
  <2>1. Drained /\ \A k \in DOMAIN receipts : ~Pending(k)
    BY <1>2 DEF Publish
  <2>2. UNCHANGED <<receipts, calls, attempts>>
    BY <1>2 DEF Publish
  <2>3. QED
    BY <2>1, <2>2 DEF Drained, PolicyLeavesNothing, Active, Pending
<1>3. ASSUME generation = 1, generation' = 1
      PROVE  PolicyLeavesNothing'
  <2>1. ASSUME NEW c \in Calls
        PROVE  ~Submit(c) /\ ~Poll(c) /\ ~Deadline(c) /\ ~Execute(c) /\ ~FailExecution(c)
    <3>1. calls[c].phase # "owned" /\ calls[c].phase # "comparing" /\ ~Admitting
      BY <1>1, <1>3 DEF PolicyLeavesNothing, Admitting
    <3>2. ~Submit(c)
      BY <3>1 DEF Submit
    <3>3. ~Poll(c) /\ ~Deadline(c)
      BY <3>1 DEF Poll, Deadline
    <3>4. ~Execute(c) /\ ~FailExecution(c)
      BY <3>1 DEF Execute, FailExecution
    <3>5. QED
      BY <3>2, <3>3, <3>4
  <2>2. ASSUME NEW a \in Attempts PROVE ~AdmitSequence(a) /\ ~Turn(a) /\ ~Cancel(a)
    <3>1. ~Active(a) /\ ~Admitting
      BY <1>1, <1>3 DEF PolicyLeavesNothing, Admitting
    <3>2. QED
      BY <3>1 DEF AdmitSequence, Turn, Cancel
  <2>3. CASE Open
    BY <1>1, <1>3, <2>3, OpenHolds DEF PolicyLeavesNothing, Active, Pending
  <2>4. CASE Sweep
    <3>1. \A k \in DOMAIN receipts' : k \in DOMAIN receipts /\ receipts'[k].owner = receipts[k].owner
      <4>1. SweepStep
        BY <2>4 DEF Sweep, SweepStep
      <4>2. QED
        BY <4>1, SweptRow
    <3>2. UNCHANGED <<calls, attempts>>
      BY <2>4 DEF Sweep
    <3>3. QED
      BY <1>1, <1>3, <3>1, <3>2 DEF PolicyLeavesNothing, Pending, Active
  <2>5. CASE UNCHANGED <<receipts, calls, attempts>>
    BY <1>1, <1>3, <2>5 DEF PolicyLeavesNothing, Pending, Active
  <2>6. QED
    BY <2>1, <2>2, <2>3, <2>4, <2>5 DEF Next, Pause, Publish, Resume, Stop, vars, durable
<1>4. CASE generation' # 1
  BY <1>4 DEF PolicyLeavesNothing
<1>5. QED
  <2>1. CASE PublishStep \/ generation' = generation
    <3>1. generation' = 1 /\ generation # 1 => Publish
      <4>1. \/ generation' = generation \/ Publish
        <5>1. \A c \in Calls : Submit(c) \/ Poll(c) \/ Deadline(c) \/ Execute(c) \/ FailExecution(c)
                => generation' = generation
          BY DEF Submit, Poll, Deadline, Execute, Finish, FailExecution, durable
        <5>2. \A a \in Attempts : AdmitSequence(a) \/ Turn(a) \/ Cancel(a) => generation' = generation
          <6>1. \A a \in Attempts : AdmitSequence(a) \/ Cancel(a) => generation' = generation
            BY DEF AdmitSequence, Cancel
          <6>2. \A a \in Attempts : TransientTurn(a) \/ AnsweredTurn(a) => generation' = generation
            BY DEF TransientTurn, AnsweredTurn
          <6>3. \A a \in Attempts : ExecutedTurn(a) => generation' = generation
            BY DEF ExecutedTurn, Finish
          <6>4. QED
            BY <6>1, <6>2, <6>3 DEF Turn
        <5>3. Sweep \/ Pause \/ Resume \/ Stop \/ Open \/ UNCHANGED vars => generation' = generation
          BY DEF Sweep, Pause, Resume, Stop, Open, vars, durable
        <5>4. \/ \E c \in Calls :
                   Submit(c) \/ Poll(c) \/ Deadline(c) \/ Execute(c) \/ FailExecution(c)
              \/ \E a \in Attempts : AdmitSequence(a) \/ Turn(a) \/ Cancel(a)
              \/ Sweep \/ Pause \/ Resume \/ Stop \/ Open \/ UNCHANGED vars
              \/ Publish
          BY DEF Next
        <5>5. QED
          BY <5>1, <5>2, <5>3, <5>4
      <4>2. QED
        BY <4>1
    <3>2. QED
      BY <1>2, <1>3, <1>4, <3>1
  <2>2. FinishStep => generation' = generation
    BY DEF FinishStep, Finishes, Finish
  <2>3. QED
    BY <2>1, <2>2, StepRows DEF KeepStep, DropStep, SweepStep, ReserveStep

\* The claims that calls and sequences have, and that receipts are held by.
CallClaims(c, k) == calls[c].phase = "owned" /\ calls[c].key = k
MemberClaims(a, i, k) ==
  /\ Active(a) /\ i \in attempts[a].owned /\ i >= attempts[a].next
  /\ attempts[a].program[i].key = k

Held(k, claim) == k \in DOMAIN receipts /\ receipts[k].owner = claim /\ claim # None

Match ==
  /\ \A k \in DOMAIN receipts : receipts[k].owner # None =>
       \/ \E c \in Calls : receipts[k].owner = c /\ CallClaims(c, k)
       \/ \E a \in Attempts, i \in Nat :
            receipts[k].owner = MemberClaim(a, i) /\ MemberClaims(a, i, k)
  /\ \A c \in Calls, k \in Keys : CallClaims(c, k) => Held(k, c)
  /\ \A a \in Attempts, i \in Nat, k \in Keys : MemberClaims(a, i, k) => Held(k, MemberClaim(a, i))

LEMMA MatchIsClaims ==
  ASSUME CallerShapes, TypeOK PROVE ClaimsMatchReceipts <=> (mode = "open" => Match)
<1>1. /\ \A c \in Calls : calls[c].phase = "owned" => calls[c].key \in Keys
      /\ \A c \in Calls : c # None
      /\ \A a \in Attempts : \A i \in Nat : MemberClaim(a, i) # None
  BY ClaimantsAssumption DEF CallerShapes, CallFits, MemberClaim
<1>2. ASSUME NEW a \in Attempts, Active(a), NEW i \in attempts[a].owned
      PROVE  i \in Nat /\ attempts[a].program[i].key \in Keys
  <2>1. attempts[a].program \in Programs /\ i \in 1..Len(attempts[a].program)
    BY <1>2, ActiveHolds
  <2>2. QED
    BY <2>1, ProgramHolds
<1>3. ASSUME ClaimsMatchReceipts, mode = "open" PROVE Match
  <2>1. ASSUME NEW k \in DOMAIN receipts, receipts[k].owner # None
        PROVE \/ \E c \in Calls : receipts[k].owner = c /\ CallClaims(c, k)
              \/ \E a \in Attempts, i \in Nat :
                   receipts[k].owner = MemberClaim(a, i) /\ MemberClaims(a, i, k)
    <3>1. Claimed(receipts[k].owner, k)
      BY <1>3, <2>1 DEF ClaimsMatchReceipts, Pending
    <3>2. QED
      BY <1>2, <3>1 DEF Claimed, CallClaims, MemberClaims
  <2>2. ASSUME NEW c \in Calls, NEW k \in Keys, CallClaims(c, k) PROVE Held(k, c)
    BY <1>1, <1>3, <2>2 DEF ClaimsMatchReceipts, CallClaims, Held, Pending
  <2>3. ASSUME NEW a \in Attempts, NEW i \in Nat, NEW k \in Keys, MemberClaims(a, i, k)
        PROVE  Held(k, MemberClaim(a, i))
    BY <1>1, <1>3, <2>3 DEF ClaimsMatchReceipts, MemberClaims, Held, Pending
  <2>4. QED
    BY <2>1, <2>2, <2>3 DEF Match
<1>4. ASSUME Match PROVE ClaimsMatchReceipts
  <2>1. ASSUME NEW k \in DOMAIN receipts, Pending(k) PROVE Claimed(receipts[k].owner, k)
    BY <1>4, <2>1 DEF Match, Claimed, CallClaims, MemberClaims, Pending
  <2>2. ASSUME NEW c \in Calls, calls[c].phase = "owned"
        PROVE  Pending(calls[c].key) /\ receipts[calls[c].key].owner = c
    BY <1>1, <1>4, <2>2 DEF Match, CallClaims, Held, Pending
  <2>3. ASSUME NEW a \in Attempts, Active(a), NEW i \in attempts[a].owned, i >= attempts[a].next
        PROVE  LET key == attempts[a].program[i].key IN
               Pending(key) /\ receipts[key].owner = MemberClaim(a, i)
    BY <1>2, <1>4, <2>3 DEF Match, MemberClaims, Held, Pending
  <2>4. QED
    BY <2>1, <2>2, <2>3 DEF ClaimsMatchReceipts
<1>5. QED
  BY <1>3, <1>4 DEF ClaimsMatchReceipts

\* No receipt has two holders.
LEMMA ClaimsDiffer ==
  /\ \A c \in Calls, a \in Attempts, i \in Nat : c # MemberClaim(a, i)
  /\ \A a, b, i, j : MemberClaim(a, i) = MemberClaim(b, j) => a = b /\ i = j
  /\ \A c \in Calls : c # None
  /\ \A a \in Attempts, i \in Nat : MemberClaim(a, i) # None
BY ClaimantsAssumption DEF MemberClaim

\* The claims a step ends are those whose receipts it decides or retracts, and the
\* ones it makes are those of the reservations it makes.
Ends(ended) ==
  /\ \A c \in Calls, k \in Keys : CallClaims(c, k)' =>
       \/ CallClaims(c, k) /\ c \notin ended
       \/ Held(k, c)'
  /\ \A a \in Attempts, i \in Nat, k \in Keys : MemberClaims(a, i, k)' =>
       \/ MemberClaims(a, i, k) /\ MemberClaim(a, i) \notin ended
       \/ Held(k, MemberClaim(a, i))'
  /\ \A k, claim : Held(k, claim) /\ claim \notin ended => Held(k, claim)'
  /\ \A k \in DOMAIN receipts' : receipts'[k].owner # None =>
       \/ /\ k \in DOMAIN receipts /\ receipts[k].owner = receipts'[k].owner
          /\ receipts[k].owner \notin ended
       \/ \E c \in Calls : receipts'[k].owner = c /\ CallClaims(c, k)'
       \/ \E a \in Attempts, i \in Nat :
            receipts'[k].owner = MemberClaim(a, i) /\ MemberClaims(a, i, k)'
  /\ \A c \in Calls, k \in DOMAIN receipts :
       CallClaims(c, k) /\ c \notin ended => CallClaims(c, k)'
  /\ \A a \in Attempts, i \in Nat, k \in DOMAIN receipts :
       MemberClaims(a, i, k) /\ MemberClaim(a, i) \notin ended => MemberClaims(a, i, k)'

LEMMA MatchStep == ASSUME Match, NEW ended, Ends(ended) PROVE Match'
<1> USE DEF Ends
<1>1. ASSUME NEW k \in DOMAIN receipts', receipts'[k].owner # None
      PROVE  \/ \E c \in Calls : receipts'[k].owner = c /\ CallClaims(c, k)'
             \/ \E a \in Attempts, i \in Nat :
                  receipts'[k].owner = MemberClaim(a, i) /\ MemberClaims(a, i, k)'
  <2>1. CASE /\ k \in DOMAIN receipts /\ receipts[k].owner = receipts'[k].owner
             /\ receipts[k].owner \notin ended
    <3>1. \/ \E c \in Calls : receipts[k].owner = c /\ CallClaims(c, k)
          \/ \E a \in Attempts, i \in Nat :
               receipts[k].owner = MemberClaim(a, i) /\ MemberClaims(a, i, k)
      BY <1>1, <2>1 DEF Match
    <3>2. QED
      BY <2>1, <3>1
  <2>2. QED
    BY <1>1, <2>1
<1>2. ASSUME NEW c \in Calls, NEW k \in Keys, CallClaims(c, k)' PROVE Held(k, c)'
  BY <1>2 DEF Match
<1>3. ASSUME NEW a \in Attempts, NEW i \in Nat, NEW k \in Keys, MemberClaims(a, i, k)'
      PROVE  Held(k, MemberClaim(a, i))'
  BY <1>3 DEF Match
<1>4. QED
  BY <1>1, <1>2, <1>3 DEF Match, MemberClaim

LEMMA MatchPresent ==
  ASSUME IInv, Match, NEW c \in Calls, NEW key \in Keys, NEW r, Present(c, key, r),
         calls[c].phase # "owned", UNCHANGED attempts
  PROVE  Match'
<1>1. /\ calls = [d \in Calls |-> calls[d]]
      /\ \A d \in Calls : ~(d = c /\ calls[d].phase = "owned")
  BY DEF IInv, CallerShapes
<1>2. CASE /\ key \notin DOMAIN receipts
           /\ receipts' = Put(receipts, key, NewRow(r, <<>>, c, None))
           /\ calls' = [calls EXCEPT ![c] = InPhase("owned", key, r)]
  <2>1. /\ DOMAIN receipts' = DOMAIN receipts \cup {key}
        /\ receipts'[key].owner = c
        /\ \A k \in DOMAIN receipts : receipts'[k] = receipts[k]
    BY <1>2 DEF Put, NewRow
  <2>2. /\ calls'[c].phase = "owned" /\ calls'[c].key = key
        /\ \A d \in Calls \ {c} : calls'[d] = calls[d]
    BY <1>1, <1>2 DEF InPhase
  <2>3. \A k, claim : Held(k, claim) => Held(k, claim)'
    BY <2>1 DEF Held
  <2>4. \A a \in Attempts, i \in Nat : \A k : MemberClaims(a, i, k)' <=> MemberClaims(a, i, k)
    BY DEF MemberClaims, Active
  <2>5. \A d \in Calls \ {c} : \A k : CallClaims(d, k)' <=> CallClaims(d, k)
    BY <2>2 DEF CallClaims
  <2>6. Held(key, c)' /\ CallClaims(c, key)' /\ \A k : CallClaims(c, k)' => k = key
    BY <2>1, <2>2, ClaimsDiffer DEF Held, CallClaims
  <2>7. \A k : ~CallClaims(c, k)
    BY DEF CallClaims
  <2>8. \A k \in DOMAIN receipts' : \/ k \in DOMAIN receipts /\ receipts[k].owner = receipts'[k].owner
                                    \/ k = key /\ receipts'[k].owner = c
    BY <2>1
  <2>9. Ends({})
    BY <2>3, <2>4, <2>5, <2>6, <2>7, <2>8 DEF Ends
  <2>10. QED
    BY <2>9, MatchStep
<1>3. CASE UNCHANGED receipts /\ \E new : new.phase # "owned" /\ calls' = [calls EXCEPT ![c] = new]
  <2>1. \A d \in Calls : \A k : CallClaims(d, k)' <=> CallClaims(d, k)
    BY <1>1, <1>3 DEF CallClaims
  <2>2. \A a \in Attempts, i \in Nat : \A k : MemberClaims(a, i, k)' <=> MemberClaims(a, i, k)
    BY DEF MemberClaims, Active
  <2>3. QED
    BY <1>3, <2>1, <2>2 DEF Match, Held
<1>4. QED
  BY <1>2, <1>3 DEF Present, InPhase, Finished

LEMMA MatchEnds ==
  ASSUME IInv, Match, NEW c \in Calls, calls[c].phase = "owned",
         calls' = [calls EXCEPT ![c] = Finished], UNCHANGED attempts,
         \A k \in DOMAIN receipts' :
           (k \in DOMAIN receipts /\ receipts'[k] = receipts[k]) \/ receipts'[k].owner = None,
         \A k \in DOMAIN receipts \ {calls[c].key} : k \in DOMAIN receipts' /\ receipts'[k] = receipts[k],
         calls[c].key \notin DOMAIN receipts' \/ receipts'[calls[c].key].owner = None
  PROVE  Match'
<1>1. calls = [d \in Calls |-> calls[d]] /\ calls[c].key \in Keys /\ CallFits(calls[c])
  BY DEF IInv, CallerShapes, CallFits
<1>2. calls'[c].phase # "owned" /\ \A d \in Calls \ {c} : calls'[d] = calls[d]
  BY <1>1 DEF Finished, InPhase
<1>3. Held(calls[c].key, c)
  BY <1>1 DEF Match, CallClaims
<1>4. \A k, claim : Held(k, claim) /\ claim # c => Held(k, claim)'
  BY <1>3 DEF Held
<1>5. \A a \in Attempts, i \in Nat : \A k : MemberClaims(a, i, k)' <=> MemberClaims(a, i, k)
  BY DEF MemberClaims, Active
<1>6. /\ \A d \in Calls \ {c} : \A k : CallClaims(d, k)' <=> CallClaims(d, k)
      /\ \A k : ~CallClaims(c, k)'
  BY <1>2 DEF CallClaims
<1>7. \A k \in DOMAIN receipts' : receipts'[k].owner # None =>
        /\ k \in DOMAIN receipts /\ receipts[k].owner = receipts'[k].owner
        /\ receipts[k].owner # c
  <2>1. ASSUME NEW k \in DOMAIN receipts', receipts'[k].owner # None
        PROVE  /\ k \in DOMAIN receipts /\ receipts[k].owner = receipts'[k].owner
               /\ receipts[k].owner # c
    <3>1. k \in DOMAIN receipts /\ receipts'[k] = receipts[k] /\ k # calls[c].key
      BY <2>1
    <3>2. ASSUME receipts[k].owner = c PROVE FALSE
      <4>1. \/ \E d \in Calls : c = d /\ CallClaims(d, k)
            \/ \E a \in Attempts, i \in Nat : c = MemberClaim(a, i)
        BY <2>1, <3>1, <3>2 DEF Match
      <4>2. CallClaims(c, k)
        BY <4>1, ClaimsDiffer
      <4>3. QED
        BY <3>1, <4>2 DEF CallClaims
    <3>3. QED
      BY <3>1, <3>2
  <2>2. QED
    BY <2>1
<1>8. \A a \in Attempts, i \in Nat : MemberClaim(a, i) \notin {c}
  BY ClaimsDiffer
<1>9. Ends({c})
  BY <1>4, <1>5, <1>6, <1>7, <1>8 DEF Ends
<1>10. QED
  BY <1>9, MatchStep

LEMMA MatchAdmit ==
  ASSUME IInv, Match, NEW a \in Attempts, AdmitSequence(a) PROVE Match'
<1>1. PICK p \in Programs : AdmittedAs(a, p)
  BY AdmitHolds DEF IInv
<1>2. /\ \A k \in DOMAIN receipts : k \in DOMAIN receipts' /\ receipts'[k] = receipts[k]
      /\ DOMAIN receipts' = DOMAIN receipts \cup {p[i].key : i \in attempts'[a].owned}
      /\ \A b \in Attempts \ {a} : attempts'[b] = attempts[b]
      /\ attempts'[a].phase = "active" /\ attempts'[a].program = p /\ attempts'[a].next = 1
      /\ attempts'[a].owned = {i \in 1..Len(p) : p[i].key \notin DOMAIN receipts}
  BY <1>1 DEF AdmittedAs
<1>3. UNCHANGED calls /\ ~Active(a)
  BY DEF AdmitSequence, Active
<1>4. ASSUME NEW i \in attempts'[a].owned
      PROVE  /\ i \in Nat /\ i >= 1 /\ p[i].key \in DOMAIN receipts'
             /\ receipts'[p[i].key].owner = MemberClaim(a, i)
             /\ MemberClaims(a, i, p[i].key)'
  <2>1. i \in Nat /\ i >= 1
    BY <1>2, <1>4, ProgramHolds
  <2>2. receipts'[p[i].key] = NewRow(p[i].request, Supplied(p), MemberClaim(a, i),
                                     IF Deferred(p[i].request) THEN a ELSE None)
    BY <1>1, <1>4 DEF AdmittedAs
  <2>3. receipts'[p[i].key].owner = MemberClaim(a, i)
    BY <2>2 DEF NewRow
  <2>4. MemberClaims(a, i, p[i].key)'
    BY <1>2, <1>4, <2>1 DEF MemberClaims, Active
  <2>5. QED
    BY <1>2, <1>4, <2>1, <2>3, <2>4
<1>5. \A c \in Calls : \A k : CallClaims(c, k)' <=> CallClaims(c, k)
  BY <1>3 DEF CallClaims
<1>6. \A b \in Attempts \ {a}, i \in Nat : \A k : MemberClaims(b, i, k)' <=> MemberClaims(b, i, k)
  BY <1>2 DEF MemberClaims, Active
<1>7. \A i, k : ~MemberClaims(a, i, k)
  BY <1>3 DEF MemberClaims
<1>8. \A i \in Nat : \A k : MemberClaims(a, i, k)' => Held(k, MemberClaim(a, i))'
  BY <1>2, <1>4, ClaimsDiffer DEF MemberClaims, Held
<1>9. \A k, claim : Held(k, claim) => Held(k, claim)'
  BY <1>2 DEF Held
<1>10. \A k \in DOMAIN receipts' : \/ k \in DOMAIN receipts /\ receipts[k].owner = receipts'[k].owner
                                   \/ \E i \in Nat : receipts'[k].owner = MemberClaim(a, i)
                                                       /\ MemberClaims(a, i, k)'
  BY <1>2, <1>4
<1>11. Ends({})
  BY <1>5, <1>6, <1>7, <1>8, <1>9, <1>10 DEF Ends
<1>12. QED
  BY <1>11, MatchStep

LEMMA MatchTurn ==
  ASSUME IInv, Match, NEW a \in Attempts, Turn(a) PROVE Match'
<1>1. Active(a) /\ mode = "open" /\ UNCHANGED calls /\ CallerShapes
  BY DEF Turn, IInv
<1>2. PICK fact : EndTurn(a, fact)
  BY DEF Turn, TransientTurn, AnsweredTurn, ExecutedTurn
<1> DEFINE n == attempts[a].next
           p == attempts[a].program
           claim == MemberClaim(a, n)
<1>3. /\ \A b \in Attempts \ {a} : attempts'[b] = attempts[b]
      /\ attempts'[a].program = p /\ attempts'[a].owned = attempts[a].owned
      /\ attempts'[a].next = n + 1
      /\ attempts'[a].phase = IF Done(a) THEN "done" ELSE "active"
  BY <1>1, <1>2, EndTurnHolds
<1>4. /\ p \in Programs /\ n \in 1..Len(p) /\ attempts[a].owned \subseteq 1..Len(p)
      /\ Member(a) = p[n] /\ p[n].key \in Keys /\ Len(p) \in Nat /\ n \in Nat
  BY <1>1, ActiveHolds
<1>5. /\ \A k \in DOMAIN receipts \ {p[n].key} : k \in DOMAIN receipts' /\ receipts'[k] = receipts[k]
      /\ \A k \in DOMAIN receipts' \ {p[n].key} : k \in DOMAIN receipts
      /\ \/ UNCHANGED receipts /\ ~Owns(a)
         \/ p[n].key \notin DOMAIN receipts'
         \/ receipts'[p[n].key].owner = None
      /\ Owns(a) \/ UNCHANGED receipts \/ p[n].key \notin DOMAIN receipts
  <2>1. CASE TransientTurn(a)
    BY <1>4, <2>1 DEF TransientTurn, Dropped, Restrict
  <2>2. CASE AnsweredTurn(a)
    BY <2>2 DEF AnsweredTurn
  <2>3. CASE ExecutedTurn(a)
    <3>1. PICK outcome : Finishes(Member(a).key, TurnRow(a), outcome)
      BY <1>1, <2>3, ExecutedRows
    <3>2. /\ DOMAIN receipts' = DOMAIN receipts \cup {p[n].key}
          /\ \A k \in DOMAIN receipts \ {p[n].key} : receipts'[k] = receipts[k]
          /\ receipts'[p[n].key].owner = None
      BY <1>4, <3>1, FinishRow DEF Final
    <3>3. Owns(a) \/ p[n].key \notin DOMAIN receipts
      BY <1>4, <2>3 DEF ExecutedTurn
    <3>4. QED
      BY <3>2, <3>3
  <2>4. QED
    BY <2>1, <2>2, <2>3 DEF Turn
<1>6. Owns(a) => Held(p[n].key, claim)
  BY <1>1, <1>4 DEF Match, MemberClaims, Owns
<1>7. \A k, any : Held(k, any) /\ any # claim => Held(k, any)'
  BY <1>5, <1>6 DEF Held
<1>8. \A c \in Calls : \A k : CallClaims(c, k)' <=> CallClaims(c, k)
  BY <1>1 DEF CallClaims
<1>9. \A b \in Attempts \ {a}, i \in Nat : \A k : MemberClaims(b, i, k)' <=> MemberClaims(b, i, k)
  BY <1>3 DEF MemberClaims, Active
<1>10. \A i \in Nat : \A k : MemberClaims(a, i, k)' <=> MemberClaims(a, i, k) /\ i # n
  <2>1. Done(a) => \A i \in attempts[a].owned : i >= n => i = n
    BY <1>4 DEF Done
  <2>2. \A i \in Nat : i >= n + 1 <=> i >= n /\ i # n
    BY <1>4
  <2> HIDE DEF n, p
  <2>3. CASE Done(a)
    BY <1>1, <1>3, <2>1, <2>3 DEF MemberClaims, Active, n
  <2>4. CASE ~Done(a)
    BY <1>1, <1>3, <2>2, <2>4 DEF MemberClaims, Active, n, p
  <2>5. QED
    BY <2>3, <2>4
<1>11. \A k \in DOMAIN receipts' : receipts'[k].owner # None =>
         k \in DOMAIN receipts /\ receipts[k].owner = receipts'[k].owner /\ receipts[k].owner # claim
  <2>1. SUFFICES ASSUME NEW k \in DOMAIN receipts', receipts'[k].owner # None
                 PROVE  k \in DOMAIN receipts /\ receipts[k].owner = receipts'[k].owner
                          /\ receipts[k].owner # claim
    OBVIOUS
  <2>2. k \in DOMAIN receipts /\ receipts[k] = receipts'[k]
    BY <1>5, <2>1
  <2>3. ASSUME receipts[k].owner = claim PROVE FALSE
    <3>1. \/ \E c \in Calls : claim = c
          \/ \E b \in Attempts, i \in Nat : claim = MemberClaim(b, i) /\ MemberClaims(b, i, k)
      BY <2>1, <2>2, <2>3 DEF Match
    <3>2. MemberClaims(a, n, k)
      BY <1>4, <3>1, ClaimsDiffer
    <3>3. Owns(a) /\ k = p[n].key
      BY <3>2 DEF MemberClaims, Owns
    <3>4. QED
      BY <1>5, <2>1, <3>3
  <2>4. QED
    BY <2>2, <2>3
<1>12. \A c \in Calls : c # claim
  BY <1>4, ClaimsDiffer
<1>13. \A b \in Attempts, i \in Nat : MemberClaim(b, i) = claim => b = a /\ i = n
  BY ClaimsDiffer
<1> HIDE DEF claim, n, p
<1>14. \A i \in Nat : i # n => MemberClaim(a, i) # claim
  BY <1>13
<1>15. \A b \in Attempts \ {a}, i \in Nat : MemberClaim(b, i) # claim
  BY <1>13
<1>16. MemberClaim(a, n) = claim
  BY DEF claim
<1>17. Ends({claim})
  BY <1>7, <1>8, <1>9, <1>10, <1>11, <1>12, <1>14, <1>15, <1>16 DEF Ends
<1>18. QED
  BY <1>17, MatchStep

LEMMA MatchCancel ==
  ASSUME IInv, Match, NEW a \in Attempts, Cancel(a) PROVE Match'
<1> DEFINE ended == {MemberClaim(a, i) : i \in Nat}
<1>1. /\ DOMAIN receipts' = {k \in DOMAIN receipts :
              \A i \in attempts[a].owned : receipts[k].owner # MemberClaim(a, i)}
      /\ \A k \in DOMAIN receipts' : receipts'[k] = receipts[k]
      /\ attempts'[a].phase = "done"
      /\ \A b \in Attempts \ {a} : attempts'[b] = attempts[b]
  BY CancelHolds DEF IInv
<1>2. UNCHANGED calls /\ Active(a) /\ CallerShapes
  BY DEF Cancel, IInv
<1>3. attempts[a].owned \subseteq Nat
  BY <1>2, ActiveHolds
<1>4. \A c \in Calls : \A k : CallClaims(c, k)' <=> CallClaims(c, k)
  BY <1>2 DEF CallClaims
<1>5. \A b \in Attempts \ {a}, i \in Nat : \A k : MemberClaims(b, i, k)' <=> MemberClaims(b, i, k)
  BY <1>1 DEF MemberClaims, Active
<1>6. \A i \in Nat : \A k : ~MemberClaims(a, i, k)'
  BY <1>1 DEF MemberClaims, Active
<1>7. \A k, claim : Held(k, claim) /\ claim \notin ended => Held(k, claim)'
  BY <1>1, <1>3 DEF Held
<1>8. \A c \in Calls : c \notin ended
  BY ClaimsDiffer
<1>9. \A b \in Attempts \ {a}, i \in Nat : MemberClaim(b, i) \notin ended
  BY ClaimsDiffer
<1>10. ASSUME NEW k \in DOMAIN receipts', receipts'[k].owner # None
       PROVE  k \in DOMAIN receipts /\ receipts[k].owner = receipts'[k].owner
                /\ receipts[k].owner \notin ended
  <2>1. k \in DOMAIN receipts /\ receipts'[k] = receipts[k]
    BY <1>1, <1>10
  <2>2. ASSUME NEW i \in Nat, receipts[k].owner = MemberClaim(a, i) PROVE FALSE
    <3>1. \/ \E c \in Calls : MemberClaim(a, i) = c
          \/ \E b \in Attempts, j \in Nat :
               MemberClaim(a, i) = MemberClaim(b, j) /\ MemberClaims(b, j, k)
      BY <1>10, <2>1, <2>2 DEF Match
    <3>2. MemberClaims(a, i, k)
      BY <3>1, ClaimsDiffer
    <3>3. QED
      BY <1>1, <1>10, <2>2, <3>2 DEF MemberClaims
  <2>3. QED
    BY <2>1, <2>2
<1> HIDE DEF ended
<1>11. \A i \in Nat : MemberClaim(a, i) \in ended
  BY DEF ended
<1>12. Ends(ended)
  BY <1>4, <1>5, <1>6, <1>7, <1>8, <1>9, <1>10, <1>11 DEF Ends
<1>13. QED
  BY <1>12, MatchStep

LEMMA ClaimsHold == ASSUME IInv, [Next]_vars PROVE ClaimsMatchReceipts'
<1>1. CallerShapes' /\ TypeOK' /\ CallerShapes /\ TypeOK
  BY CallersHold, TypeHolds DEF IInv
<1>2. Match' => ClaimsMatchReceipts'
  <2>1. ASSUME NEW k \in DOMAIN receipts', Pending(k)', Match' PROVE Claimed(receipts[k].owner, k)'
    BY <2>1 DEF Match, Claimed, CallClaims, MemberClaims, Pending
  <2>2. ASSUME NEW c \in Calls, calls'[c].phase = "owned", Match'
        PROVE  Pending(calls[c].key)' /\ receipts'[calls'[c].key].owner = c
    <3>1. calls'[c].key \in Keys
      BY <1>1, <2>2 DEF CallerShapes, CallFits
    <3>2. QED
      BY <2>2, <3>1, ClaimsDiffer DEF Match, CallClaims, Held, Pending
  <2>3. ASSUME NEW a \in Attempts, Active(a)', NEW i \in attempts'[a].owned,
               i >= attempts'[a].next, Match', NEW key, key = attempts'[a].program[i].key
        PROVE  Pending(key)' /\ receipts'[key].owner = MemberClaim(a, i)
    <3>1. attempts'[a].program \in Programs /\ i \in 1..Len(attempts'[a].program)
      BY <1>1, <2>3 DEF CallerShapes, AttemptFits, Active
    <3>2. i \in Nat /\ key \in Keys
      BY <2>3, <3>1, ProgramHolds
    <3>3. MemberClaims(a, i, key)'
      BY <2>3 DEF MemberClaims
    <3>4. Held(key, MemberClaim(a, i))'
      BY <2>3, <3>2, <3>3 DEF Match, MemberClaim
    <3>5. QED
      BY <3>4 DEF Held, Pending, MemberClaim
  <2>4. QED
    BY <2>1, <2>2, <2>3 DEF ClaimsMatchReceipts, MemberClaim
<1>3. mode = "open" => Match
  BY <1>1, MatchIsClaims DEF IInv
<1>4. CASE Open
  <2>1. \A k \in DOMAIN receipts' : ~Pending(k)'
    <3>1. receipts' = Dropped({k \in DOMAIN receipts : Pending(k)})
      BY <1>4 DEF Open
    <3>2. /\ DOMAIN receipts' = DOMAIN receipts \ {k \in DOMAIN receipts : Pending(k)}
          /\ \A k \in DOMAIN receipts' : receipts'[k] = receipts[k]
      BY <3>1, DroppedHolds
    <3>3. QED
      BY <3>2 DEF Pending
  <2>2. \A c \in Calls : calls'[c].phase # "owned"
    BY <1>4 DEF Open, Finished, InPhase
  <2>3. \A a \in Attempts : ~Active(a)'
    BY <1>1, <1>4 DEF Open, Active, CallerShapes, AttemptFits
  <2>4. Match'
    BY <2>1, <2>2, <2>3 DEF Match, CallClaims, MemberClaims, Pending
  <2>5. QED
    BY <1>2, <2>4
<1>5. CASE Stop
  BY <1>5 DEF Stop, ClaimsMatchReceipts
<1>6. ASSUME mode = "open" /\ Match, ~Open, ~Stop PROVE Match'
  <2>1. ASSUME NEW c \in Calls, Submit(c) PROVE Match'
    <3>1. PICK s \in Submissions : Present(c, s.key, s.request)
      BY <2>1 DEF Submit
    <3>2. s.key \in Keys
      BY SubmissionsAssumption
    <3>3. QED
      BY <1>6, <2>1, <3>1, <3>2, MatchPresent DEF Submit
  <2>2. ASSUME NEW c \in Calls, calls[c].phase = "comparing", UNCHANGED <<receipts, attempts>>,
               calls' = [calls EXCEPT ![c] = Finished]
        PROVE  Match'
    <3>1. \A d \in Calls : \A k : CallClaims(d, k)' <=> CallClaims(d, k)
      BY <1>1, <2>2 DEF CallClaims, CallerShapes, Finished, InPhase
    <3>2. \A a \in Attempts, i \in Nat : \A k : MemberClaims(a, i, k)' <=> MemberClaims(a, i, k)
      BY <2>2 DEF MemberClaims, Active
    <3>3. QED
      BY <1>6, <2>2, <3>1, <3>2 DEF Match, Held
  <2>3. ASSUME NEW c \in Calls, Poll(c) PROVE Match'
    <3>1. calls[c].phase = "comparing" /\ CallFits(calls[c]) /\ UNCHANGED attempts
      BY <1>1, <2>3 DEF Poll, CallerShapes
    <3>2. CASE Present(c, calls[c].key, calls[c].request)
      BY <1>6, <3>1, <3>2, MatchPresent DEF CallFits
    <3>3. QED
      BY <2>2, <2>3, <3>1, <3>2 DEF Poll
  <2>4. ASSUME NEW c \in Calls, Deadline(c) PROVE Match'
    BY <2>2, <2>4 DEF Deadline, durable
  <2>5. ASSUME NEW c \in Calls, Execute(c) PROVE Match'
    <3>1. PICK outcome : Finish(calls[c].key, receipts[calls[c].key], outcome)
      BY <2>5 DEF Execute
    <3>2. outcome \in {"failed", "noop", "effective"}
      BY <3>1 DEF Finish, Outcomes
    <3>3. Finishes(calls[c].key, receipts[calls[c].key], outcome)
      BY <1>6, <2>5, <3>1, <3>2, OwnedCall DEF Finishes, Execute
    <3>4. /\ DOMAIN receipts' = DOMAIN receipts \cup {calls[c].key}
          /\ \A k \in DOMAIN receipts \ {calls[c].key} : receipts'[k] = receipts[k]
          /\ receipts'[calls[c].key].owner = None
      BY <3>3, FinishRow DEF Final
    <3>5. QED
      BY <1>6, <2>5, <3>4, MatchEnds DEF Execute
  <2>6. ASSUME NEW c \in Calls, FailExecution(c) PROVE Match'
    <3>1. /\ DOMAIN receipts' = DOMAIN receipts \ {calls[c].key}
          /\ \A k \in DOMAIN receipts' : receipts'[k] = receipts[k]
      BY <2>6, DroppedHolds DEF FailExecution
    <3>2. QED
      BY <1>6, <2>6, <3>1, MatchEnds DEF FailExecution
  <2>7. ASSUME Sweep PROVE Match'
    <3>1. SweepStep /\ UNCHANGED <<calls, attempts>>
      BY <2>7 DEF Sweep, SweepStep
    <3>2. \A k \in DOMAIN receipts' : k \in DOMAIN receipts /\ receipts'[k].owner = receipts[k].owner
      BY <3>1, SweptRow
    <3>3. \A k \in DOMAIN receipts : receipts[k].owner # None => k \in DOMAIN receipts'
      <4>1. \A k \in DOMAIN receipts : receipts[k].owner # None => receipts[k].state = "pending"
        BY DEF IInv, TypeOK
      <4>2. QED
        BY <3>1, <4>1 DEF SweepStep
    <3>4. /\ \A c \in Calls : \A k : CallClaims(c, k)' <=> CallClaims(c, k)
          /\ \A a \in Attempts, i \in Nat : \A k : MemberClaims(a, i, k)' <=> MemberClaims(a, i, k)
      BY <3>1 DEF CallClaims, MemberClaims, Active
    <3>5. \A k, claim : Held(k, claim) => Held(k, claim)'
      BY <3>2, <3>3 DEF Held
    <3>6. Ends({})
      BY <3>2, <3>4, <3>5 DEF Ends
    <3>7. QED
      BY <1>6, <3>6, MatchStep
  <2>8. ASSUME UNCHANGED <<receipts, calls, attempts>> PROVE Match'
    BY <1>6, <2>8 DEF Match, CallClaims, MemberClaims, Active, Held
  <2>9. QED
    BY <1>6, <2>1, <2>3, <2>4, <2>5, <2>6, <2>7, <2>8, MatchAdmit, MatchTurn,
       MatchCancel DEF Next, Pause, Publish, Resume, vars, durable
<1>7. CASE mode # "open"
  <2>1. Open \/ UNCHANGED vars
    BY <1>7 DEF Next, Submit, Poll, Deadline, Execute, FailExecution, AdmitSequence, Turn, Cancel,
       Sweep, Pause, Publish, Resume, Stop
  <2>2. QED
    BY <1>4, <1>7, <2>1 DEF vars, ClaimsMatchReceipts
<1>8. QED
  BY <1>2, <1>3, <1>4, <1>5, <1>6, <1>7

-----------------------------------------------------------------------------
(* The theorems. *)

LEMMA InitHolds == ASSUME Init PROVE IInv
<1>1. DOMAIN receipts = {} /\ DOMAIN facts = {} /\ DOMAIN aliases = {}
  BY DEF Init, NoRow
<1>2. \A a \in Attempts : attempts[a].phase = "new" /\ ~Active(a)
  BY DEF Init, Active
<1>3. \A c \in Calls : calls[c].phase = "new"
  BY DEF Init, InPhase
<1>4. RowShapes
  BY <1>1 DEF Init, NoRow, RowShapes
<1>5. CallerShapes
  <2>1. facts = [f \in DOMAIN facts |-> facts[f]]
    BY DEF Init, NoRow
  <2>2. \A c \in Calls : CallFits(calls[c])
    BY DEF Init, CallFits, InPhase
  <2>3. \A a \in Attempts : AttemptFits(attempts[a])
    BY DEF Init, AttemptFits
  <2>4. calls = [c \in Calls |-> calls[c]] /\ attempts = [a \in Attempts |-> attempts[a]]
    BY DEF Init
  <2>5. QED
    BY <2>1, <2>2, <2>3, <2>4 DEF CallerShapes
<1>6. TypeOK
  BY <1>1 DEF Init, TypeOK, Range
<1>7. UnresolvedHasTurn /\ RowHasTransaction /\ BoundToCreator
  BY <1>1 DEF UnresolvedHasTurn, RowHasTransaction, BoundToCreator
<1>8. ClaimsMatchReceipts
  BY <1>1, <1>2, <1>3 DEF ClaimsMatchReceipts
<1>9. DeferredHasFacts /\ FactsAreAllocations
  BY <1>1, <1>2 DEF DeferredHasFacts, FactsAreAllocations
<1>10. GroupsHaveReceipts /\ PolicyLeavesNothing
  BY DEF Init, GroupsHaveReceipts, PolicyLeavesNothing
<1>11. QED
  BY <1>4, <1>5, <1>6, <1>7, <1>8, <1>9, <1>10 DEF IInv

LEMMA StepHolds == ASSUME IInv, [Next]_vars PROVE IInv'
<1>1. RowShapes' /\ CallerShapes' /\ TypeOK'
  BY RowsHold, CallersHold, TypeHolds DEF RowInv
<1>2. UnresolvedHasTurn' /\ RowHasTransaction' /\ ClaimsMatchReceipts'
  BY UnresolvedHolds, RowHasTransactionHolds, ClaimsHold
<1>3. FactsAreAllocations' /\ DeferredHasFacts' /\ BoundToCreator'
  BY FactsHold, BoundHolds
<1>4. GroupsHaveReceipts' /\ PolicyLeavesNothing'
  BY GroupsHold, PolicyHolds
<1>5. QED
  BY <1>1, <1>2, <1>3, <1>4 DEF IInv

\* The invariant of the transactional authority, through admissions, comparisons,
\* executions, turns, cancellations, expiry, policy publication, stops and startups.
THEOREM Invariance == Spec => []IInv
<1>1. Init => IInv
  BY InitHolds
<1>2. IInv /\ [Next]_vars => IInv'
  BY StepHolds
<1>3. QED
  BY <1>1, <1>2, PTL DEF Spec

\* While the owner is up a receipt is pending exactly while the call or the sequence
\* that owns it will still come to it, and the facts of its creators are there then:
\* admitKey, executeClaim, cancelSequence and the startup leave no key stuck and take
\* no other's.
THEOREM Reservations == Spec => []ReservationsAreOwned
<1>1. IInv => ReservationsAreOwned
  BY DEF IInv, ReservationsAreOwned
<1>2. QED
  BY <1>1, Invariance, PTL

\* Each change group has the receipt of its transaction, with its position, and a
\* dependent that took effect used the Resource its creator's key stands for: nothing
\* that retries, expires or is forgotten loses, repeats or rebinds an effect.
THEOREM Effects == Spec => []EffectsAreTold
<1>1. IInv => EffectsAreTold
  BY DEF IInv, EffectsAreTold
<1>2. QED
  BY <1>1, Invariance, PTL

\* Once the new policy is published (replaceAuthorizationPolicy) no step of any caller,
\* sequence, restart or sweep admits a key or adds a change group.
THEOREM Policy == Spec => PolicyIsFinal
<1> DEFINE Final1 ==
       generation = 1 =>
         /\ generation' = 1
         /\ groups' = groups /\ aliases' = aliases
         /\ \A k \in DOMAIN receipts' : k \in DOMAIN receipts /\ ~Pending(k)
<1>1. IInv /\ [Next]_vars => [Final1]_vars
  <2>1. SUFFICES ASSUME IInv, [Next]_vars, generation = 1 PROVE Final1
    OBVIOUS
  <2>2. /\ \A c \in Calls : calls[c].phase \notin {"owned", "comparing"}
        /\ \A a \in Attempts : ~Active(a)
        /\ \A k \in DOMAIN receipts : ~Pending(k)
    BY <2>1 DEF IInv, PolicyLeavesNothing
  <2>3. ~Admitting
    BY <2>1 DEF Admitting
  <2>4. ~FinishStep
    BY <2>2 DEF FinishStep, ExecutesCall, Execute, ExecutesTurn
  <2>5. ~ReserveStep
    BY <2>2, <2>3 DEF ReserveStep, Submit, Poll, AdmitSequence
  <2>6. CASE KeepStep \/ PublishStep
    BY <2>1, <2>2, <2>6 DEF KeepStep, PublishStep
  <2>7. CASE DropStep
    BY <2>1, <2>2, <2>7, DropHolds DEF DropStep
  <2>8. CASE SweepStep
    BY <2>1, <2>2, <2>8, SweptRow DEF SweepStep
  <2>9. QED
    BY <2>1, <2>4, <2>5, <2>6, <2>7, <2>8, StepRows
<1>2. QED
  BY <1>1, Invariance, PTL DEF Spec, PolicyIsFinal

-----------------------------------------------------------------------------
(* The receipts implement the ledger. *)

LHeld == RowsIn({"pending"})
LFinal == [k \in RowsIn({"completed", "expired"}) |-> EffectOf(receipts[k])]
LFailed == [k \in RowsIn({"failed"}) |-> receipts[k].transaction]
LTold == {<<t.key, EffectOf(t)>> : t \in
            {t \in told : t.verdict = "receipt" /\ t.state \in {"completed", "expired"}}}

\* What an answer says is what its row did.
LEMMA TellsRow ==
  ASSUME NEW key, NEW original, NEW presented, NEW verdict, NEW row,
         told' = told \cup {Answer(key, original, presented, verdict, row)}
  PROVE  LTold' = IF verdict = "receipt" /\ row.state \in {"completed", "expired"}
                  THEN LTold \cup {<<key, EffectOf(row)>>} ELSE LTold
<1> DEFINE t == Answer(key, original, presented, verdict, row)
<1>1. /\ t.key = key /\ EffectOf(t) = EffectOf(row)
      /\ t.verdict = verdict /\ t.state = row.state
  BY DEF Answer, EffectOf
<1> HIDE DEF t
<1>2. told' = told \cup {t}
  BY DEF t
<1>3. QED
  BY <1>1, <1>2 DEF LTold

\* A step that executes nothing answers from a row that is there, and stays.
LEMMA AnswersFromRows ==
  ASSUME IInv, [Next]_vars, ~FinishStep
  PROVE  \/ told' = told
         \/ /\ receipts' = receipts
            /\ \E key \in DOMAIN receipts : \E original, presented, verdict :
                 told' = told \cup {Answer(key, original, presented, verdict, receipts[key])}
<1> DEFINE Goal == \/ told' = told
                   \/ /\ receipts' = receipts
                      /\ \E key \in DOMAIN receipts : \E original, presented, verdict :
                           told' = told \cup {Answer(key, original, presented, verdict, receipts[key])}
<1>1. ASSUME NEW c, NEW key, NEW r, Present(c, key, r) PROVE Goal
  BY <1>1 DEF Present
<1>2. ASSUME NEW c \in Calls, Submit(c) PROVE Goal
  BY <1>1, <1>2 DEF Submit
<1>3. ASSUME NEW c \in Calls, Poll(c) PROVE Goal
  BY <1>1, <1>3 DEF Poll
<1>4. ASSUME NEW c \in Calls, Execute(c) PROVE Goal
  BY <1>4, ExecuteRows
<1>5. ASSUME NEW a \in Attempts, Turn(a) PROVE Goal
  <2>1. ~ExecutedTurn(a)
    BY <1>5, ExecutedRows DEF Turn, FinishStep, ExecutesTurn
  <2>2. CASE TransientTurn(a)
    BY <2>2 DEF TransientTurn
  <2>3. CASE AnsweredTurn(a)
    <3>1. PICK original, presented, verdict :
            told' = told \cup {Answer(Member(a).key, original, presented, verdict,
                                      receipts[Member(a).key])}
      BY <2>3 DEF AnsweredTurn
    <3>2. QED
      BY <2>3, <3>1 DEF AnsweredTurn
  <2>4. QED
    BY <1>5, <2>1, <2>2, <2>3 DEF Turn
<1>6. \/ \E c \in Calls : Submit(c) \/ Poll(c) \/ Execute(c)
      \/ \E a \in Attempts : Turn(a)
      \/ told' = told
  BY DEF Next, Deadline, FailExecution, AdmitSequence, Cancel, Sweep, Pause, Publish, Resume,
     Stop, Open, vars
<1>7. QED
  BY <1>2, <1>3, <1>4, <1>5, <1>6

LEMMA LedgerRows ==
  ASSUME IInv
  PROVE  /\ LHeld \subseteq Keys
         /\ \A k : k \in LHeld <=> k \in DOMAIN receipts /\ receipts[k].state = "pending"
         /\ \A k : k \in DOMAIN LFinal <=> k \in DOMAIN receipts /\ IsDecided(receipts[k])
         /\ \A k : k \in DOMAIN LFailed <=> k \in DOMAIN receipts /\ receipts[k].state = "failed"
         /\ \A k \in DOMAIN LFinal : LFinal[k] = EffectOf(receipts[k])
         /\ \A k \in DOMAIN LFailed : LFailed[k] = receipts[k].transaction
         /\ \A k \in DOMAIN receipts :
              k \in LHeld \/ k \in DOMAIN LFinal \/ k \in DOMAIN LFailed
BY DEF IInv, TypeOK, States, LHeld, LFinal, LFailed, RowsIn, IsDecided

LEMMA SameTables ==
  ASSUME receipts' = receipts
  PROVE  LHeld' = LHeld /\ LFinal' = LFinal /\ LFailed' = LFailed
BY DEF LHeld, LFinal, LFailed, RowsIn

LEMMA SameFinal ==
  ASSUME DOMAIN LFinal' = DOMAIN LFinal, \A k \in DOMAIN LFinal : LFinal'[k] = LFinal[k]
  PROVE  LFinal' = LFinal
BY DEF LFinal

LEMMA SameFailed ==
  ASSUME DOMAIN LFailed' = DOMAIN LFailed, \A k \in DOMAIN LFailed : LFailed'[k] = LFailed[k]
  PROVE  LFailed' = LFailed
BY DEF LFailed

LEMMA NextLedgerRows ==
  ASSUME IInv'
  PROVE  /\ LHeld' \subseteq Keys
         /\ \A k : k \in LHeld' <=> k \in DOMAIN receipts' /\ receipts'[k].state = "pending"
         /\ \A k : k \in DOMAIN LFinal' <=> k \in DOMAIN receipts' /\ IsDecided(receipts'[k])
         /\ \A k : k \in DOMAIN LFailed' <=>
              k \in DOMAIN receipts' /\ receipts'[k].state = "failed"
         /\ \A k \in DOMAIN LFinal' : LFinal'[k] = EffectOf(receipts'[k])
         /\ \A k \in DOMAIN LFailed' : LFailed'[k] = receipts'[k].transaction
<1>1. DOMAIN receipts' \subseteq Keys
  BY DEF IInv, TypeOK
<1>2. QED
  BY <1>1 DEF LHeld, LFinal, LFailed, RowsIn, IsDecided

\* What was decided is decided in the same way.
LEMMA FinalStays ==
  ASSUME IInv, IInv', [Next]_vars
  PROVE  /\ DOMAIN LFinal \subseteq DOMAIN LFinal'
         /\ \A k \in DOMAIN LFinal : LFinal'[k] = LFinal[k]
<1> SUFFICES ASSUME NEW k \in DOMAIN LFinal PROVE k \in DOMAIN LFinal' /\ LFinal'[k] = LFinal[k]
  OBVIOUS
<1>1. k \in DOMAIN receipts /\ IsDecided(receipts[k]) /\ LFinal[k] = EffectOf(receipts[k])
  BY LedgerRows
<1>2. /\ k \in DOMAIN receipts' /\ IsDecided(receipts'[k])
      /\ receipts'[k].allocated = receipts[k].allocated
      /\ receipts'[k].position = receipts[k].position
      /\ receipts'[k].transaction = receipts[k].transaction
  BY <1>1, RowsHold, StaysSame
<1>3. QED
  BY <1>1, <1>2, NextLedgerRows DEF EffectOf

\* Reservations are made under free keys.
LEMMA ReserveLedger ==
  ASSUME IInv, IInv', [Next]_vars, ReserveStep, told' = told
  PROVE  Ledger!Reserve
<1>1. \A k \in DOMAIN receipts : k \in DOMAIN receipts' /\ receipts'[k] = receipts[k]
  BY DEF ReserveStep
<1>2. \A k \in DOMAIN receipts' \ DOMAIN receipts : receipts'[k].state = "pending"
  BY DEF ReserveStep, Reserves, NewRow
<1>3. LHeld \subseteq LHeld' /\ LHeld' \subseteq Keys
  BY <1>1, LedgerRows, NextLedgerRows
<1>4. \A k \in LHeld' \ LHeld : k \notin LHeld \cup DOMAIN LFinal \cup DOMAIN LFailed
  BY <1>1, LedgerRows, NextLedgerRows
<1>5. LFinal' = LFinal
  <2>1. DOMAIN LFinal' \subseteq DOMAIN LFinal
    BY <1>1, <1>2, LedgerRows, NextLedgerRows DEF IsDecided
  <2>2. QED
    BY <2>1, FinalStays, SameFinal
<1>6. LFailed' = LFailed
  <2>1. \A k : k \in DOMAIN LFailed' <=> k \in DOMAIN LFailed
    BY <1>1, <1>2, LedgerRows, NextLedgerRows
  <2>2. \A k \in DOMAIN LFailed : LFailed'[k] = LFailed[k]
    BY <1>1, <2>1, LedgerRows, NextLedgerRows
  <2>3. QED
    BY <2>1, <2>2, SameFailed
<1>7. LTold' = LTold
  BY DEF LTold
<1>8. QED
  BY <1>3, <1>4, <1>5, <1>6, <1>7 DEF Ledger!Reserve, Ledger!Free, LHeld, LFinal, LFailed, LTold

\* Only pending rows are dropped.
LEMMA DropLedger ==
  ASSUME IInv, IInv', [Next]_vars, DropStep, told' = told
  PROVE  Ledger!Release
<1>1. \A k \in DOMAIN receipts' : k \in DOMAIN receipts /\ receipts'[k] = receipts[k]
  BY DropHolds
<1>2. \A k \in DOMAIN receipts \ DOMAIN receipts' : receipts[k].state = "pending"
  <2>1. PICK K : receipts' = Dropped(K) /\ \A k \in K \cap DOMAIN receipts : Pending(k)
    BY DEF DropStep
  <2>2. \A k \in DOMAIN receipts \ DOMAIN receipts' : Pending(k)
    BY <2>1, DroppedHolds
  <2>3. QED
    BY <2>2 DEF IInv, TypeOK, Pending
<1>3. LHeld' \subseteq LHeld
  BY <1>1, LedgerRows, NextLedgerRows
<1>4. LFinal' = LFinal
  <2>1. DOMAIN LFinal' \subseteq DOMAIN LFinal
    BY <1>1, LedgerRows, NextLedgerRows
  <2>2. QED
    BY <2>1, FinalStays, SameFinal
<1>5. LFailed' = LFailed
  <2>1. \A k : k \in DOMAIN LFailed' <=> k \in DOMAIN LFailed
    BY <1>1, <1>2, LedgerRows, NextLedgerRows
  <2>2. \A k \in DOMAIN LFailed : LFailed'[k] = LFailed[k]
    BY <1>1, <2>1, LedgerRows, NextLedgerRows
  <2>3. QED
    BY <2>1, <2>2, SameFailed
<1>6. LTold' = LTold
  BY DEF LTold
<1>7. QED
  BY <1>3, <1>4, <1>5, <1>6 DEF Ledger!Release, LHeld, LFinal, LFailed, LTold

\* A sweep forgets failures only.
LEMMA SweepLedger ==
  ASSUME IInv, IInv', [Next]_vars, SweepStep, told' = told
  PROVE  Ledger!Forget
<1>1. \A k \in DOMAIN receipts' :
        /\ k \in DOMAIN receipts
        /\ \/ receipts'[k] = receipts[k]
           \/ IsDecided(receipts[k]) /\ IsDecided(receipts'[k])
  BY SweptRow DEF IsDecided
<1>2. LHeld' \subseteq LHeld
  BY <1>1, LedgerRows, NextLedgerRows DEF IsDecided
<1>3. LFinal' = LFinal
  <2>1. DOMAIN LFinal' \subseteq DOMAIN LFinal
    BY <1>1, LedgerRows, NextLedgerRows
  <2>2. QED
    BY <2>1, FinalStays, SameFinal
<1>4. DOMAIN LFailed' \subseteq DOMAIN LFailed /\ \A k \in DOMAIN LFailed' : LFailed'[k] = LFailed[k]
  BY <1>1, LedgerRows, NextLedgerRows DEF IsDecided
<1>5. LTold' = LTold
  BY DEF LTold
<1>6. QED
  BY <1>2, <1>3, <1>4, <1>5 DEF Ledger!Forget, LHeld, LFinal, LFailed, LTold

\* An execution decides the effect or the failure of the key it held, or found free.
LEMMA FinishLedger ==
  ASSUME IInv, IInv', [Next]_vars, FinishStep
  PROVE  \E k \in Keys : Ledger!Effect(k) \/ Ledger!Fail(k)
<1>1. PICK key, row, outcome :
        /\ Finishes(key, row, outcome)
        /\ (\E c \in Calls : ExecutesCall(c, key, row))
             \/ (\E a \in Attempts : ExecutesTurn(a, key, row))
  BY DEF FinishStep
<1>2. /\ DOMAIN receipts' = DOMAIN receipts \cup {key}
      /\ \A k \in DOMAIN receipts \ {key} : receipts'[k] = receipts[k]
      /\ receipts'[key].state = IF outcome = "failed" THEN "failed" ELSE "completed"
  BY <1>1, FinishRow DEF Final
<1>3. key \in Keys /\ (key \in DOMAIN receipts => receipts[key].state = "pending")
  BY <1>1 DEF Finishes, Pending, IInv, TypeOK
<1>4. key \in LHeld \/ key \notin LHeld \cup DOMAIN LFinal \cup DOMAIN LFailed
  BY <1>3, LedgerRows
<1>5. LHeld' \subseteq LHeld \ {key}
  BY <1>2, LedgerRows, NextLedgerRows
<1>6. \/ told' = told
      \/ \E original, presented :
           told' = told \cup {Answer(key, original, presented, "receipt", receipts'[key])}
  <2>1. ASSUME NEW c \in Calls, ExecutesCall(c, key, row)
        PROVE  Committed(Answer(key, calls[c].request, calls[c].request, "receipt", receipts'[key]))
    BY <2>1 DEF ExecutesCall, Execute
  <2>2. ASSUME NEW a \in Attempts, ExecutesTurn(a, key, row)
        PROVE  Committed(Answer(key, AsSubmitted(a), Bind(Member(a).request, a), "receipt",
                                receipts'[key]))
    BY <2>2 DEF ExecutesTurn, ExecutedTurn
  <2>3. QED
    BY <1>1, <2>1, <2>2 DEF Committed
<1>7. CASE outcome = "failed"
  <2>1. LFinal' = LFinal
    <3>1. DOMAIN LFinal' \subseteq DOMAIN LFinal
      BY <1>2, <1>7, LedgerRows, NextLedgerRows DEF IsDecided
    <3>2. QED
      BY <3>1, FinalStays, SameFinal
  <2>2. DOMAIN LFailed' = DOMAIN LFailed \cup {key}
    <3>1. \A k : k \in DOMAIN LFailed' <=> k \in DOMAIN LFailed \/ k = key
      BY <1>2, <1>3, <1>7, LedgerRows, NextLedgerRows
    <3>2. QED
      BY <3>1
  <2>3. \A k \in DOMAIN LFailed : LFailed'[k] = LFailed[k]
    BY <1>2, <1>3, <2>2, LedgerRows, NextLedgerRows
  <2>4. LTold' = LTold
    <3>1. CASE told' = told
      BY <3>1 DEF LTold
    <3>2. QED
      BY <1>2, <1>6, <1>7, <3>1, TellsRow
  <2>5. Ledger!Fail(key)
    BY <1>4, <1>5, <2>1, <2>2, <2>3, <2>4
       DEF Ledger!Fail, Ledger!Free, Ledger!Extends, LHeld, LFinal, LFailed, LTold
  <2>6. QED
    BY <1>3, <2>5
<1>8. CASE outcome # "failed"
  <2>1. DOMAIN LFinal' = DOMAIN LFinal \cup {key}
    <3>1. \A k : k \in DOMAIN LFinal' <=> k \in DOMAIN LFinal \/ k = key
      BY <1>2, <1>3, <1>8, LedgerRows, NextLedgerRows DEF IsDecided
    <3>2. QED
      BY <3>1
  <2>2. LFailed' = LFailed
    <3>1. \A k : k \in DOMAIN LFailed' <=> k \in DOMAIN LFailed
      BY <1>2, <1>3, <1>8, LedgerRows, NextLedgerRows
    <3>2. \A k \in DOMAIN LFailed : LFailed'[k] = LFailed[k]
      BY <1>2, <1>3, <3>1, LedgerRows, NextLedgerRows
    <3>3. QED
      BY <3>1, <3>2, SameFailed
  <2>3. LFinal'[key] = EffectOf(receipts'[key])
    BY <2>1, NextLedgerRows
  <2>4. LTold' = LTold \/ LTold' = LTold \cup {<<key, LFinal'[key]>>}
    <3>1. CASE told' = told
      BY <3>1 DEF LTold
    <3>2. QED
      BY <1>2, <1>6, <1>8, <2>3, <3>1, TellsRow
  <2>5. Ledger!Effect(key)
    BY <1>4, <1>5, <2>1, <2>2, <2>4, FinalStays
       DEF Ledger!Effect, Ledger!Free, Ledger!Extends, LHeld, LFinal, LFailed, LTold
  <2>6. QED
    BY <1>3, <2>5
<1>9. QED
  BY <1>7, <1>8

\* Whoever is answered from a row is told what it did.
LEMMA AnswerLedger ==
  ASSUME IInv, receipts' = receipts,
         NEW key \in DOMAIN receipts, NEW original, NEW presented, NEW verdict,
         told' = told \cup {Answer(key, original, presented, verdict, receipts[key])}
  PROVE  (\E k \in Keys : Ledger!Tell(k)) \/ UNCHANGED Ledger!vars
<1>1. LHeld' = LHeld /\ LFinal' = LFinal /\ LFailed' = LFailed
  BY SameTables
<1>2. CASE verdict = "receipt" /\ receipts[key].state \in {"completed", "expired"}
  <2>1. key \in DOMAIN LFinal /\ LFinal[key] = EffectOf(receipts[key]) /\ key \in Keys
    BY <1>2, LedgerRows DEF IsDecided, IInv, TypeOK
  <2>2. LTold' = LTold \cup {<<key, LFinal[key]>>}
    BY <1>2, <2>1, TellsRow
  <2>3. Ledger!Tell(key)
    BY <1>1, <2>1, <2>2 DEF Ledger!Tell, LHeld, LFinal, LFailed, LTold
  <2>4. QED
    BY <2>1, <2>3
<1>3. CASE ~(verdict = "receipt" /\ receipts[key].state \in {"completed", "expired"})
  <2>1. LTold' = LTold
    BY <1>3, TellsRow
  <2>2. QED
    BY <1>1, <2>1 DEF Ledger!vars, LHeld, LFinal, LFailed, LTold
<1>4. QED
  BY <1>2, <1>3

LEMMA StepLedger ==
  ASSUME IInv, IInv', [Next]_vars
  PROVE  [Ledger!Next]_(Ledger!vars)
<1>1. CASE FinishStep
  BY <1>1, FinishLedger DEF Ledger!Next
<1>2. CASE ~FinishStep /\ told' # told
  <2>1. PICK key \in DOMAIN receipts : \E original, presented, verdict :
          /\ receipts' = receipts
          /\ told' = told \cup {Answer(key, original, presented, verdict, receipts[key])}
    BY <1>2, AnswersFromRows
  <2>2. PICK original, presented, verdict :
          /\ receipts' = receipts
          /\ told' = told \cup {Answer(key, original, presented, verdict, receipts[key])}
    BY <2>1
  <2>3. QED
    BY <2>2, AnswerLedger DEF Ledger!Next
<1>3. CASE ~FinishStep /\ told' = told
  <2>1. CASE KeepStep \/ PublishStep
    <3>1. receipts' = receipts
      BY <2>1 DEF KeepStep, PublishStep
    <3>2. UNCHANGED Ledger!vars
      BY <1>3, <3>1 DEF Ledger!vars, RowsIn
    <3>3. QED
      BY <3>2
  <2>2. QED
    BY <1>3, <2>1, StepRows, ReserveLedger, DropLedger, SweepLedger DEF Ledger!Next
<1>4. QED
  BY <1>1, <1>2, <1>3

\* Whatever stops, expires, is cancelled or is retried, the receipts and the answers
\* are those of a ledger that holds a key for one execution, decides at most one effect
\* under it, and tells that one (TransactionStore's tables and their callers).
THEOREM StoreImplementsLedger == Spec => ImplementsLedger
<1>1. Init => Ledger!Init
  BY DEF Init, NoRow, Ledger!Init, RowsIn
<1>2. IInv /\ IInv' /\ [Next]_vars => [Ledger!Next]_(Ledger!vars)
  BY StepLedger
<1>3. QED
  BY <1>1, <1>2, Invariance, PTL DEF Spec, ImplementsLedger, Ledger!Spec

-----------------------------------------------------------------------------
(* Answers stand.                                                          *)
(*                                                                         *)
(* A receipt that is still a template can be resolved in fewer and fewer   *)
(* ways, because a fact once recorded is not recorded again, and the way   *)
(* it is resolved in the end is one of them.  So what was said of all of   *)
(* them is true of that one.                                               *)

\* A claim that was made: no later reservation or execution is under it.
Used(x) ==
  \/ x \in Calls /\ calls[x].phase \in {"owned", "done"}
  \/ \E a \in Attempts, i \in Nat :
       /\ x = MemberClaim(a, i) /\ attempts[a].phase # "new"
       /\ Active(a) => i \in attempts[a].owned \/ i < attempts[a].next

ClaimsAreUsed ==
  /\ \A k \in DOMAIN receipts : Used(receipts[k].transaction)
  /\ \A t \in told : Used(t.transaction)

\* A reservation that was resolved when it was made reads its own request as its
\* identity, without another look at the aliases.
ReadsOwn(row) ==
  /\ LocatorsOf(row.request) \subseteq DOMAIN row.witnesses
  /\ Normalize(row.request, row.witnesses) = row.identity

RowIsRead(row) ==
  /\ Unresolved(row) =>
       row.identity = row.request /\ row.supplied = Supplied(attempts[row.attempt].program)
  /\ row.owner # None /\ ~Unresolved(row) =>
       /\ ReadsOwn(row)
       /\ row.owner \in Calls /\ calls[row.owner].phase = "owned" =>
            row.request = calls[row.owner].request
       /\ row.owner \notin Calls => ~Deferred(row.request) /\ row.witnesses = NoWitnesses

RowsAreRead == \A k \in DOMAIN receipts : RowIsRead(receipts[k])

\* What a creation that took effect may have allocated: what it supplied, or else one of
\* the identities committed.
MayAllocate(id, committed) == IF id = None THEN committed ELSE {id}

AllocationsFit ==
  \A k \in DOMAIN receipts :
    LET row == receipts[k] IN
    IsDecided(row) /\ Creates(row.identity) => row.allocated \in MayAllocate(row.identity.id, identities)

\* A fact is recorded at the turn of its member, and is what the creation may allocate.
FactsFit ==
  \A a \in Attempts : Active(a) =>
    \A j \in CreatingMembers(attempts[a].program) :
      /\ j >= attempts[a].next => facts[<<a, j>>] = None
      /\ \/ facts[<<a, j>>] \in {None, Unbound, Transient}
         \/ \E u \in MayAllocate(attempts[a].program[j].request.id, identities) : facts[<<a, j>>] = Uri(u)

\* An answer stands, under the template as well as under what it is resolved to.
StandsIn(t, row) ==
  t.verdict # "busy" /\ row.transaction = t.transaction =>
    IF Unresolved(row)
    THEN /\ WellFormed(t.presented) /\ Direct(t.presented)
         /\ LocatorsOf(t.presented) \subseteq LocatorsOf(row.identity) =>
              CompareTemplate(row, t.presented) = t.verdict
    ELSE LocatorsOf(t.presented) \subseteq DOMAIN row.witnesses =>
           Verdict(row, t.presented) = t.verdict

Stands(t) ==
  /\ t.verdict \in {"receipt", "conflict", "busy"}
  /\ t.key \in DOMAIN receipts => StandsIn(t, receipts[t.key])

AnswersStand == \A t \in told : Stands(t)

\* Uris holds the identities that references may name.  The theorems of this section are
\* of the behaviours that allocate no other, which are all of them when every position
\* is in Uris.
IdentitiesAreUris == identities \subseteq Uris

AInv ==
  /\ IInv /\ ClaimsAreUsed /\ RowsAreRead /\ AllocationsFit /\ FactsFit /\ AnswersStand

\* An unresolved receipt is pending: its turn is to come.
LEMMA UnresolvedIsPending ==
  ASSUME IInv, NEW k \in DOMAIN receipts, Unresolved(receipts[k])
  PROVE  Pending(k)
<1>1. PICK a \in Attempts : \E i \in attempts[a].owned :
        Active(a) /\ receipts[k].owner = MemberClaim(a, i)
  BY DEF IInv, UnresolvedHasTurn
<1>2. PICK i \in attempts[a].owned : receipts[k].owner = MemberClaim(a, i)
  BY <1>1
<1>3. CallerShapes /\ Active(a)
  BY <1>1 DEF IInv
<1>4. i \in Nat
  BY <1>3, ActiveHolds, ProgramHolds
<1>5. QED
  BY <1>2, <1>4, ClaimsDiffer DEF Pending

\* A request whose aliases were all witnessed is read without the aliases of today.
LEMMA ReadAlike ==
  ASSUME NEW r, NEW w, LocatorsOf(r) \subseteq DOMAIN w
  PROVE  /\ Normalize(r, w)' = Normalize(r, w)
         /\ Normalize(r, w) = [r EXCEPT !.refs = [f \in DOMAIN r.refs |->
              IF r.refs[f].kind = "alias" THEN w[r.refs[f].at] ELSE r.refs[f]]]
<1>1. ASSUME NEW f \in DOMAIN r.refs
      PROVE  /\ Lookup(r.refs[f], w)' = Lookup(r.refs[f], w)
             /\ Lookup(r.refs[f], w) =
                  IF r.refs[f].kind = "alias" THEN w[r.refs[f].at] ELSE r.refs[f]
  <2>1. r.refs[f].kind = "alias" => r.refs[f].at \in DOMAIN w
    BY DEF LocatorsOf, OfKind
  <2>2. QED
    BY <2>1 DEF Lookup
<1>2. QED
  BY <1>1 DEF Normalize

\* What a reservation witnesses is what it reads its request with.
LEMMA WitnessedReads ==
  ASSUME NEW r
  PROVE  /\ DOMAIN Witnesses(r) = LocatorsOf(r)
         /\ Normalize(r, Witnesses(r)) = Normalize(r, NoWitnesses)
         /\ LocatorsOf(r) = {} => Witnesses(r) = NoWitnesses
<1>1. DOMAIN Witnesses(r) = LocatorsOf(r)
  BY DEF Witnesses
<1>2. ASSUME NEW f \in DOMAIN r.refs
      PROVE  Lookup(r.refs[f], Witnesses(r)) = Lookup(r.refs[f], NoWitnesses)
  <2>1. r.refs[f].kind = "alias" => r.refs[f].at \in LocatorsOf(r)
    BY DEF LocatorsOf, OfKind
  <2>2. QED
    BY <2>1 DEF Lookup, Witnesses, NoWitnesses
<1>3. LocatorsOf(r) = {} => Witnesses(r) = NoWitnesses
  BY DEF Witnesses, NoWitnesses
<1>4. QED
  BY <1>1, <1>2, <1>3 DEF Normalize

\* Where the template has every alias of a direct request, the request is compared as it is.
LEMMA CandidateIs ==
  ASSUME NEW row, NEW r, LocatorsOf(r) \subseteq LocatorsOf(row.identity)
  PROVE  /\ Candidate(row, r) = [f \in DOMAIN r.refs |-> r.refs[f]]
         /\ Candidate(row, r)' = [f \in DOMAIN r.refs |-> r.refs[f]]
<1>1. ASSUME NEW f \in DOMAIN r.refs, r.refs[f].kind = "alias"
      PROVE  r.refs[f].at \in LocatorsOf(row.identity)
  BY <1>1 DEF LocatorsOf, OfKind
<1>2. QED
  BY <1>1 DEF Candidate, Lookup

\* What a direct request refers to never failed to be created.
LEMMA NeverUnbound ==
  ASSUME NEW row, NEW s, s.kind \in {"uri", "alias"}
  PROVE  /\ Meanings(row, s)' = Meanings(row, s)
         /\ Unbound \notin Meanings(row, s)
BY DEF Meanings, Unbound, Missing, Uri, Undetermined

\* The facts that a template's creators may have after a step.
MayBe(id) == IF id = None THEN Uris ELSE {id}
Settling(row) ==
  \A i \in CreatorsOf(row.identity) :
    LET f == <<row.attempt, i>> IN
    \/ facts'[f] = facts[f]
    \/ /\ facts[f] = None
       /\ \/ facts'[f] \in {None, Unbound, Transient}
          \/ \E u \in MayBe(row.supplied[i]) : facts'[f] = Uri(u)

LEMMA MeaningsShrink ==
  ASSUME NEW row, Settling(row), NEW s,
         s.kind = "creator" => s.at \in CreatorsOf(row.identity),
         NEW m \in Meanings(row, s)', m # Unbound
  PROVE  m \in Meanings(row, s)
<1>1. CASE s.kind # "creator"
  BY <1>1 DEF Meanings
<1>2. CASE s.kind = "creator"
  <2> DEFINE f == <<row.attempt, s.at>>
             open == {Undetermined} \cup {Uri(u) : u \in MayBe(row.supplied[s.at])}
  <2>1. /\ Meanings(row, s) = IF facts[f] \notin {None, Transient} THEN {facts[f]} ELSE open
        /\ Meanings(row, s)' = IF facts'[f] \notin {None, Transient} THEN {facts'[f]} ELSE open
    BY <1>2 DEF Meanings, Known, MayBe
  <2>2. CASE facts'[f] = facts[f]
    BY <2>1, <2>2
  <2>3. CASE /\ facts[f] = None
             /\ \/ facts'[f] \in {None, Unbound, Transient}
                \/ \E u \in MayBe(row.supplied[s.at]) : facts'[f] = Uri(u)
    <3>1. Meanings(row, s) = open
      BY <2>1, <2>3
    <3>2. CASE facts'[f] \in {None, Transient}
      BY <2>1, <3>1, <3>2
    <3>3. CASE facts'[f] = Unbound /\ facts'[f] \notin {None, Transient}
      BY <2>1, <3>3
    <3>4. CASE facts'[f] \notin {None, Transient} /\ \E u \in MayBe(row.supplied[s.at]) : facts'[f] = Uri(u)
      BY <2>1, <3>1, <3>4
    <3>5. QED
      BY <2>3, <3>2, <3>3, <3>4
  <2>4. QED
    BY <1>2, <2>2, <2>3 DEF Settling
<1>3. QED
  BY <1>1, <1>2

\* What no resolution of a template makes agree, none that remains does.
LEMMA CompatibleShrinks ==
  ASSUME NEW row, NEW r, Direct(r), LocatorsOf(r) \subseteq LocatorsOf(row.identity),
         SameShape(row.identity, r), Settling(row), Compatible(row, r)'
  PROVE  Compatible(row, r)
<1> DEFINE template == row.identity.refs
           candidate == [f \in DOMAIN r.refs |-> r.refs[f]]
           terms == Range(template) \cup Range(candidate)
<1>1. Candidate(row, r) = candidate /\ Candidate(row, r)' = candidate
  BY CandidateIs
<1>2. PICK meaning :
        /\ DOMAIN meaning = terms /\ meaning = [t \in terms |-> meaning[t]]
        /\ \A t \in terms : meaning[t] \in Meanings(row, t)'
        /\ \A f \in DOMAIN template : meaning[template[f]] = meaning[candidate[f]]
  BY <1>1, ZenonT(40) DEF Compatible
<1>3. DOMAIN template = DOMAIN r.refs
  BY DEF SameShape
<1>4. ASSUME NEW f \in DOMAIN r.refs
      PROVE  /\ r.refs[f] \in terms /\ r.refs[f].kind \in {"uri", "alias"}
             /\ meaning[r.refs[f]] # Unbound /\ meaning[r.refs[f]] \in Meanings(row, r.refs[f])
  <2>1. r.refs[f] \in terms /\ r.refs[f].kind \in {"uri", "alias"}
    BY DEF Range, Direct
  <2>2. /\ Meanings(row, r.refs[f])' = Meanings(row, r.refs[f])
        /\ Unbound \notin Meanings(row, r.refs[f])
    BY <2>1, NeverUnbound
  <2> HIDE DEF terms
  <2>3. meaning[r.refs[f]] \in Meanings(row, r.refs[f])'
    BY <1>2, <2>1
  <2>4. QED
    BY <2>1, <2>2, <2>3
<1>5. ASSUME NEW t \in terms PROVE meaning[t] \in Meanings(row, t)
  <2>1. CASE t \in Range(template)
    <3>1. PICK f \in DOMAIN template : t = template[f]
      BY <2>1 DEF Range
    <3>2. meaning[t] # Unbound
      BY <1>2, <1>3, <1>4, <3>1
    <3>3. t.kind = "creator" => t.at \in CreatorsOf(row.identity)
      BY <3>1 DEF CreatorsOf, OfKind
    <3>4. QED
      BY <1>2, <1>5, <3>2, <3>3, MeaningsShrink
  <2>2. CASE t \in Range(candidate)
    <3>1. PICK f \in DOMAIN r.refs : t = r.refs[f]
      BY <2>2 DEF Range
    <3>2. QED
      BY <1>4, <3>1
  <2>3. QED
    BY <1>5, <2>1, <2>2
<1>6. meaning \in [terms -> UNION {Meanings(row, t) : t \in terms}]
  <2>1. \A t \in terms : meaning[t] \in UNION {Meanings(row, s) : s \in terms}
    BY <1>5
  <2> HIDE DEF terms
  <2>2. QED
    BY <1>2, <2>1
<1>7. /\ Range(row.identity.refs) \cup Range(Candidate(row, r)) = terms
      /\ \A f \in DOMAIN template : meaning[template[f]] = meaning[Candidate(row, r)[f]]
  BY <1>1, <1>2
<1> HIDE DEF terms, candidate
<1>8. QED
  BY <1>5, <1>6, <1>7 DEF Compatible

\* An answer under a template stands while the creators' facts settle.
LEMMA TemplateStays ==
  ASSUME NEW row, NEW r, Direct(r), LocatorsOf(r) \subseteq LocatorsOf(row.identity),
         Settling(row), CompareTemplate(row, r) \in {"receipt", "conflict"}
  PROVE  CompareTemplate(row, r)' = CompareTemplate(row, r)
<1> DEFINE settled == /\ LocatorsOf(row.identity) = {}
                      /\ \A i \in CreatorsOf(row.identity) : Known(row.attempt, i)
<1>1. /\ CompareTemplate(row, r) =
           IF ~SameShape(row.identity, r) \/ ~Compatible(row, r) THEN "conflict"
           ELSE IF settled THEN "receipt" ELSE "undecided"
      /\ CompareTemplate(row, r)' =
           IF ~SameShape(row.identity, r) \/ ~Compatible(row, r)' THEN "conflict"
           ELSE IF settled' THEN "receipt" ELSE "undecided"
  BY DEF CompareTemplate
<1>2. CASE ~SameShape(row.identity, r) \/ ~Compatible(row, r)
  BY <1>1, <1>2, CompatibleShrinks
<1>3. CASE SameShape(row.identity, r) /\ Compatible(row, r)
  <2>1. settled
    BY <1>1, <1>3
  <2>2. ASSUME NEW i \in CreatorsOf(row.identity)
        PROVE  facts'[<<row.attempt, i>>] = facts[<<row.attempt, i>>] /\ Known(row.attempt, i)'
    <3>1. Known(row.attempt, i)
      BY <2>1
    <3>2. QED
      BY <3>1 DEF Settling, Known
  <2>3. settled'
    BY <2>1, <2>2
  <2>4. ASSUME NEW t, t.kind = "creator" => t.at \in CreatorsOf(row.identity)
        PROVE  Meanings(row, t)' = Meanings(row, t)
    <3>1. CASE t.kind = "creator"
      <4>1. facts'[<<row.attempt, t.at>>] = facts[<<row.attempt, t.at>>]
        BY <2>2, <2>4, <3>1
      <4>2. QED
        BY <4>1 DEF Meanings, Known
    <3>2. CASE t.kind # "creator"
      BY <3>2 DEF Meanings
    <3>3. QED
      BY <3>1, <3>2
  <2> DEFINE candidate == [f \in DOMAIN r.refs |-> r.refs[f]]
             terms == Range(row.identity.refs) \cup Range(candidate)
  <2>5. Candidate(row, r) = candidate /\ Candidate(row, r)' = candidate
    BY CandidateIs
  <2>6. \A t \in terms : Meanings(row, t)' = Meanings(row, t)
    <3>1. ASSUME NEW t \in terms PROVE t.kind = "creator" => t.at \in CreatorsOf(row.identity)
      BY DEF Range, CreatorsOf, OfKind, Direct
    <3>2. QED
      BY <2>4, <3>1
  <2>7. UNION {Meanings(row, t) : t \in terms} = UNION {Meanings(row, t)' : t \in terms}
    BY <2>6
  <2>8. Compatible(row, r)'
    <3>1. PICK meaning \in [terms -> UNION {Meanings(row, t) : t \in terms}] :
            /\ \A t \in terms : meaning[t] \in Meanings(row, t)
            /\ \A f \in DOMAIN row.identity.refs :
                 meaning[row.identity.refs[f]] = meaning[candidate[f]]
      BY <1>3, <2>5, ZenonT(40) DEF Compatible
    <3> HIDE DEF candidate
    <3>2. /\ meaning \in [terms -> UNION {Meanings(row, t)' : t \in terms}]
          /\ \A t \in terms : meaning[t] \in Meanings(row, t)'
      <4> HIDE DEF terms
      <4> QED BY <2>6, <2>7, <3>1
    <3>3. QED
      BY <2>5, <3>1, <3>2 DEF Compatible
  <2>9. QED
    BY <1>1, <1>3, <2>1, <2>3, <2>8
<1>4. QED
  BY <1>2, <1>3

\* How a template is resolved: every creator's fact is known, and every alias is
\* witnessed by what it names.
Resolves(new, row) ==
  /\ new.identity = Request(row.identity.op, row.identity.id, new.identity.refs)
  /\ new.identity.refs = [f \in DOMAIN row.identity.refs |->
       LET s == row.identity.refs[f] IN
       CASE s.kind = "creator" -> facts[<<row.attempt, s.at>>]
         [] s.kind = "alias" -> TargetOf(s.at)
         [] OTHER -> s]
  /\ \A l \in LocatorsOf(row.identity) : l \in DOMAIN new.witnesses /\ new.witnesses[l] = TargetOf(l)
  /\ \A i \in CreatorsOf(row.identity) : Known(row.attempt, i)
  /\ \A l \in DOMAIN aliases : aliases[l] \in Uris

\* An answer under a template stands when it is resolved.
LEMMA ResolvedStands ==
  ASSUME NEW row, NEW new, Resolves(new, row), NEW r, WellFormed(r), Direct(r),
         LocatorsOf(r) \subseteq LocatorsOf(row.identity),
         CompareTemplate(row, r) \in {"receipt", "conflict"}
  PROVE  CompareTemplate(row, r) =
           IF Normalize(r, new.witnesses) = new.identity THEN "receipt" ELSE "conflict"
<1> DEFINE template == row.identity.refs
           candidate == [f \in DOMAIN r.refs |-> r.refs[f]]
           terms == Range(template) \cup Range(candidate)
           read == [f \in DOMAIN r.refs |->
                      IF r.refs[f].kind = "alias" THEN new.witnesses[r.refs[f].at] ELSE r.refs[f]]
           Meant(s) == CASE s.kind = "creator" -> facts[<<row.attempt, s.at>>]
                         [] s.kind = "alias" -> TargetOf(s.at)
                         [] OTHER -> s
<1>1. Candidate(row, r) = candidate
  BY CandidateIs
<1>2. Normalize(r, new.witnesses) = Request(r.op, r.id, read)
  <2>1. LocatorsOf(r) \subseteq DOMAIN new.witnesses
    BY DEF Resolves
  <2>2. Normalize(r, new.witnesses) = [r EXCEPT !.refs = read]
    BY <2>1, ReadAlike
  <2> HIDE DEF read
  <2>3. QED
    BY <2>2, OtherRefs DEF WellFormed
<1>3. Normalize(r, new.witnesses) = new.identity <=>
        row.identity.op = r.op /\ row.identity.id = r.id /\ new.identity.refs = read
  <2> HIDE DEF read
  <2>1. new.identity = Request(row.identity.op, row.identity.id, new.identity.refs)
    BY DEF Resolves
  <2>2. QED
    BY <1>2, <2>1, RequestParts
<1>4. new.identity.refs = [f \in DOMAIN template |-> Meant(template[f])]
  BY DEF Resolves
<1>5. \A f \in DOMAIN r.refs : read[f] = Meant(r.refs[f]) /\ r.refs[f].kind \in {"uri", "alias"}
  <2>1. ASSUME NEW f \in DOMAIN r.refs, r.refs[f].kind = "alias"
        PROVE  new.witnesses[r.refs[f].at] = TargetOf(r.refs[f].at)
    <3>1. r.refs[f].at \in LocatorsOf(r)
      BY <2>1 DEF LocatorsOf, OfKind
    <3>2. QED
      BY <3>1 DEF Resolves
  <2>2. QED
    BY <2>1 DEF Direct
<1>6. ASSUME NEW t, t.kind = "creator" => t.at \in CreatorsOf(row.identity)
      PROVE  /\ Meant(t) \in Meanings(row, t)
             /\ t.kind # "alias" => Meanings(row, t) = {Meant(t)}
  <2>1. CASE t.kind = "creator"
    <3>1. Known(row.attempt, t.at)
      BY <1>6, <2>1 DEF Resolves
    <3>2. QED
      BY <2>1, <3>1 DEF Meanings
  <2>2. CASE t.kind = "alias"
    BY <2>2 DEF Meanings, TargetOf, Resolves
  <2>3. CASE t.kind \notin {"creator", "alias"}
    BY <2>3 DEF Meanings
  <2>4. QED
    BY <2>1, <2>2, <2>3
<1>7. \A t \in terms : t.kind = "creator" => t.at \in CreatorsOf(row.identity)
  BY DEF Range, CreatorsOf, OfKind, Direct
<1> HIDE DEF Meant
<1>8. CASE CompareTemplate(row, r) = "conflict"
  <2>1. SUFFICES ASSUME Normalize(r, new.witnesses) = new.identity PROVE FALSE
    BY <1>8
  <2>2. row.identity.op = r.op /\ row.identity.id = r.id /\ new.identity.refs = read
    <3> HIDE DEF read
    <3> QED BY <1>3, <2>1
  <2>3. /\ DOMAIN template = DOMAIN r.refs
        /\ \A f \in DOMAIN template : Meant(template[f]) = Meant(r.refs[f])
    BY <1>4, <1>5, <2>2
  <2>4. SameShape(row.identity, r)
    BY <2>2, <2>3 DEF SameShape
  <2> DEFINE meaning == [t \in terms |-> Meant(t)]
  <2>5. /\ meaning \in [terms -> UNION {Meanings(row, t) : t \in terms}]
        /\ \A t \in terms : meaning[t] \in Meanings(row, t)
    <3>1. \A t \in terms : Meant(t) \in Meanings(row, t)
      BY <1>6, <1>7
    <3> HIDE DEF terms
    <3>2. QED
      BY <3>1
  <2>6. \A f \in DOMAIN template : meaning[template[f]] = meaning[candidate[f]]
    <3>1. \A f \in DOMAIN template : template[f] \in terms /\ candidate[f] \in terms
      BY <2>3 DEF Range
    <3> HIDE DEF terms
    <3>2. QED
      BY <2>3, <3>1
  <2>7. Compatible(row, r)
    <3> HIDE DEF meaning, candidate
    <3> QED BY <1>1, <2>5, <2>6 DEF Compatible
  <2>8. QED
    BY <1>8, <2>4, <2>7 DEF CompareTemplate
<1>9. CASE CompareTemplate(row, r) = "receipt"
  <2>1. /\ SameShape(row.identity, r) /\ Compatible(row, r) /\ LocatorsOf(row.identity) = {}
    BY <1>9 DEF CompareTemplate
  <2>2. PICK meaning :
          /\ \A t \in terms : meaning[t] \in Meanings(row, t)
          /\ \A f \in DOMAIN template : meaning[template[f]] = meaning[candidate[f]]
    BY <1>1, <2>1, ZenonT(40) DEF Compatible
  <2>3. \A t \in terms : t.kind # "alias"
    <3>1. /\ \A f \in DOMAIN template : template[f].kind # "alias"
          /\ \A f \in DOMAIN r.refs : r.refs[f].kind # "alias"
      BY <2>1 DEF LocatorsOf, OfKind
    <3>2. QED
      BY <3>1 DEF Range
  <2>4. \A t \in terms : meaning[t] = Meant(t)
    BY <1>6, <1>7, <2>2, <2>3
  <2>5. ASSUME NEW f \in DOMAIN template PROVE Meant(template[f]) = read[f]
    <3>1. f \in DOMAIN r.refs /\ template[f] \in terms /\ candidate[f] \in terms
      BY <2>1 DEF SameShape, Range
    <3>2. meaning[template[f]] = meaning[r.refs[f]] /\ r.refs[f] \in terms
      BY <2>2, <3>1
    <3>3. meaning[template[f]] = Meant(template[f]) /\ meaning[r.refs[f]] = Meant(r.refs[f])
      BY <2>4, <3>1, <3>2
    <3>4. QED
      BY <1>5, <3>1, <3>2, <3>3
  <2>6. DOMAIN template = DOMAIN r.refs
    BY <2>1 DEF SameShape
  <2>7. new.identity.refs = read
    BY <1>4, <2>5, <2>6
  <2>8. row.identity.op = r.op /\ row.identity.id = r.id
    BY <2>1 DEF SameShape
  <2> HIDE DEF read
  <2>9. QED
    BY <1>3, <1>9, <2>7, <2>8
<1>10. QED
  BY <1>8, <1>9

-----------------------------------------------------------------------------
(* What a step does to one row, one call and the answers. *)

\* A row that a step leaves, except that its detail may expire.
Alike(row, was) ==
  /\ row.transaction = was.transaction /\ row.request = was.request
  /\ row.identity = was.identity /\ row.witnesses = was.witnesses
  /\ row.attempt = was.attempt /\ row.supplied = was.supplied /\ row.owner = was.owner

\* A row that a step reserves.
ReservedFor(k) ==
  \/ \E c \in Calls : \E r :
       /\ calls[c].phase \in {"new", "comparing"} /\ calls'[c] = InPhase("owned", k, r)
       /\ receipts'[k] = NewRow(r, <<>>, c, None)
  \/ \E a \in Attempts, p \in Programs :
       /\ attempts[a].phase = "new" /\ AdmittedAs(a, p)
       /\ \E i \in attempts'[a].owned : k = p[i].key

Executes(k, row, outcome) ==
  /\ Finishes(k, row, outcome)
  /\ (\E c \in Calls : ExecutesCall(c, k, row)) \/ (\E a \in Attempts : ExecutesTurn(a, k, row))

LEMMA ReservedForWhom ==
  ASSUME IInv, ReserveStep, NEW k \in DOMAIN receipts', k \notin DOMAIN receipts
  PROVE  ReservedFor(k)
<1>1. calls = [c \in Calls |-> calls[c]] /\ CallerShapes
  BY DEF IInv, CallerShapes
<1>2. ASSUME NEW c \in Calls, NEW key, NEW r, Present(c, key, r), calls[c].phase \in {"new", "comparing"}
      PROVE  ReservedFor(k)
  <2>1. receipts' # receipts
    OBVIOUS
  <2>2. /\ receipts' = Put(receipts, key, NewRow(r, <<>>, c, None))
        /\ calls' = [calls EXCEPT ![c] = InPhase("owned", key, r)]
    BY <1>2, <2>1 DEF Present
  <2>3. k = key /\ receipts'[k] = NewRow(r, <<>>, c, None)
    BY <2>2 DEF Put
  <2>4. calls'[c] = InPhase("owned", k, r)
    BY <1>1, <2>2, <2>3
  <2>5. QED
    BY <1>2, <2>3, <2>4 DEF ReservedFor
<1>3. ASSUME NEW c \in Calls, Submit(c) PROVE ReservedFor(k)
  <2>1. PICK s \in Submissions : Present(c, s.key, s.request)
    BY <1>3 DEF Submit
  <2>2. QED
    BY <1>2, <1>3, <2>1 DEF Submit
<1>4. ASSUME NEW c \in Calls, Poll(c) PROVE ReservedFor(k)
  <2>1. CASE Present(c, calls[c].key, calls[c].request)
    BY <1>2, <1>4, <2>1 DEF Poll
  <2>2. CASE UNCHANGED receipts
    BY <2>2
  <2>3. QED
    BY <1>4, <2>1, <2>2 DEF Poll
<1>5. ASSUME NEW a \in Attempts, AdmitSequence(a) PROVE ReservedFor(k)
  <2>1. PICK p \in Programs : AdmittedAs(a, p)
    BY <1>1, <1>5, AdmitHolds
  <2>2. \E i \in attempts'[a].owned : k = p[i].key
    BY <2>1 DEF AdmittedAs
  <2>3. attempts[a].phase = "new"
    BY <1>5 DEF AdmitSequence
  <2>4. QED
    BY <2>1, <2>2, <2>3 DEF ReservedFor
<1>6. QED
  BY <1>3, <1>4, <1>5 DEF ReserveStep

LEMMA RowSteps ==
  ASSUME IInv, [Next]_vars, NEW k \in DOMAIN receipts'
  PROVE  \/ k \in DOMAIN receipts /\ Alike(receipts'[k], receipts[k])
         \/ k \notin DOMAIN receipts /\ ReservedFor(k)
         \/ \E row, outcome : Executes(k, row, outcome)
<1>1. ASSUME k \in DOMAIN receipts, receipts'[k] = receipts[k]
      PROVE  Alike(receipts'[k], receipts[k])
  BY <1>1 DEF Alike
<1>2. CASE KeepStep \/ PublishStep
  BY <1>1, <1>2 DEF KeepStep, PublishStep
<1>3. CASE DropStep
  BY <1>1, <1>3, DropHolds
<1>4. CASE SweepStep
  <2>1. /\ k \in DOMAIN receipts
        /\ \/ receipts'[k] = receipts[k]
           \/ receipts'[k] = [receipts[k] EXCEPT !.state = "expired"]
    BY <1>4, SweptRow
  <2>2. DOMAIN receipts[k] = RowFields
    BY <2>1 DEF IInv, RowShapes, RowFits, IsRow
  <2>3. QED
    BY <1>1, <2>1, <2>2 DEF Alike, RowFields
<1>5. CASE ReserveStep
  BY <1>1, <1>5, ReservedForWhom DEF ReserveStep
<1>6. CASE FinishStep
  <2>1. PICK key, row, outcome : Executes(key, row, outcome)
    BY <1>6 DEF FinishStep, Executes
  <2>2. CASE k = key
    BY <2>1, <2>2
  <2>3. CASE k # key
    <3>0. Finishes(key, row, outcome)
      BY <2>1 DEF Executes
    <3>1. /\ DOMAIN receipts' = DOMAIN receipts \cup {key}
          /\ \A j \in DOMAIN receipts \ {key} : receipts'[j] = receipts[j]
      BY <3>0, FinishRow
    <3>2. QED
      BY <1>1, <2>3, <3>1
  <2>4. QED
    BY <2>2, <2>3
<1>7. QED
  BY <1>2, <1>3, <1>4, <1>5, <1>6, StepRows

LEMMA FinishWitnesses ==
  ASSUME NEW key, NEW row, NEW outcome, Finishes(key, row, outcome)
  PROVE  receipts'[key].witnesses = row.witnesses
<1> DEFINE new ==
        [row EXCEPT !.state = IF outcome = "failed" THEN "failed" ELSE "completed",
                    !.owner = None, !.allocated = Allocated(row.identity, outcome),
                    !.position = IF outcome = "effective" THEN Len(groups) + 1 ELSE 0]
<1>1. receipts' = Put(receipts, key, new)
  BY DEF Finishes, Finish
<1>2. DOMAIN row = RowFields
  BY DEF Finishes, RowFits, IsRow
<1>3. new.witnesses = row.witnesses
  BY <1>2 DEF RowFields
<1> HIDE DEF new
<1>4. receipts'[key] = new
  BY <1>1 DEF Put
<1>5. QED
  BY <1>3, <1>4

\* A call is submitted, polls, or ends.
LEMMA CallSteps ==
  ASSUME IInv, [Next]_vars, NEW c \in Calls
  PROVE  \/ calls'[c] = calls[c]
         \/ calls'[c].phase = "done" /\ calls[c].phase \in {"new", "owned", "comparing"}
         \/ /\ calls[c].phase \in {"new", "comparing"}
            /\ calls'[c].phase \in {"owned", "comparing"}
<1> DEFINE Goal ==
         \/ calls'[c] = calls[c]
         \/ calls'[c].phase = "done" /\ calls[c].phase \in {"new", "owned", "comparing"}
         \/ /\ calls[c].phase \in {"new", "comparing"}
            /\ calls'[c].phase \in {"owned", "comparing"}
<1>1. calls = [d \in Calls |-> calls[d]] /\ calls[c].phase \in {"new", "owned", "comparing", "done"}
  BY DEF IInv, CallerShapes, CallFits
<1>2. ASSUME NEW d \in Calls, NEW key, NEW r, Present(d, key, r), calls[d].phase \in {"new", "comparing"}
      PROVE  Goal
  <2>1. PICK new : calls' = [calls EXCEPT ![d] = new] /\ new.phase \in {"owned", "comparing", "done"}
    BY <1>2 DEF Present, InPhase, Finished
  <2>2. QED
    BY <1>1, <1>2, <2>1
<1>3. ASSUME NEW d \in Calls, calls' = [calls EXCEPT ![d] = Finished], calls[d].phase # "done" PROVE Goal
  BY <1>1, <1>3 DEF Finished, InPhase
<1>4. ASSUME NEW d \in Calls, Submit(d) PROVE Goal
  BY <1>2, <1>4 DEF Submit
<1>5. ASSUME NEW d \in Calls, Poll(d) PROVE Goal
  <2>1. calls[d].phase = "comparing"
    BY <1>5 DEF Poll
  <2>2. CASE Present(d, calls[d].key, calls[d].request)
    BY <1>2, <2>1, <2>2
  <2>3. CASE calls' = [calls EXCEPT ![d] = Finished]
    BY <1>3, <2>1, <2>3
  <2>4. QED
    BY <1>5, <2>2, <2>3 DEF Poll
<1>6. ASSUME NEW d \in Calls, Deadline(d) \/ Execute(d) \/ FailExecution(d) PROVE Goal
  BY <1>3, <1>6 DEF Deadline, Execute, FailExecution
<1>7. CASE Open
  BY <1>1, <1>7 DEF Open, Finished, InPhase
<1>8. CASE UNCHANGED calls
  BY <1>8
<1>9. QED
  BY <1>4, <1>5, <1>6, <1>7, <1>8 DEF Next, AdmitSequence, Turn, Cancel, Sweep, Pause, Publish,
     Resume, Stop, vars

\* A sequence is admitted, ends a turn, or ends.
LEMMA AttemptSteps ==
  ASSUME IInv, [Next]_vars, NEW a \in Attempts
  PROVE  \/ attempts'[a] = attempts[a]
         \/ attempts[a].phase = "new" /\ AdmitSequence(a)
         \/ /\ Active(a) /\ Turn(a)
            /\ attempts'[a].next = attempts[a].next + 1 /\ attempts'[a].owned = attempts[a].owned
         \/ Active(a) /\ attempts'[a].phase = "done"
<1> DEFINE Goal ==
         \/ attempts'[a] = attempts[a]
         \/ attempts[a].phase = "new" /\ AdmitSequence(a)
         \/ /\ Active(a) /\ Turn(a)
            /\ attempts'[a].next = attempts[a].next + 1 /\ attempts'[a].owned = attempts[a].owned
         \/ Active(a) /\ attempts'[a].phase = "done"
<1>1. CallerShapes
  BY DEF IInv
<1>2. ASSUME NEW b \in Attempts, AdmitSequence(b) PROVE Goal
  <2>1. PICK p \in Programs : AdmittedAs(b, p)
    BY <1>1, <1>2, AdmitHolds
  <2>2. attempts[b].phase = "new" /\ \A d \in Attempts \ {b} : attempts'[d] = attempts[d]
    BY <1>2, <2>1 DEF AdmittedAs, AdmitSequence
  <2>3. QED
    BY <1>2, <2>2
<1>3. ASSUME NEW b \in Attempts, Turn(b) PROVE Goal
  <2>1. PICK fact : EndTurn(b, fact) /\ Active(b)
    BY <1>3 DEF Turn, TransientTurn, AnsweredTurn, ExecutedTurn
  <2>2. /\ \A d \in Attempts \ {b} : attempts'[d] = attempts[d]
        /\ attempts'[b].owned = attempts[b].owned
        /\ attempts'[b].next = attempts[b].next + 1
    BY <1>1, <2>1, EndTurnHolds
  <2>3. QED
    BY <1>3, <2>1, <2>2
<1>4. ASSUME NEW b \in Attempts, Cancel(b) PROVE Goal
  BY <1>1, <1>4, CancelHolds DEF Cancel
<1>5. CASE Open
  <2>1. attempts'[a] = IF Active(a) THEN [attempts[a] EXCEPT !.phase = "done"] ELSE attempts[a]
    BY <1>5 DEF Open
  <2>2. DOMAIN attempts[a] = {"phase", "program", "owned", "next"}
    BY <1>1 DEF CallerShapes, AttemptFits
  <2>3. QED
    BY <2>1, <2>2
<1>6. CASE UNCHANGED attempts
  BY <1>6
<1>7. QED
  BY <1>2, <1>3, <1>4, <1>5, <1>6 DEF Next, Submit, Poll, Deadline, Execute, FailExecution, Sweep,
     Pause, Publish, Resume, Stop, vars, durable

LEMMA UsedStays ==
  ASSUME IInv, [Next]_vars, NEW x, Used(x)
  PROVE  Used(x)'
<1>1. CASE x \in Calls /\ calls[x].phase \in {"owned", "done"}
  <2>1. calls'[x].phase \in {"owned", "done"}
    BY <1>1, CallSteps
  <2>2. QED
    BY <1>1, <2>1 DEF Used
<1>2. ASSUME NEW a \in Attempts, NEW i \in Nat, x = MemberClaim(a, i), attempts[a].phase # "new",
             Active(a) => i \in attempts[a].owned \/ i < attempts[a].next
      PROVE  Used(x)'
  <2>1. attempts'[a].phase # "new"
    BY <1>2, CallersHold DEF ProgramsStay
  <2>2. Active(a) => attempts[a].next \in Nat
    BY ActiveHolds DEF IInv
  <2>3. attempts'[a].phase = "active" => i \in attempts'[a].owned \/ i < attempts'[a].next
    BY <1>2, <2>2, AttemptSteps DEF Active
  <2>4. QED
    BY <1>2, <2>1, <2>3 DEF Used, Active, MemberClaim
<1>3. QED
  BY <1>1, <1>2 DEF Used

\* Reservations and executions of unknown keys are under claims that were not made.
LEMMA ReservedFresh ==
  ASSUME IInv, NEW k, ReservedFor(k)
  PROVE  \E x : receipts'[k].transaction = x /\ ~Used(x) /\ Used(x)'
<1>1. ASSUME NEW c \in Calls, NEW r, calls[c].phase \in {"new", "comparing"},
             calls'[c] = InPhase("owned", k, r), receipts'[k] = NewRow(r, <<>>, c, None)
      PROVE  receipts'[k].transaction = c /\ ~Used(c) /\ Used(c)'
  <2>1. receipts'[k].transaction = c /\ calls'[c].phase = "owned"
    BY <1>1 DEF NewRow, InPhase
  <2>2. Used(c)'
    BY <2>1 DEF Used
  <2>3. ~Used(c)
    BY <1>1, ClaimsDiffer DEF Used
  <2>4. QED
    BY <2>1, <2>2, <2>3
<1>2. ASSUME NEW a \in Attempts, NEW p \in Programs, attempts[a].phase = "new", AdmittedAs(a, p),
             NEW i \in attempts'[a].owned, k = p[i].key
      PROVE  \E x : receipts'[k].transaction = x /\ ~Used(x) /\ Used(x)'
  <2>1. /\ attempts'[a].phase = "active" /\ i \in 1..Len(p)
        /\ receipts'[k] = NewRow(p[i].request, Supplied(p), MemberClaim(a, i),
                                 IF Deferred(p[i].request) THEN a ELSE None)
    BY <1>2 DEF AdmittedAs
  <2>2. receipts'[k].transaction = MemberClaim(a, i)
    BY <2>1 DEF NewRow
  <2>3. i \in Nat
    BY <2>1, ProgramHolds
  <2>4. Used(MemberClaim(a, i))'
    BY <1>2, <2>1, <2>3 DEF Used, MemberClaim
  <2>5. ~Used(MemberClaim(a, i))
    BY <1>2, <2>3, ClaimsDiffer DEF Used
  <2>6. QED
    BY <2>2, <2>4, <2>5
<1>3. QED
  BY <1>1, <1>2 DEF ReservedFor

\* The row that is executed is the one of the key, or is under a new claim.
LEMMA ExecutesFresh ==
  ASSUME IInv, [Next]_vars, NEW k, NEW row, NEW outcome, Executes(k, row, outcome)
  PROVE  /\ receipts'[k].transaction = row.transaction /\ Used(row.transaction)'
         /\ \/ k \in DOMAIN receipts /\ receipts[k].transaction = row.transaction
            \/ k \notin DOMAIN receipts /\ ~Used(row.transaction)
<1>1. Finishes(k, row, outcome)
  BY DEF Executes
<1>2. receipts'[k].transaction = row.transaction
  BY <1>1, FinishRow DEF Final
<1>3. ASSUME NEW c \in Calls, ExecutesCall(c, k, row)
      PROVE  /\ Used(row.transaction)'
             /\ k \in DOMAIN receipts /\ receipts[k].transaction = row.transaction
  <2>1. calls[c].phase = "owned" /\ mode = "open" /\ k = calls[c].key /\ row = receipts[k]
    BY <1>3 DEF ExecutesCall, Execute
  <2>2. k \in DOMAIN receipts /\ row.transaction = c
    BY <2>1, OwnedCall
  <2>3. Used(c)
    BY <2>1 DEF Used
  <2>4. QED
    BY <2>1, <2>2, <2>3, UsedStays
<1>4. ASSUME NEW a \in Attempts, ExecutesTurn(a, k, row)
      PROVE  /\ Used(row.transaction)'
             /\ \/ k \in DOMAIN receipts /\ receipts[k].transaction = row.transaction
                \/ k \notin DOMAIN receipts /\ ~Used(row.transaction)
  <2> DEFINE i == attempts[a].next
  <2>1. Active(a) /\ mode = "open" /\ ExecutedTurn(a) /\ k = Member(a).key /\ CallerShapes
    BY <1>4 DEF ExecutesTurn, IInv
  <2>2. row.transaction = MemberClaim(a, i) /\ i \in Nat
    BY <1>4, <2>1, TurnRowHolds, ActiveHolds DEF ExecutesTurn
  <2>3. Used(row.transaction)'
    <3>1. PICK fact : EndTurn(a, fact)
      BY <2>1 DEF ExecutedTurn
    <3>2. /\ attempts'[a].next = i + 1
          /\ attempts'[a].phase \in {"active", "done"}
      BY <2>1, <3>1, EndTurnHolds
    <3>3. i < attempts'[a].next
      BY <2>2, <3>2
    <3>4. QED
      BY <2>2, <3>2, <3>3 DEF Used, MemberClaim
  <2>4. CASE Owns(a)
    <3>1. k \in DOMAIN receipts /\ receipts[k].owner = MemberClaim(a, i)
      BY <2>1, <2>4, OwnedMember
    <3>2. receipts[k].owner \in {None, receipts[k].transaction}
      BY <3>1 DEF IInv, RowShapes, RowFits
    <3>3. QED
      BY <2>2, <2>3, <3>1, <3>2, ClaimsDiffer
  <2>5. CASE ~Owns(a)
    <3>1. k \notin DOMAIN receipts
      BY <2>1, <2>5 DEF ExecutedTurn
    <3>2. ~Used(MemberClaim(a, i))
      BY <2>1, <2>2, <2>5, ClaimsDiffer DEF Used, Owns
    <3>3. QED
      BY <2>2, <2>3, <3>1, <3>2
  <2>6. QED
    BY <2>4, <2>5
<1>5. QED
  BY <1>2, <1>3, <1>4 DEF Executes

\* Where a new answer comes from: a direct call that met a receipt, a member that met one,
\* or an execution.
AnswersCall(t) ==
  \E k \in DOMAIN receipts : \E r :
    /\ WellFormed(r) /\ Direct(r) /\ Verdict(receipts[k], r) # "undecided"
    /\ t = Answer(k, r, r, Verdict(receipts[k], r), receipts[k])

AnswersMember(t) ==
  \E a \in Attempts :
    LET key == Member(a).key
        presented == Bind(Member(a).request, a) IN
    /\ Active(a) /\ ~Waiting(a) /\ key \in DOMAIN receipts
    /\ t = Answer(key, AsSubmitted(a), presented,
                  IF Pending(key) THEN "busy" ELSE Verdict(receipts[key], presented), receipts[key])

AnswersExecution(t) ==
  \E k, row, outcome, original, presented :
    /\ Finishes(k, row, outcome)
    /\ t = Answer(k, original, presented, "receipt", receipts'[k])
    /\ \/ \E c \in Calls : /\ ExecutesCall(c, k, row)
                           /\ presented = calls[c].request /\ original = presented
       \/ \E a \in Attempts : /\ ExecutesTurn(a, k, row)
                              /\ presented = Bind(Member(a).request, a) /\ original = AsSubmitted(a)

LEMMA AnswerSteps ==
  ASSUME IInv, [Next]_vars, NEW t \in told', t \notin told
  PROVE  \/ UNCHANGED <<receipts, aliases, facts>> /\ AnswersCall(t)
         \/ UNCHANGED <<receipts, aliases>> /\ AnswersMember(t)
         \/ AnswersExecution(t)
<1> DEFINE Goal == \/ UNCHANGED <<receipts, aliases, facts>> /\ AnswersCall(t)
                   \/ UNCHANGED <<receipts, aliases>> /\ AnswersMember(t)
                   \/ AnswersExecution(t)
<1>1. ASSUME NEW c \in Calls, NEW key, NEW r, Present(c, key, r), WellFormed(r), Direct(r),
             UNCHANGED <<facts, aliases>>
      PROVE  Goal
  <2>1. /\ key \in DOMAIN receipts /\ receipts' = receipts
        /\ Verdict(receipts[key], r) # "undecided"
        /\ told' = told \cup {Answer(key, r, r, Verdict(receipts[key], r), receipts[key])}
    BY <1>1 DEF Present
  <2>2. t = Answer(key, r, r, Verdict(receipts[key], r), receipts[key])
    BY <2>1
  <2>3. QED
    BY <1>1, <2>1, <2>2 DEF AnswersCall
<1>2. ASSUME NEW c \in Calls, Submit(c) PROVE Goal
  <2>1. PICK s \in Submissions : Present(c, s.key, s.request)
    BY <1>2 DEF Submit
  <2>2. WellFormed(s.request) /\ Direct(s.request)
    BY SubmissionsAssumption
  <2>3. QED
    BY <1>1, <1>2, <2>1, <2>2 DEF Submit
<1>3. ASSUME NEW c \in Calls, Poll(c) PROVE Goal
  <2>1. WellFormed(calls[c].request) /\ Direct(calls[c].request) /\ UNCHANGED <<facts, aliases>>
    BY <1>3 DEF Poll, IInv, CallerShapes, CallFits
  <2>2. Present(c, calls[c].key, calls[c].request)
    BY <1>3 DEF Poll
  <2>3. QED
    BY <1>1, <2>1, <2>2
<1>4. ASSUME NEW c \in Calls, Execute(c) PROVE Goal
  <2> DEFINE k == calls[c].key
             r == calls[c].request
             row == receipts[k]
  <2>1. PICK outcome \in {"failed", "noop", "effective"} : Finish(k, row, outcome)
    BY <1>4 DEF Execute
  <2>2. Finishes(k, row, outcome)
    BY <1>4, <2>1, OwnedCall DEF Finishes, Execute
  <2>3. told' = told \cup {Answer(k, r, r, "receipt", receipts'[k])}
    BY <1>4 DEF Execute, Committed
  <2>4. t = Answer(k, r, r, "receipt", receipts'[k])
    BY <2>3
  <2>5. ExecutesCall(c, k, row)
    BY <1>4 DEF ExecutesCall
  <2>6. QED
    BY <2>2, <2>4, <2>5 DEF AnswersExecution
<1>5. ASSUME NEW a \in Attempts, Turn(a) PROVE Goal
  <2> DEFINE k == Member(a).key
             presented == Bind(Member(a).request, a)
  <2>1. Active(a) /\ mode = "open"
    BY <1>5 DEF Turn
  <2>2. CASE TransientTurn(a)
    BY <2>2 DEF TransientTurn
  <2>3. CASE AnsweredTurn(a)
    <3> DEFINE answer == Answer(k, AsSubmitted(a), presented,
                 IF Pending(k) THEN "busy" ELSE Verdict(receipts[k], presented), receipts[k])
    <3>1. /\ ~Waiting(a) /\ k \in DOMAIN receipts /\ UNCHANGED <<receipts, aliases>>
          /\ told' = told \cup {answer}
      BY <2>3 DEF AnsweredTurn
    <3>2. t = answer
      BY <3>1
    <3>3. QED
      BY <2>1, <3>1, <3>2 DEF AnswersMember
  <2>4. CASE ExecutedTurn(a)
    <3>1. PICK outcome : Finishes(k, TurnRow(a), outcome)
      BY <2>1, <2>4, ExecutedRows
    <3>2. told' = told \cup {Answer(k, AsSubmitted(a), presented, "receipt", receipts'[k])}
      BY <2>4 DEF ExecutedTurn, Committed
    <3>3. t = Answer(k, AsSubmitted(a), presented, "receipt", receipts'[k])
      BY <3>2
    <3>4. ExecutesTurn(a, k, TurnRow(a))
      BY <2>1, <2>4 DEF ExecutesTurn
    <3>5. QED
      BY <3>1, <3>3, <3>4 DEF AnswersExecution
  <2>5. QED
    BY <1>5, <2>2, <2>3, <2>4 DEF Turn
<1>6. CASE UNCHANGED told
  BY <1>6
<1>7. QED
  BY <1>2, <1>3, <1>4, <1>5, <1>6 DEF Next, AdmitSequence, Cancel, Deadline, FailExecution, Sweep,
     Pause, Publish, Resume, Stop, Open, vars

LEMMA ClaimsAreUsedHolds ==
  ASSUME AInv, [Next]_vars PROVE ClaimsAreUsed'
<1>1. IInv /\ ClaimsAreUsed
  BY DEF AInv
<1>2. ASSUME NEW k \in DOMAIN receipts' PROVE \E x : receipts'[k].transaction = x /\ Used(x)'
  <2>1. CASE k \in DOMAIN receipts /\ Alike(receipts'[k], receipts[k])
    <3>1. PICK x : x = receipts[k].transaction
      OBVIOUS
    <3>2. Used(x)
      BY <1>1, <2>1, <3>1 DEF ClaimsAreUsed
    <3>3. QED
      BY <1>1, <2>1, <3>1, <3>2, UsedStays DEF Alike
  <2>2. CASE ReservedFor(k)
    BY <1>1, <2>2, ReservedFresh
  <2>3. ASSUME NEW row, NEW outcome, Executes(k, row, outcome)
        PROVE  \E x : receipts'[k].transaction = x /\ Used(x)'
    <3>1. receipts'[k].transaction = row.transaction /\ Used(row.transaction)'
      BY <1>1, <2>3, ExecutesFresh
    <3>2. QED
      BY <3>1
  <2>4. QED
    BY <1>1, <2>1, <2>2, <2>3, RowSteps
<1>3. ASSUME NEW t \in told' PROVE Used(t.transaction)'
  <2>1. CASE t \in told
    BY <1>1, <2>1, UsedStays DEF ClaimsAreUsed
  <2>2. CASE t \notin told
    <3>1. \E k \in DOMAIN receipts' : t.transaction = receipts'[k].transaction
      <4>1. ASSUME NEW k \in DOMAIN receipts, receipts' = receipts, NEW o, NEW p, NEW v,
                   t = Answer(k, o, p, v, receipts[k])
            PROVE  k \in DOMAIN receipts' /\ t.transaction = receipts'[k].transaction
        BY <4>1 DEF Answer
      <4>2. ASSUME NEW k, NEW row, NEW outcome, Finishes(k, row, outcome), NEW o, NEW p,
                   t = Answer(k, o, p, "receipt", receipts'[k])
            PROVE  k \in DOMAIN receipts' /\ t.transaction = receipts'[k].transaction
        <5>1. k \in DOMAIN receipts'
          BY <4>2, FinishRow
        <5>2. QED
          BY <4>2, <5>1 DEF Answer
      <4>3. CASE receipts' = receipts /\ AnswersCall(t)
        BY <4>1, <4>3 DEF AnswersCall
      <4>4. CASE receipts' = receipts /\ AnswersMember(t)
        BY <4>1, <4>4 DEF AnswersMember
      <4>5. CASE AnswersExecution(t)
        BY <4>2, <4>5 DEF AnswersExecution
      <4>6. QED
        BY <1>1, <2>2, <4>3, <4>4, <4>5, AnswerSteps
    <3>2. QED
      BY <1>2, <3>1
  <2>3. QED
    BY <2>1, <2>2
<1>4. QED
  BY <1>2, <1>3 DEF ClaimsAreUsed

LEMMA RowsAreReadHolds ==
  ASSUME AInv, [Next]_vars PROVE RowsAreRead'
<1>1. IInv /\ ClaimsAreUsed /\ RowsAreRead
  BY DEF AInv
<1>2. ASSUME NEW was, NEW k \in DOMAIN receipts, was = receipts[k], NEW new, Alike(new, was),
             new = receipts'[k], k \in DOMAIN receipts'
      PROVE  RowIsRead(new)'
  <2>1. RowIsRead(was) /\ Used(was.transaction) /\ was.owner \in {None, was.transaction}
    BY <1>1, <1>2 DEF RowsAreRead, ClaimsAreUsed, IInv, RowShapes, RowFits
  <2>2. CASE Unresolved(was)
    <3>1. PICK a \in Attempts : was.attempt = a /\ Active(a)
      BY <1>1, <1>2, <2>2 DEF IInv, UnresolvedHasTurn
    <3>2. attempts'[a].program = attempts[a].program
      BY <1>1, <3>1, CallersHold DEF ProgramsStay, Active
    <3>3. /\ was.identity = was.request /\ was.supplied = Supplied(attempts[a].program)
      BY <2>1, <2>2, <3>1 DEF RowIsRead
    <3>4. Unresolved(new)
      BY <1>2, <2>2 DEF Alike, Unresolved
    <3>5. new.identity = new.request /\ new.supplied = Supplied(attempts'[new.attempt].program)
      BY <1>2, <3>1, <3>2, <3>3 DEF Alike
    <3>6. QED
      BY <3>4, <3>5 DEF RowIsRead
  <2>3. CASE ~Unresolved(was) /\ was.owner # None
    <3>1. /\ ReadsOwn(was)
          /\ was.owner \in Calls /\ calls[was.owner].phase = "owned" =>
               was.request = calls[was.owner].request
          /\ was.owner \notin Calls => ~Deferred(was.request) /\ was.witnesses = NoWitnesses
      BY <2>1, <2>3 DEF RowIsRead
    <3>2. Normalize(was.request, was.witnesses)' = Normalize(was.request, was.witnesses)
      BY <3>1, ReadAlike DEF ReadsOwn
    <3>3. ReadsOwn(was)'
      BY <3>1, <3>2 DEF ReadsOwn
    <3>4. ReadsOwn(new)'
      BY <1>2, <3>3 DEF ReadsOwn, Alike
    <3>5. ASSUME new.owner \in Calls, calls'[new.owner].phase = "owned"
          PROVE  new.request = calls'[new.owner].request
      <4>1. new.owner = was.owner /\ was.owner = was.transaction
        BY <1>2, <2>1, <2>3 DEF Alike
      <4>2. calls[was.owner].phase \in {"owned", "done"}
        BY <2>1, <3>5, <4>1, ClaimsDiffer DEF Used
      <4>3. calls'[was.owner] = calls[was.owner]
        BY <1>1, <3>5, <4>1, <4>2, CallSteps
      <4>4. QED
        BY <1>2, <3>1, <3>5, <4>1, <4>3 DEF Alike
    <3>6. new.owner \notin Calls => ~Deferred(new.request) /\ new.witnesses = NoWitnesses
      BY <1>2, <3>1 DEF Alike
    <3>7. ~Unresolved(new)
      BY <1>2, <2>3 DEF Alike, Unresolved
    <3>8. QED
      BY <3>4, <3>5, <3>6, <3>7 DEF RowIsRead, Unresolved
  <2>4. CASE ~Unresolved(was) /\ was.owner = None
    BY <1>2, <2>4 DEF RowIsRead, Alike, Unresolved
  <2>5. QED
    BY <2>2, <2>3, <2>4
<1>3. ASSUME NEW new, NEW r, new.request = r, new.witnesses = Witnesses(r),
             new.identity = Normalize(r, NoWitnesses)
      PROVE  ReadsOwn(new)'
  <2>1. /\ DOMAIN Witnesses(r) = LocatorsOf(r)
        /\ Normalize(r, Witnesses(r)) = Normalize(r, NoWitnesses)
    BY WitnessedReads
  <2>2. PICK w : w = Witnesses(r)
    OBVIOUS
  <2>3. Normalize(r, w)' = Normalize(r, w)
    BY <2>1, <2>2, ReadAlike
  <2>4. Normalize(new.request, new.witnesses)' = new.identity
    BY <1>3, <2>1, <2>2, <2>3
  <2>5. LocatorsOf(new.request) \subseteq DOMAIN new.witnesses
    BY <1>3, <2>1
  <2>6. QED
    BY <2>4, <2>5 DEF ReadsOwn
<1>4. ASSUME NEW k, NEW new, new = receipts'[k], NEW c \in Calls, NEW r,
             calls'[c] = InPhase("owned", k, r), new = NewRow(r, <<>>, c, None)
      PROVE  RowIsRead(new)'
  <2>1. /\ new.request = r /\ new.witnesses = Witnesses(r) /\ new.identity = Normalize(r, NoWitnesses)
        /\ new.owner = c /\ ~Unresolved(new) /\ new.owner \in Calls
    BY <1>4 DEF NewRow, Unresolved
  <2>2. calls'[c].request = r
    BY <1>4 DEF InPhase
  <2>3. QED
    BY <1>3, <2>1, <2>2 DEF RowIsRead, Unresolved
<1>5. ASSUME NEW new, NEW a \in Attempts, NEW p \in Programs, NEW r, NEW claim,
             claim \notin Calls, attempts'[a].program = p,
             new = NewRow(r, Supplied(p), claim, IF Deferred(r) THEN a ELSE None)
      PROVE  RowIsRead(new)'
  <2>1. CASE Deferred(r)
    <3>1. /\ new.attempt = a /\ new.identity = r /\ new.request = r /\ new.supplied = Supplied(p)
      BY <1>5, <2>1, ClaimantsAssumption DEF NewRow
    <3>2. Unresolved(new)
      BY <3>1, ClaimantsAssumption DEF Unresolved
    <3>3. QED
      BY <1>5, <3>1, <3>2 DEF RowIsRead, Unresolved
  <2>2. CASE ~Deferred(r)
    <3>1. /\ new.request = r /\ new.witnesses = Witnesses(r) /\ new.identity = Normalize(r, NoWitnesses)
          /\ new.owner = claim /\ new.attempt = None
      BY <1>5, <2>2 DEF NewRow
    <3>2. LocatorsOf(r) = {}
      BY <2>2 DEF Deferred
    <3>3. new.witnesses = NoWitnesses
      BY <3>1, <3>2, WitnessedReads
    <3>4. ReadsOwn(new)'
      BY <1>3, <3>1
    <3>5. ~Deferred(new.request)' /\ (new.witnesses = NoWitnesses)'
      BY <2>2, <3>1, <3>3
    <3>6. QED
      BY <1>5, <3>1, <3>4, <3>5 DEF RowIsRead, Unresolved
  <2>3. QED
    BY <2>1, <2>2
<1>6. ASSUME NEW k, NEW new, new = receipts'[k], ReservedFor(k) PROVE RowIsRead(new)'
  <2>1. ASSUME NEW a \in Attempts, NEW p \in Programs, AdmittedAs(a, p),
               NEW i \in attempts'[a].owned, k = p[i].key
        PROVE  RowIsRead(new)'
    <3>1. /\ attempts'[a].program = p /\ i \in 1..Len(p)
          /\ receipts'[k] = NewRow(p[i].request, Supplied(p), MemberClaim(a, i),
                                   IF Deferred(p[i].request) THEN a ELSE None)
      BY <2>1 DEF AdmittedAs
    <3>2. MemberClaim(a, i) \notin Calls
      BY <3>1, ProgramHolds, ClaimsDiffer
    <3>3. QED
      BY <1>5, <1>6, <3>1, <3>2
  <2>2. QED
    BY <1>4, <1>6, <2>1 DEF ReservedFor
<1>7. ASSUME NEW k, NEW new, new = receipts'[k], NEW row, NEW outcome, Finishes(k, row, outcome)
      PROVE  RowIsRead(new)'
  <2>1. new.owner = None /\ new.attempt = None
    BY <1>7, FinishRow DEF Final
  <2>2. QED
    BY <2>1 DEF RowIsRead, Unresolved
<1>8. ASSUME NEW k \in DOMAIN receipts' PROVE RowIsRead(receipts[k])'
  <2>1. PICK new : new = receipts'[k]
    OBVIOUS
  <2>2. RowIsRead(new)'
    <3>1. CASE k \in DOMAIN receipts /\ Alike(receipts'[k], receipts[k])
      BY <1>2, <2>1, <3>1
    <3>2. CASE ReservedFor(k)
      BY <1>6, <2>1, <3>2
    <3>3. ASSUME NEW row, NEW outcome, Executes(k, row, outcome) PROVE RowIsRead(new)'
      BY <1>7, <2>1, <3>3 DEF Executes
    <3>4. QED
      BY <1>1, <3>1, <3>2, <3>3, RowSteps
  <2>3. QED
    BY <2>1, <2>2
<1>9. QED
  BY <1>8 DEF RowsAreRead

LEMMA AllocatedStays ==
  ASSUME IInv, [Next]_vars PROVE identities \subseteq identities'
<1>1. CASE UNCHANGED identities
  BY <1>1
<1>2. CASE FinishStep
  BY <1>2 DEF FinishStep, Finishes, Finish
<1>3. QED
  BY <1>1, <1>2, StepRows DEF KeepStep, PublishStep, DropStep, SweepStep, ReserveStep

LEMMA AllocationsFitHolds ==
  ASSUME AInv, [Next]_vars PROVE AllocationsFit'
<1>1. IInv /\ AllocationsFit
  BY DEF AInv
<1>2. RowInv
  BY <1>1 DEF IInv, RowInv, RowTypes, TypeOK
<1>3. ASSUME NEW k \in DOMAIN receipts', NEW new, new = receipts'[k], IsDecided(new),
             Creates(new.identity)
      PROVE  new.allocated \in MayAllocate(new.identity.id, identities')
  <2>1. CASE k \in DOMAIN receipts /\ IsDecided(receipts[k])
    <3>1. new.allocated = receipts[k].allocated /\ new.identity = receipts[k].identity
      BY <1>1, <1>3, <2>1, StaysSame, RowsHold
    <3>2. QED
      BY <1>1, <1>3, <2>1, <3>1, AllocatedStays DEF AllocationsFit, MayAllocate
  <2>2. ASSUME NEW row, NEW outcome \in {"noop", "effective"}, Finishes(k, row, outcome)
        PROVE  new.allocated \in MayAllocate(new.identity.id, identities')
    <3>0. Final(k, row, outcome)
      BY <2>2, FinishRow
    <3>1. new.identity = row.identity /\ new.allocated = Allocated(row.identity, outcome)
      BY <1>3, <3>0 DEF Final
    <3>2. outcome = "effective"
      <4>1. outcome \in Outcomes(row.identity)
        BY <2>2 DEF Finishes, Finish
      <4>2. Outcomes(row.identity) \subseteq {"failed", "effective"}
        BY <1>3, <3>1 DEF Outcomes, Creates
      <4>3. QED
        BY <4>1, <4>2
    <3>3. Len(groups) \in Nat
      BY <1>2, <2>2, AllocatedHolds
    <3>4. new.allocated = IF row.identity.id = None THEN Len(groups) + 1 ELSE row.identity.id
      BY <1>3, <3>1, <3>2 DEF Allocated
    <3>5. new.allocated # None
      BY <3>3, <3>4, ClaimantsAssumption
    <3>6. new.allocated \in identities'
      BY <2>2, <3>1, <3>5 DEF Finishes, Finish
    <3>7. QED
      BY <3>1, <3>4, <3>6 DEF MayAllocate
  <2>3. QED
    BY <1>1, <1>3, <2>1, <2>2, DecidedOnce
<1>4. QED
  BY <1>3 DEF AllocationsFit, IsDecided

\* The receipt that a creator is bound to by its turn is of the same creation.
LEMMA TurnFits ==
  ASSUME IInv, [Next]_vars, NEW a \in Attempts, Turn(a), ~Done(a), Creates(Member(a).request),
         <<a, attempts[a].next>> \in DOMAIN facts,
         facts'[<<a, attempts[a].next>>] \notin {Unbound, Transient}
  PROVE  LET row == receipts'[Member(a).key] IN
         row.identity.op = Member(a).request.op /\ row.identity.id = Member(a).request.id
<1> DEFINE f == <<a, attempts[a].next>>
           key == Member(a).key
           r == Member(a).request
           presented == Bind(r, a)
<1>1. CallerShapes /\ Active(a) /\ mode = "open"
  BY DEF IInv, Turn
<1>2. ASSUME NEW fact, EndTurn(a, fact) PROVE facts'[f] = fact
  BY <1>1, <1>2, EndTurnFacts
<1>3. WellFormed(r)
  BY <1>1, ActiveHolds
<1>4. CASE TransientTurn(a)
  BY <1>2, <1>4 DEF TransientTurn
<1>5. CASE AnsweredTurn(a)
  <2> DEFINE row == receipts[key]
             verdict == IF Pending(key) THEN "busy" ELSE Verdict(row, presented)
  <2>1. key \in DOMAIN receipts /\ UNCHANGED receipts
    BY <1>5 DEF AnsweredTurn
  <2>2. facts'[f] = IF verdict = "conflict" THEN Unbound ELSE FactOf(row)
    BY <1>2, <1>5 DEF AnsweredTurn
  <2>3. verdict # "conflict" /\ row.state # "pending"
    BY <2>2 DEF FactOf
  <2>4. row.owner = None
    BY <2>1, <2>3 DEF IInv, TypeOK
  <2>5. ~Unresolved(row)
    BY <2>1, <2>4, UnresolvedIsPending DEF Pending
  <2>6. Verdict(row, presented) # "conflict"
    BY <2>3, <2>4 DEF Pending
  <2>7. Normalize(presented, row.witnesses) = row.identity
    BY <2>5, <2>6 DEF Verdict
  <2>8. PICK refs : presented = Request(r.op, r.id, refs)
    BY <1>3, OtherRefs DEF Bind, WellFormed
  <2>9. PICK other : Normalize(presented, row.witnesses) = [presented EXCEPT !.refs = other]
    BY DEF Normalize
  <2>10. row.identity.op = presented.op /\ row.identity.id = presented.id
    <3>1. DOMAIN presented = {"op", "id", "refs"}
      BY <2>8, RequestParts
    <3>2. QED
      BY <2>7, <2>9, <3>1
  <2>11. presented.op = r.op /\ presented.id = r.id
    BY <2>8, RequestParts
  <2>12. QED
    BY <2>1, <2>10, <2>11
<1>6. CASE ExecutedTurn(a)
  <2>1. PICK outcome : Finishes(key, TurnRow(a), outcome)
    BY <1>1, <1>6, ExecutedRows
  <2>2. Final(key, TurnRow(a), outcome)
    BY <2>1, FinishRow
  <2>3. receipts'[key].identity = TurnRow(a).identity
    BY <2>2 DEF Final
  <2>4. /\ TurnRow(a).identity = Request(r.op, r.id, TurnRow(a).identity.refs)
    BY <1>1, TurnRowHolds DEF RowFits
  <2>5. TurnRow(a).identity.op = r.op /\ TurnRow(a).identity.id = r.id
    BY <2>4, RequestParts
  <2>6. QED
    BY <2>3, <2>5
<1>7. QED
  BY <1>4, <1>5, <1>6 DEF Turn

\* The fact of a creator changes once: from nothing to what its turn comes to.
LEMMA FactChanges ==
  ASSUME AInv, [Next]_vars, NEW a \in Attempts, Active(a), attempts'[a].phase = "active",
         NEW j \in CreatingMembers(attempts[a].program)
  PROVE  LET f == <<a, j>> IN
         /\ j \in 1..Len(attempts[a].program)
         /\ attempts'[a].program = attempts[a].program
         /\ j >= attempts'[a].next => j >= attempts[a].next
         /\ \/ facts'[f] = facts[f]
            \/ /\ facts[f] = None /\ ~(j >= attempts'[a].next)
               /\ \/ facts'[f] \in {Unbound, Transient}
                  \/ \E u \in MayAllocate(attempts[a].program[j].request.id, identities') : facts'[f] = Uri(u)
<1> DEFINE f == <<a, j>>
           p == attempts[a].program
<1>1. IInv /\ FactsFit /\ CallerShapes
  BY DEF AInv, IInv
<1>2. /\ p \in Programs /\ attempts[a].next \in 1..Len(p) /\ attempts[a].next \in Nat
      /\ attempts'[a].program = p /\ j \in 1..Len(p) /\ j \in Nat /\ Creates(p[j].request)
  <2>1. /\ p \in Programs /\ attempts[a].next \in 1..Len(p)
    BY <1>1, ActiveHolds
  <2>2. attempts'[a].program = p
    BY <1>1, CallersHold DEF ProgramsStay, Active
  <2>3. QED
    BY <2>1, <2>2, ProgramHolds DEF CreatingMembers
<1>3. f \in DOMAIN facts
  BY <1>1 DEF IInv, DeferredHasFacts
<1>4. j >= attempts[a].next => facts[f] = None
  BY <1>1 DEF FactsFit
<1>5. FactsStep(a)
  BY <1>1, FactsSteps
<1>6. CASE /\ attempts'[a] = attempts[a]
           /\ \A g \in DOMAIN facts : g[1] = a => g \in DOMAIN facts' /\ facts'[g] = facts[g]
  BY <1>2, <1>3, <1>6
<1>7. ASSUME NEW q \in Programs, AdmittedAs(a, q)
      PROVE  facts'[f] = facts[f] /\ attempts'[a].next = attempts[a].next
  <2>1. \/ attempts'[a] = attempts[a]
        \/ attempts[a].phase = "new"
        \/ attempts'[a].next = attempts[a].next + 1
        \/ attempts'[a].phase = "done"
    BY <1>1, AttemptSteps
  <2>2. /\ attempts'[a].next = 1 /\ attempts'[a].program = q
        /\ facts' = [g \in DOMAIN facts \cup ({a} \X CreatingMembers(q)) |->
             IF g[1] = a THEN None ELSE facts[g]]
    BY <1>7 DEF AdmittedAs
  <2>3. attempts[a].next + 1 # 1
    BY <1>2
  <2>4. attempts'[a] = attempts[a]
    BY <2>1, <2>2, <2>3 DEF Active
  <2>5. facts'[f] = None
    BY <1>3, <2>2
  <2>6. j >= attempts[a].next
    BY <1>2, <2>2, <2>4
  <2>7. QED
    BY <1>4, <2>4, <2>5, <2>6
<1>8. CASE /\ Turn(a) /\ ~Done(a)
           /\ attempts'[a].next = attempts[a].next + 1
           /\ DOMAIN facts' = DOMAIN facts
           /\ \A g \in DOMAIN facts : g # <<a, attempts[a].next>> => facts'[g] = facts[g]
  <2>1. CASE j # attempts[a].next
    <3>1. facts'[f] = facts[f]
      BY <1>3, <1>8, <2>1
    <3>2. QED
      BY <1>2, <1>8, <3>1
  <2>2. CASE j = attempts[a].next
    <3>1. /\ f = <<a, attempts[a].next>> /\ Member(a) = p[j] /\ Creates(Member(a).request)
      BY <1>2, <2>2 DEF Member
    <3>2. facts[f] = None /\ ~(j >= attempts'[a].next) /\ (j >= attempts'[a].next => j >= attempts[a].next)
      BY <1>2, <1>4, <1>8, <2>2
    <3>3. CASE facts'[f] \in {Unbound, Transient}
      BY <1>2, <3>2, <3>3
    <3>4. CASE facts'[f] \notin {Unbound, Transient}
      <4> DEFINE key == Member(a).key
      <4>1. /\ key \in DOMAIN receipts' /\ IsDecided(receipts'[key])
            /\ facts'[f] = Uri(receipts'[key].allocated)
        BY <1>1, <1>3, <1>8, <3>1, <3>4, TurnFact
      <4>2. /\ receipts'[key].identity.op = Member(a).request.op
            /\ receipts'[key].identity.id = Member(a).request.id
        BY <1>1, <1>3, <1>8, <3>1, <3>4, TurnFits
      <4>3. AllocationsFit'
        BY AllocationsFitHolds
      <4>4. receipts'[key].allocated \in MayAllocate(p[j].request.id, identities')
        BY <3>1, <4>1, <4>2, <4>3 DEF AllocationsFit, Creates, IsDecided
      <4>5. QED
        BY <1>2, <3>2, <4>1, <4>4
    <3>5. QED
      BY <3>3, <3>4
  <2>3. QED
    BY <2>1, <2>2
<1>9. QED
  BY <1>2, <1>5, <1>6, <1>7, <1>8 DEF FactsStep

LEMMA FactsFitHolds ==
  ASSUME AInv, [Next]_vars PROVE FactsFit'
<1>1. IInv /\ FactsFit /\ CallerShapes
  BY DEF AInv, IInv
<1>2. ASSUME NEW a \in Attempts, attempts'[a].phase = "active",
             NEW j \in CreatingMembers(attempts'[a].program)
      PROVE  /\ j >= attempts'[a].next => facts'[<<a, j>>] = None
             /\ \/ facts'[<<a, j>>] \in {None, Unbound, Transient}
                \/ \E u \in MayAllocate(attempts'[a].program[j].request.id, identities') : facts'[<<a, j>>] = Uri(u)
  <2>1. CASE Active(a)
    <3>1. attempts'[a].program = attempts[a].program
      BY <1>1, <2>1, CallersHold DEF ProgramsStay, Active
    <3>2. /\ j >= attempts[a].next => facts[<<a, j>>] = None
          /\ \/ facts[<<a, j>>] \in {None, Unbound, Transient}
             \/ \E u \in MayAllocate(attempts[a].program[j].request.id, identities) : facts[<<a, j>>] = Uri(u)
      BY <1>1, <1>2, <2>1, <3>1 DEF FactsFit
    <3>3. /\ j >= attempts'[a].next => j >= attempts[a].next
          /\ \/ facts'[<<a, j>>] = facts[<<a, j>>]
             \/ /\ ~(j >= attempts'[a].next)
                /\ \/ facts'[<<a, j>>] \in {Unbound, Transient}
                   \/ \E u \in MayAllocate(attempts[a].program[j].request.id, identities') : facts'[<<a, j>>] = Uri(u)
      BY <1>2, <2>1, <3>1, FactChanges
    <3>4. identities \subseteq identities'
      BY <1>1, AllocatedStays
    <3>5. QED
      BY <3>1, <3>2, <3>3, <3>4 DEF MayAllocate
  <2>2. CASE ~Active(a)
    <3>1. FactsStep(a)
      BY <1>1, <1>2, FactsSteps
    <3>2. PICK p \in Programs : AdmittedAs(a, p)
      BY <1>2, <2>2, <3>1 DEF FactsStep, Turn, Active
    <3>3. /\ attempts'[a].program = p
          /\ facts' = [g \in DOMAIN facts \cup ({a} \X CreatingMembers(p)) |->
               IF g[1] = a THEN None ELSE facts[g]]
      BY <3>2 DEF AdmittedAs
    <3>4. facts'[<<a, j>>] = None
      BY <1>2, <3>3
    <3>5. QED
      BY <3>4
  <2>3. QED
    BY <2>1, <2>2
<1>3. QED
  BY <1>2 DEF FactsFit, Active

\* What an unresolved receipt and a request come to depends on the template only.
LEMMA TemplateAlike ==
  ASSUME NEW row, NEW was, Alike(row, was), NEW r
  PROVE  CompareTemplate(row, r)' = CompareTemplate(was, r)'
<1>1. row.identity = was.identity /\ row.attempt = was.attempt /\ row.supplied = was.supplied
  BY DEF Alike
<1>2. \A t : Meanings(row, t)' = Meanings(was, t)'
  BY <1>1 DEF Meanings, Known
<1>3. Candidate(row, r)' = Candidate(was, r)'
  BY <1>1 DEF Candidate
<1>4. Compatible(row, r)' = Compatible(was, r)'
  BY <1>1, <1>2, <1>3, ZenonT(40) DEF Compatible
<1>5. QED
  BY <1>1, <1>4 DEF CompareTemplate, Known

LEMMA VerdictSame ==
  ASSUME UNCHANGED <<aliases, facts>>, NEW row, NEW r
  PROVE  Verdict(row, r)' = Verdict(row, r) /\ CompareTemplate(row, r)' = CompareTemplate(row, r)
<1>1. \A t : Meanings(row, t)' = Meanings(row, t)
  BY DEF Meanings, Known
<1>2. \A t, w : Lookup(t, w)' = Lookup(t, w)
  BY DEF Lookup, TargetOf
<1>3. Candidate(row, r)' = Candidate(row, r)
  BY <1>2 DEF Candidate
<1>4. Compatible(row, r)' = Compatible(row, r)
  BY <1>1, <1>3 DEF Compatible
<1>5. CompareTemplate(row, r)' = CompareTemplate(row, r)
  BY <1>4 DEF CompareTemplate, Known
<1>6. Normalize(r, row.witnesses)' = Normalize(r, row.witnesses)
  BY <1>2 DEF Normalize
<1>7. QED
  BY <1>5, <1>6 DEF Verdict

\* A resolved receipt answers the same while its identity and witnesses stay.
LEMMA ResolvedStays ==
  ASSUME NEW row, NEW was, row.identity = was.identity, row.witnesses = was.witnesses,
         ~Unresolved(row), ~Unresolved(was), NEW r, LocatorsOf(r) \subseteq DOMAIN was.witnesses
  PROVE  Verdict(row, r)' = Verdict(was, r)
<1>1. Normalize(r, was.witnesses)' = Normalize(r, was.witnesses)
  BY ReadAlike
<1>2. QED
  BY <1>1 DEF Verdict, Unresolved

\* A creator that allocates an identity takes one that its dependents' templates allow.
LEMMA FactsSettle ==
  ASSUME AInv, [Next]_vars, identities' \subseteq Uris,
         NEW k \in DOMAIN receipts, NEW was, was = receipts[k], Unresolved(was),
         k \in DOMAIN receipts', NEW new, new = receipts'[k], Alike(new, was)
  PROVE  Settling(was)
<1>1. IInv /\ RowsAreRead /\ CallerShapes
  BY DEF AInv, IInv
<1>2. PICK a \in Attempts : \E m \in attempts[a].owned :
        /\ Active(a) /\ was.attempt = a /\ was.request = attempts[a].program[m].request
  BY <1>1 DEF IInv, UnresolvedHasTurn
<1>3. attempts'[a].phase = "active"
  <2>1. UnresolvedHasTurn'
    BY <1>1, UnresolvedHolds
  <2>2. Unresolved(new) /\ new.attempt = a
    BY <1>2 DEF Alike, Unresolved
  <2>3. QED
    BY <2>1, <2>2 DEF UnresolvedHasTurn, Active, Unresolved
<1>4. /\ was.identity = was.request /\ was.supplied = Supplied(attempts[a].program)
  BY <1>1, <1>2 DEF RowsAreRead, RowIsRead
<1>5. ASSUME NEW i \in CreatorsOf(was.identity)
      PROVE  LET f == <<was.attempt, i>> IN
             \/ facts'[f] = facts[f]
             \/ /\ facts[f] = None
                /\ \/ facts'[f] \in {None, Unbound, Transient}
                   \/ \E u \in MayBe(was.supplied[i]) : facts'[f] = Uri(u)
  <2> DEFINE p == attempts[a].program
  <2>1. PICK m \in 1..Len(p) : was.request = p[m].request /\ p \in Programs
    BY <1>1, <1>2, ActiveHolds
  <2>2. i \in 1..(m - 1) /\ Creates(p[i].request) /\ m \in 1..Len(p) /\ Len(p) \in Nat
    BY <1>4, <1>5, <2>1, ProgramHolds
  <2>3. i \in CreatingMembers(p) /\ was.supplied[i] = p[i].request.id
    BY <1>4, <2>2 DEF CreatingMembers, Supplied
  <2>4. MayAllocate(p[i].request.id, identities') \subseteq MayBe(was.supplied[i])
    BY <2>3 DEF MayAllocate, MayBe
  <2>5. \/ facts'[<<a, i>>] = facts[<<a, i>>]
        \/ /\ facts[<<a, i>>] = None
           /\ \/ facts'[<<a, i>>] \in {Unbound, Transient}
              \/ \E u \in MayAllocate(p[i].request.id, identities') : facts'[<<a, i>>] = Uri(u)
    BY <1>2, <1>3, <2>3, FactChanges
  <2>6. QED
    BY <1>2, <2>4, <2>5
<1>6. QED
  BY <1>5 DEF Settling

\* What a creator is bound to is no alias, and is read as it is.
LEMMA BoundTerm ==
  ASSUME NEW t, t = Unbound \/ \E u : t = Uri(u)
  PROVE  t.kind # "alias" /\ Lookup(t, NoWitnesses) = t
<1>1. t.kind # "alias"
  BY DEF Unbound, Uri
<1>2. QED
  BY <1>1 DEF Lookup

\* The member whose turn it is, with its creators bound, has its own aliases.
LEMMA BoundMember ==
  ASSUME AInv, NEW a \in Attempts, Active(a), ~Waiting(a)
  PROVE  LET r == Member(a).request
             bound == [f \in DOMAIN r.refs |-> IF r.refs[f].kind = "creator"
                                               THEN facts[<<a, r.refs[f].at>>] ELSE r.refs[f]] IN
         /\ WellFormed(r) /\ Bind(r, a) = Request(r.op, r.id, bound)
         /\ \A i \in CreatorsOf(r) :
              /\ Known(a, i)
              /\ facts[<<a, i>>] = Unbound \/ \E u : facts[<<a, i>>] = Uri(u)
         /\ LocatorsOf(Bind(r, a)) = LocatorsOf(r)
<1> DEFINE r == Member(a).request
           n == attempts[a].next
           p == attempts[a].program
           bound == [f \in DOMAIN r.refs |-> IF r.refs[f].kind = "creator"
                                             THEN facts[<<a, r.refs[f].at>>] ELSE r.refs[f]]
<1>1. /\ p \in Programs /\ n \in 1..Len(p) /\ r = p[n].request /\ WellFormed(r) /\ n \in Nat
  BY ActiveHolds DEF AInv, IInv
<1>2. Bind(r, a) = Request(r.op, r.id, bound)
  BY <1>1, OtherRefs DEF Bind, WellFormed
<1>3. ASSUME NEW i \in CreatorsOf(r)
      PROVE  /\ Known(a, i)
             /\ facts[<<a, i>>] = Unbound \/ \E u : facts[<<a, i>>] = Uri(u)
  <2>1. i \in 1..(n - 1) /\ Creates(p[i].request) /\ Len(p) \in Nat
    BY <1>1, ProgramHolds
  <2>2. i \in CreatingMembers(p) /\ i < n
    BY <1>1, <2>1 DEF CreatingMembers
  <2>3. facts[<<a, i>>] # None
    BY <2>2 DEF AInv, IInv, DeferredHasFacts
  <2>4. facts[<<a, i>>] # Transient
    BY DEF Waiting
  <2>5. facts[<<a, i>>] \in {None, Unbound, Transient} \/ \E u : facts[<<a, i>>] = Uri(u)
    BY <2>2 DEF AInv, FactsFit
  <2>6. QED
    BY <2>3, <2>4, <2>5 DEF Known
<1>4. ASSUME NEW f \in DOMAIN r.refs, r.refs[f].kind = "creator" PROVE bound[f].kind # "alias"
  <2>1. r.refs[f].at \in CreatorsOf(r)
    BY <1>4 DEF CreatorsOf, OfKind
  <2>2. bound[f] = Unbound \/ \E u : bound[f] = Uri(u)
    BY <1>3, <1>4, <2>1
  <2> HIDE DEF bound
  <2>3. QED
    BY <2>2, BoundTerm
<1>5. Bind(r, a).refs = bound
  BY <1>2, RequestParts
<1>6. ASSUME NEW l PROVE l \in LocatorsOf(Bind(r, a)) <=> l \in LocatorsOf(r)
  <2>1. l \in LocatorsOf(Bind(r, a)) <=> \E f \in DOMAIN r.refs : bound[f].kind = "alias" /\ l = bound[f].at
    <3>1. DOMAIN bound = DOMAIN r.refs
      OBVIOUS
    <3> HIDE DEF bound
    <3>2. QED
      BY <1>5, <3>1 DEF LocatorsOf, OfKind
  <2>2. l \in LocatorsOf(r) <=> \E f \in DOMAIN r.refs : r.refs[f].kind = "alias" /\ l = r.refs[f].at
    BY DEF LocatorsOf, OfKind
  <2>3. \A f \in DOMAIN r.refs : /\ bound[f].kind = "alias" <=> r.refs[f].kind = "alias"
                                 /\ r.refs[f].kind = "alias" => bound[f] = r.refs[f]
    BY <1>4
  <2> HIDE DEF bound
  <2>4. QED
    BY <2>1, <2>2, <2>3
<1>7. LocatorsOf(Bind(r, a)) = LocatorsOf(r)
  BY <1>6
<1>8. QED
  BY <1>1, <1>2, <1>3, <1>7

\* A turn resolves its own reservation as its template allows.
LEMMA TurnResolves ==
  ASSUME AInv, identities \subseteq Uris, NEW a \in Attempts, mode = "open", Active(a), ~Waiting(a),
         Owns(a), NEW was, was = receipts[Member(a).key]
  PROVE  LET row == TurnRow(a) IN
         /\ Unresolved(was) =>
              Resolves(row, was) /\ DOMAIN row.witnesses = LocatorsOf(was.identity)
         /\ ~Unresolved(was) => row.identity = was.identity /\ row.witnesses = was.witnesses
<1> DEFINE r == Member(a).request
           n == attempts[a].next
           p == attempts[a].program
           row == TurnRow(a)
           bound == [f \in DOMAIN r.refs |-> IF r.refs[f].kind = "creator"
                                             THEN facts[<<a, r.refs[f].at>>] ELSE r.refs[f]]
           read == [f \in DOMAIN r.refs |-> Lookup(bound[f], NoWitnesses)]
<1>1. IInv /\ CallerShapes /\ RowsAreRead
  BY DEF AInv, IInv
<1>2. /\ WellFormed(r) /\ Bind(r, a) = Request(r.op, r.id, bound)
      /\ LocatorsOf(Bind(r, a)) = LocatorsOf(r)
  BY BoundMember
<1>3. \A i \in CreatorsOf(r) :
        /\ Known(a, i)
        /\ facts[<<a, i>>] = Unbound \/ \E u : facts[<<a, i>>] = Uri(u)
  BY BoundMember
<1>4. /\ p \in Programs /\ n \in 1..Len(p) /\ r = p[n].request /\ n \in Nat
  BY <1>1, ActiveHolds
<1>5. /\ Member(a).key \in DOMAIN receipts /\ was.owner = MemberClaim(a, n) /\ was.owner # None
      /\ was.transaction = MemberClaim(a, n) /\ was.owner \notin Calls
  <2>1. Member(a).key \in DOMAIN receipts /\ was.owner = MemberClaim(a, n) /\ was.owner # None
    BY <1>1, <1>4, OwnedMember, ClaimsDiffer
  <2>2. was.owner \in {None, was.transaction}
    BY <1>1, <2>1 DEF IInv, RowShapes, RowFits
  <2>3. QED
    BY <1>4, <2>1, <2>2, ClaimsDiffer
<1>6. row.witnesses = Witnesses(Bind(r, a)) /\ row.identity = Normalize(Bind(r, a), NoWitnesses)
  BY DEF TurnRow, NewRow
<1>7. Bind(r, a).refs = bound
  BY <1>2, RequestParts
<1>8. row.identity = Request(r.op, r.id, read) /\ row.identity.refs = read
  <2>1. Normalize(Bind(r, a), NoWitnesses) = [Bind(r, a) EXCEPT !.refs = read]
    BY <1>7 DEF Normalize
  <2>2. Bind(r, a) = Request(Bind(r, a).op, Bind(r, a).id, Bind(r, a).refs)
        /\ Bind(r, a).op = r.op /\ Bind(r, a).id = r.id
    BY <1>2, RequestParts
  <2> HIDE DEF read, bound
  <2>3. QED
    BY <1>6, <2>1, <2>2, OtherRefs, RequestParts
<1>9. CASE Unresolved(was)
  <2>1. was.attempt = a /\ was.request = r
    <3>1. PICK b \in Attempts : \E i \in attempts[b].owned :
            /\ Active(b) /\ was.attempt = b /\ was.owner = MemberClaim(b, i)
            /\ was.request = attempts[b].program[i].request
      BY <1>1, <1>5, <1>9 DEF IInv, UnresolvedHasTurn
    <3>2. PICK i \in attempts[b].owned : /\ was.owner = MemberClaim(b, i)
                                         /\ was.request = attempts[b].program[i].request
      BY <3>1
    <3>3. b = a /\ i = n
      <4>1. MemberClaim(b, i) = MemberClaim(a, n)
        BY <1>5, <3>2
      <4>2. QED
        BY <4>1 DEF MemberClaim
    <3>4. QED
      BY <1>4, <3>1, <3>2, <3>3
  <2>2. was.identity = r
    BY <1>1, <1>5, <1>9, <2>1 DEF RowsAreRead, RowIsRead
  <2>3. ASSUME NEW f \in DOMAIN r.refs
        PROVE  read[f] = CASE r.refs[f].kind = "creator" -> facts[<<a, r.refs[f].at>>]
                           [] r.refs[f].kind = "alias" -> TargetOf(r.refs[f].at)
                           [] OTHER -> r.refs[f]
    <3>1. CASE r.refs[f].kind = "creator"
      <4>1. r.refs[f].at \in CreatorsOf(r)
        BY <3>1 DEF CreatorsOf, OfKind
      <4>2. bound[f] = Unbound \/ \E u : bound[f] = Uri(u)
        BY <1>3, <3>1, <4>1
      <4>3. Lookup(bound[f], NoWitnesses) = bound[f]
        <5> HIDE DEF bound
        <5> QED BY <4>2, BoundTerm
      <4>4. QED
        BY <3>1, <4>3
    <3>2. CASE r.refs[f].kind = "alias"
      BY <3>2 DEF Lookup, NoWitnesses
    <3>3. CASE r.refs[f].kind \notin {"creator", "alias"}
      BY <3>3 DEF Lookup
    <3>4. QED
      BY <3>1, <3>2, <3>3
  <2>4. /\ DOMAIN row.witnesses = LocatorsOf(r)
        /\ \A l \in LocatorsOf(r) : row.witnesses[l] = TargetOf(l)
    BY <1>2, <1>6 DEF Witnesses
  <2>5. \A l \in DOMAIN aliases : aliases[l] \in Uris
    BY <1>1 DEF IInv, TypeOK, Range
  <2>6. row.identity.refs = [f \in DOMAIN was.identity.refs |->
          LET s == was.identity.refs[f] IN
          CASE s.kind = "creator" -> facts[<<was.attempt, s.at>>]
            [] s.kind = "alias" -> TargetOf(s.at)
            [] OTHER -> s]
    <3>1. read = [f \in DOMAIN r.refs |->
            CASE r.refs[f].kind = "creator" -> facts[<<a, r.refs[f].at>>]
              [] r.refs[f].kind = "alias" -> TargetOf(r.refs[f].at)
              [] OTHER -> r.refs[f]]
      BY <2>3
    <3> HIDE DEF read, row, bound
    <3>2. QED
      BY <1>8, <2>1, <2>2, <3>1
  <2>7. row.identity = Request(was.identity.op, was.identity.id, row.identity.refs)
    BY <1>8, <2>2
  <2>8. \A i \in CreatorsOf(was.identity) : Known(was.attempt, i)
    BY <1>3, <2>1, <2>2
  <2>9. Resolves(row, was)
    <3> HIDE DEF row, read
    <3> QED BY <2>2, <2>4, <2>5, <2>6, <2>7, <2>8 DEF Resolves
  <2>10. QED
    BY <1>9, <2>2, <2>4, <2>9
<1>10. CASE ~Unresolved(was)
  <2>1. was.request = r
    <3>1. \/ was.transaction \in Calls
          \/ \E b \in Attempts : \E i \in 1..Len(attempts[b].program) :
               /\ was.transaction = MemberClaim(b, i) /\ attempts[b].phase # "new"
               /\ was.request = attempts[b].program[i].request
      BY <1>1, <1>5 DEF IInv, RowHasTransaction
    <3>2. QED
      BY <1>4, <1>5, <3>1, ClaimsDiffer
  <2>2. ReadsOwn(was) /\ ~Deferred(was.request) /\ was.witnesses = NoWitnesses
    BY <1>1, <1>5, <1>10 DEF RowsAreRead, RowIsRead
  <2>3. LocatorsOf(r) = {} /\ CreatorsOf(r) = {}
    BY <2>1, <2>2 DEF Deferred
  <2>4. \A f \in DOMAIN r.refs : r.refs[f].kind # "creator"
    BY <2>3 DEF CreatorsOf, OfKind
  <2>5. bound = r.refs
    BY <1>2, <2>4 DEF WellFormed
  <2>6. Bind(r, a) = r
    BY <1>2, <2>5 DEF WellFormed
  <2>7. row.witnesses = NoWitnesses
    BY <1>6, <2>3, <2>6, WitnessedReads
  <2>8. was.identity = Normalize(r, NoWitnesses)
    BY <2>1, <2>2 DEF ReadsOwn
  <2>9. QED
    BY <1>6, <1>10, <2>2, <2>6, <2>7, <2>8
<1>11. QED
  BY <1>9, <1>10

\* An old answer stands after any step.
LEMMA OldAnswerStands ==
  ASSUME AInv, [Next]_vars, IdentitiesAreUris, IdentitiesAreUris',
         NEW t \in told, t.key \in DOMAIN receipts', NEW new, new = receipts'[t.key]
  PROVE  StandsIn(t, new)'
<1> DEFINE k == t.key
           q == t.presented
<1>1. IInv /\ ClaimsAreUsed /\ RowsAreRead /\ AnswersStand
  BY DEF AInv
<1>2. SUFFICES ASSUME t.verdict # "busy", new.transaction = t.transaction
               PROVE  IF Unresolved(new)
                      THEN /\ WellFormed(q) /\ Direct(q)
                           /\ LocatorsOf(q) \subseteq LocatorsOf(new.identity) =>
                                CompareTemplate(new, q)' = t.verdict
                      ELSE LocatorsOf(q) \subseteq DOMAIN new.witnesses => Verdict(new, q)' = t.verdict
  BY DEF StandsIn, Unresolved
<1>3. Used(t.transaction)
  BY <1>1 DEF ClaimsAreUsed
<1>4. t.verdict \in {"receipt", "conflict"}
  BY <1>1, <1>2 DEF AnswersStand, Stands
<1>5. ASSUME NEW was, k \in DOMAIN receipts, was = receipts[k], was.transaction = new.transaction
      PROVE  IF Unresolved(was)
             THEN /\ WellFormed(q) /\ Direct(q)
                  /\ LocatorsOf(q) \subseteq LocatorsOf(was.identity) =>
                       CompareTemplate(was, q) = t.verdict
             ELSE LocatorsOf(q) \subseteq DOMAIN was.witnesses => Verdict(was, q) = t.verdict
  BY <1>1, <1>2, <1>5 DEF AnswersStand, Stands, StandsIn
<1>6. ASSUME NEW was, k \in DOMAIN receipts, was = receipts[k], was.transaction = new.transaction,
             ~Unresolved(was), ~Unresolved(new), new.identity = was.identity,
             new.witnesses = was.witnesses, LocatorsOf(q) \subseteq DOMAIN new.witnesses
      PROVE  Verdict(new, q)' = t.verdict
  <2>1. Verdict(was, q) = t.verdict
    BY <1>5, <1>6
  <2>2. QED
    BY <1>6, <2>1, ResolvedStays
<1>7. ASSUME NEW was, k \in DOMAIN receipts, was = receipts[k], Alike(new, was)
      PROVE  IF Unresolved(new)
             THEN /\ WellFormed(q) /\ Direct(q)
                  /\ LocatorsOf(q) \subseteq LocatorsOf(new.identity) =>
                       CompareTemplate(new, q)' = t.verdict
             ELSE LocatorsOf(q) \subseteq DOMAIN new.witnesses => Verdict(new, q)' = t.verdict
  <2>1. /\ was.transaction = new.transaction /\ new.identity = was.identity
        /\ new.witnesses = was.witnesses /\ (Unresolved(new) <=> Unresolved(was))
    BY <1>7 DEF Alike, Unresolved
  <2>2. CASE ~Unresolved(was)
    BY <1>6, <1>7, <2>1, <2>2
  <2>3. CASE Unresolved(was)
    <3>1. WellFormed(q) /\ Direct(q)
      BY <1>5, <1>7, <2>1, <2>3
    <3>2. ASSUME LocatorsOf(q) \subseteq LocatorsOf(new.identity)
          PROVE  CompareTemplate(new, q)' = t.verdict
      <4>1. LocatorsOf(q) \subseteq LocatorsOf(was.identity)
        BY <2>1, <3>2
      <4>2. CompareTemplate(was, q) = t.verdict
        BY <1>5, <1>7, <2>1, <2>3, <4>1
      <4>3. Settling(was)
        BY <1>7, <2>3, FactsSettle DEF IdentitiesAreUris
      <4>4. CompareTemplate(was, q)' = t.verdict
        BY <1>4, <3>1, <4>1, <4>2, <4>3, TemplateStays
      <4>5. CompareTemplate(new, q)' = CompareTemplate(was, q)'
        BY <1>7, TemplateAlike
      <4>6. QED
        BY <4>4, <4>5
    <3>3. QED
      BY <2>1, <2>3, <3>1, <3>2
  <2>4. QED
    BY <2>2, <2>3
<1>8. CASE ReservedFor(k)
  BY <1>1, <1>2, <1>3, <1>8, ReservedFresh
<1>9. ASSUME NEW row, NEW outcome, Executes(k, row, outcome)
      PROVE  ~Unresolved(new) /\ (LocatorsOf(q) \subseteq DOMAIN new.witnesses => Verdict(new, q)' = t.verdict)
  <2>1. Finishes(k, row, outcome)
    BY <1>9 DEF Executes
  <2>2. Final(k, row, outcome)
    BY <2>1, FinishRow
  <2>3. /\ new.identity = row.identity /\ new.witnesses = row.witnesses /\ ~Unresolved(new)
    BY <2>1, <2>2, FinishWitnesses DEF Final, Unresolved
  <2>4. row.transaction = new.transaction /\ k \in DOMAIN receipts
    BY <1>1, <1>2, <1>3, <1>9, ExecutesFresh
  <2>5. PICK was : was = receipts[k]
    OBVIOUS
  <2>6. was.transaction = new.transaction
    BY <1>1, <1>9, <2>4, <2>5, ExecutesFresh
  <2>7. ASSUME NEW c \in Calls, ExecutesCall(c, k, row), LocatorsOf(q) \subseteq DOMAIN new.witnesses
        PROVE  Verdict(new, q)' = t.verdict
    <3>1. was = row /\ ~Unresolved(was)
      BY <2>1, <2>5, <2>7 DEF ExecutesCall, Finishes, Unresolved
    <3>2. QED
      BY <1>6, <2>3, <2>4, <2>5, <2>7, <3>1
  <2>8. ASSUME NEW a \in Attempts, ExecutesTurn(a, k, row), LocatorsOf(q) \subseteq DOMAIN new.witnesses
        PROVE  Verdict(new, q)' = t.verdict
    <3>1. /\ mode = "open" /\ Active(a) /\ ~Waiting(a) /\ k = Member(a).key /\ row = TurnRow(a)
          /\ Owns(a)
      BY <2>4, <2>8 DEF ExecutesTurn, ExecutedTurn
    <3>2. /\ Unresolved(was) => Resolves(row, was) /\ DOMAIN row.witnesses = LocatorsOf(was.identity)
          /\ ~Unresolved(was) => row.identity = was.identity /\ row.witnesses = was.witnesses
      BY <2>5, <3>1, TurnResolves DEF IdentitiesAreUris
    <3>3. CASE ~Unresolved(was)
      BY <1>6, <2>3, <2>4, <2>5, <2>6, <2>8, <3>2, <3>3
    <3>4. CASE Unresolved(was)
      <4>1. LocatorsOf(q) \subseteq LocatorsOf(was.identity)
        BY <2>3, <2>8, <3>2, <3>4
      <4>2. WellFormed(q) /\ Direct(q) /\ CompareTemplate(was, q) = t.verdict
        BY <1>5, <2>4, <2>5, <2>6, <3>4, <4>1
      <4>3. t.verdict = IF Normalize(q, row.witnesses) = row.identity THEN "receipt" ELSE "conflict"
        BY <1>4, <3>2, <3>4, <4>1, <4>2, ResolvedStands
      <4>4. Normalize(q, row.witnesses)' = Normalize(q, row.witnesses)
        BY <2>3, <2>8, ReadAlike
      <4>5. QED
        BY <2>3, <4>3, <4>4 DEF Verdict, Unresolved
    <3>5. QED
      BY <3>3, <3>4
  <2>9. QED
    BY <1>9, <2>3, <2>7, <2>8 DEF Executes
<1>10. CASE k \in DOMAIN receipts /\ Alike(receipts'[k], receipts[k])
  <2>1. PICK was : was = receipts[k]
    OBVIOUS
  <2>2. QED
    BY <1>7, <1>10, <2>1
<1>11. QED
  BY <1>1, <1>8, <1>9, <1>10, RowSteps

\* A resolved receipt answers what it is read to.
LEMMA ReadIsReceipt ==
  ASSUME NEW row, ~Unresolved(row), NEW r, LocatorsOf(r) \subseteq DOMAIN row.witnesses,
         Normalize(r, row.witnesses) = row.identity
  PROVE  Verdict(row, r)' = "receipt"
<1>1. Normalize(r, row.witnesses)' = row.identity
  BY ReadAlike
<1>2. QED
  BY <1>1 DEF Verdict, Unresolved

LEMMA NewAnswerStands ==
  ASSUME AInv, [Next]_vars, NEW t \in told', t \notin told
  PROVE  Stands(t)'
<1>1. IInv /\ RowsAreRead
  BY DEF AInv
<1>2. CASE UNCHANGED <<receipts, aliases, facts>> /\ AnswersCall(t)
  <2>1. PICK k \in DOMAIN receipts : \E r :
          /\ WellFormed(r) /\ Direct(r) /\ Verdict(receipts[k], r) # "undecided"
          /\ t = Answer(k, r, r, Verdict(receipts[k], r), receipts[k])
    BY <1>2 DEF AnswersCall
  <2>2. PICK r : /\ WellFormed(r) /\ Direct(r) /\ Verdict(receipts[k], r) # "undecided"
                 /\ t = Answer(k, r, r, Verdict(receipts[k], r), receipts[k])
    BY <2>1
  <2>3. PICK row : row = receipts[k] /\ row = receipts'[k] /\ k \in DOMAIN receipts'
    BY <1>2, <2>1
  <2>4. t.key = k /\ t.presented = r /\ t.verdict = Verdict(row, r)
    BY <2>2, <2>3 DEF Answer
  <2>5. t.verdict \in {"receipt", "conflict"}
    BY <2>2, <2>3, <2>4 DEF Verdict, CompareTemplate
  <2>6. Verdict(row, r)' = t.verdict /\ CompareTemplate(row, r)' = CompareTemplate(row, r)
    BY <1>2, <2>4, VerdictSame
  <2>7. Unresolved(row) => CompareTemplate(row, r)' = t.verdict
    BY <2>4, <2>6 DEF Verdict
  <2>8. StandsIn(t, row)'
    BY <2>2, <2>4, <2>6, <2>7 DEF StandsIn
  <2>9. QED
    BY <2>3, <2>4, <2>5, <2>8 DEF Stands
<1>3. CASE UNCHANGED <<receipts, aliases>> /\ AnswersMember(t)
  <2>1. PICK a \in Attempts :
          LET key == Member(a).key
              presented == Bind(Member(a).request, a) IN
          /\ key \in DOMAIN receipts
          /\ t = Answer(key, AsSubmitted(a), presented,
                        IF Pending(key) THEN "busy" ELSE Verdict(receipts[key], presented), receipts[key])
    BY <1>3 DEF AnswersMember
  <2>2. PICK k, r : k = Member(a).key /\ r = Bind(Member(a).request, a)
    OBVIOUS
  <2>3. PICK row : row = receipts[k] /\ row = receipts'[k] /\ k \in DOMAIN receipts /\ k \in DOMAIN receipts'
    BY <1>3, <2>1, <2>2
  <2>4. /\ t.key = k /\ t.presented = r
        /\ t.verdict = IF Pending(k) THEN "busy" ELSE Verdict(row, r)
    BY <2>1, <2>2, <2>3 DEF Answer
  <2>5. ~Pending(k) => ~Unresolved(row)
    BY <1>1, <2>3, UnresolvedIsPending
  <2>6. t.verdict \in {"receipt", "conflict", "busy"}
    BY <2>4, <2>5 DEF Verdict
  <2>7. ASSUME t.verdict # "busy", LocatorsOf(r) \subseteq DOMAIN row.witnesses
        PROVE  Verdict(row, r)' = t.verdict /\ ~Unresolved(row)
    <3>1. ~Unresolved(row) /\ t.verdict = Verdict(row, r)
      BY <2>4, <2>5, <2>7
    <3>2. QED
      BY <2>7, <3>1, ResolvedStays
  <2>8. t.verdict # "busy" => ~Unresolved(row)
    BY <2>4, <2>5
  <2>9. StandsIn(t, row)'
    BY <2>4, <2>7, <2>8 DEF StandsIn, Unresolved
  <2>10. QED
    BY <2>3, <2>4, <2>6, <2>9 DEF Stands
<1>4. CASE AnswersExecution(t)
  <2>1. PICK k, row, outcome, original, r :
          /\ Finishes(k, row, outcome)
          /\ t = Answer(k, original, r, "receipt", receipts'[k])
          /\ \/ \E c \in Calls : ExecutesCall(c, k, row) /\ r = calls[c].request
             \/ \E a \in Attempts : ExecutesTurn(a, k, row) /\ r = Bind(Member(a).request, a)
    BY <1>4 DEF AnswersExecution
  <2>2. t.key = k /\ t.presented = r /\ t.verdict = "receipt"
    BY <2>1 DEF Answer
  <2>3. PICK new : new = receipts'[k]
    OBVIOUS
  <2>4. k \in DOMAIN receipts' /\ Final(k, row, outcome)
    BY <2>1, FinishRow
  <2>5. /\ new.identity = row.identity /\ new.witnesses = row.witnesses /\ ~Unresolved(new)
    BY <2>1, <2>3, <2>4, FinishWitnesses DEF Final, Unresolved
  <2>6. LocatorsOf(r) \subseteq DOMAIN row.witnesses /\ Normalize(r, row.witnesses) = row.identity
    <3>1. ASSUME NEW c \in Calls, ExecutesCall(c, k, row), r = calls[c].request
          PROVE  LocatorsOf(r) \subseteq DOMAIN row.witnesses /\ Normalize(r, row.witnesses) = row.identity
      <4>1. mode = "open" /\ calls[c].phase = "owned" /\ k = calls[c].key /\ row = receipts[k]
        BY <3>1 DEF ExecutesCall, Execute
      <4>2. k \in DOMAIN receipts /\ row.owner = c /\ row.owner # None /\ ~Unresolved(row)
        BY <1>1, <4>1, OwnedCall, ClaimsDiffer DEF Unresolved
      <4>3. ReadsOwn(row) /\ row.request = r
        BY <1>1, <3>1, <4>1, <4>2 DEF RowsAreRead, RowIsRead
      <4>4. QED
        BY <4>3 DEF ReadsOwn
    <3>2. ASSUME NEW a \in Attempts, ExecutesTurn(a, k, row), r = Bind(Member(a).request, a)
          PROVE  LocatorsOf(r) \subseteq DOMAIN row.witnesses /\ Normalize(r, row.witnesses) = row.identity
      <4>1. row.witnesses = Witnesses(r) /\ row.identity = Normalize(r, NoWitnesses)
        BY <3>2 DEF ExecutesTurn, TurnRow, NewRow
      <4>2. QED
        BY <4>1, WitnessedReads
    <3>3. QED
      BY <2>1, <3>1, <3>2
  <2>7. Verdict(new, r)' = "receipt"
    BY <2>5, <2>6, ReadIsReceipt
  <2>8. StandsIn(t, new)'
    BY <2>2, <2>5, <2>7 DEF StandsIn, Unresolved
  <2>9. QED
    BY <2>2, <2>3, <2>4, <2>8 DEF Stands
<1>5. QED
  BY <1>1, <1>2, <1>3, <1>4, AnswerSteps

LEMMA AnswersStandHolds ==
  ASSUME AInv, [Next]_vars, IdentitiesAreUris, IdentitiesAreUris' PROVE AnswersStand'
<1>1. ASSUME NEW t \in told, t \in told' PROVE Stands(t)'
  <2>1. t.verdict \in {"receipt", "conflict", "busy"}
    BY DEF AInv, AnswersStand, Stands
  <2>2. ASSUME t.key \in DOMAIN receipts' PROVE \E new : new = receipts'[t.key] /\ StandsIn(t, new)'
    <3>1. PICK new : new = receipts'[t.key]
      OBVIOUS
    <3>2. QED
      BY <2>2, <3>1, OldAnswerStands
  <2>3. QED
    BY <2>1, <2>2 DEF Stands
<1>2. ASSUME NEW t \in told' PROVE Stands(t)'
  BY <1>1, <1>2, NewAnswerStands
<1>3. QED
  BY <1>2 DEF AnswersStand

LEMMA InitAnswers == ASSUME Init PROVE AInv
<1>1. IInv
  BY InitHolds
<1>2. DOMAIN receipts = {} /\ told = {}
  BY DEF Init, NoRow
<1>3. ClaimsAreUsed /\ RowsAreRead /\ AllocationsFit /\ AnswersStand
  BY <1>2 DEF ClaimsAreUsed, RowsAreRead, AllocationsFit, AnswersStand
<1>4. FactsFit
  BY DEF Init, FactsFit, Active
<1>5. QED
  BY <1>1, <1>3, <1>4 DEF AInv

LEMMA StepAnswers ==
  ASSUME AInv, [Next]_vars, IdentitiesAreUris, IdentitiesAreUris' PROVE AInv'
<1>1. IInv'
  BY StepHolds DEF AInv
<1>2. QED
  BY <1>1, ClaimsAreUsedHolds, RowsAreReadHolds, AllocationsFitHolds, FactsFitHolds,
     AnswersStandHolds DEF AInv

\* The inductive invariant of the answers (submitTransaction, nextSequence: what was told
\* of a template is true of what it is resolved to).
THEOREM AnswersInvariance == Spec /\ []IdentitiesAreUris => []AInv
<1>1. Init => AInv
  BY InitAnswers
<1>2. AInv /\ [Next]_vars /\ IdentitiesAreUris /\ IdentitiesAreUris' => AInv'
  BY StepAnswers
<1>3. QED
  BY <1>1, <1>2, PTL DEF Spec

\* An identity that the authority allocates is the position of its group.
THEOREM PositionsAreUris == ASSUME Nat \ {0} \subseteq Uris PROVE Spec => []IdentitiesAreUris
<1>1. IInv => IdentitiesAreUris
  <2>1. ASSUME IInv PROVE identities \subseteq Uris
    <3>1. identities \subseteq Uris \cup 1..Len(groups) /\ Len(groups) \in Nat
      BY <2>1 DEF IInv, TypeOK, RowShapes
    <3>2. 1..Len(groups) \subseteq Uris
      BY <3>1
    <3>3. QED
      BY <3>1, <3>2
  <2>2. QED
    BY <2>1 DEF IdentitiesAreUris
<1>2. QED
  BY <1>1, Invariance, PTL

\* No answer is contradicted while its key has the transaction it was told of (Verdict of
\* transaction-store.ts: a receipt, an unresolved template, then its resolution).
THEOREM Verdicts == Spec /\ []IdentitiesAreUris => []VerdictsStand
<1>1. AInv => VerdictsStand
  BY DEF AInv, AnswersStand, Stands, StandsIn, VerdictsStand
<1>2. QED
  BY <1>1, AnswersInvariance, PTL

-----------------------------------------------------------------------------
(* Retries meet their receipts.                                            *)
(*                                                                         *)
(* Whoever was told an effect presented its creators as what their keys    *)
(* stand for ever after, so a retry whose creators are bound presents the  *)
(* same request, and its answer is the one that stands.                    *)

\* The references of a decided receipt are Resources.
DecidedAreBound ==
  \A k \in DOMAIN receipts : IsDecided(receipts[k]) =>
    \A f \in DOMAIN receipts[k].identity.refs : receipts[k].identity.refs[f].kind = "uri"

\* What a request presents when its creators are what their keys stand for.
BoundTo(original) ==
  Request(original.op, original.id, [f \in DOMAIN original.refs |->
    IF original.refs[f].kind = "creator"
    THEN Uri(receipts[original.refs[f].at].allocated) ELSE original.refs[f]])

CreatorsDecided(original) ==
  \A f \in DOMAIN original.refs : original.refs[f].kind = "creator" => Decided(original.refs[f].at)

TellsEffect(t) == t.verdict = "receipt" /\ t.state \in {"completed", "expired"}

AnswersAreBound ==
  \A t \in told : TellsEffect(t) =>
    /\ Decided(t.key) /\ receipts[t.key].transaction = t.transaction
    /\ CreatorsDecided(t.original) /\ t.presented = BoundTo(t.original)

RInv == AInv /\ DecidedAreBound /\ AnswersAreBound

LEMMA DecidedIsResolved ==
  ASSUME IInv, NEW k, Decided(k)
  PROVE  ~Unresolved(receipts[k]) /\ ~Pending(k)
<1>1. k \in DOMAIN receipts /\ receipts[k].owner = None
  BY DEF Decided, IInv, TypeOK
<1>2. QED
  BY <1>1, UnresolvedIsPending DEF Pending

LEMMA DecidedAreBoundHolds ==
  ASSUME IInv, DecidedAreBound, [Next]_vars PROVE DecidedAreBound'
<1>1. ASSUME NEW k \in DOMAIN receipts', NEW new, new = receipts'[k], IsDecided(new),
             NEW f \in DOMAIN new.identity.refs
      PROVE  new.identity.refs[f].kind = "uri"
  <2>1. CASE k \in DOMAIN receipts /\ IsDecided(receipts[k])
    <3>1. new.identity = receipts[k].identity
      BY <1>1, <2>1, StaysSame, RowsHold
    <3>2. QED
      BY <1>1, <2>1, <3>1 DEF DecidedAreBound
  <2>2. ASSUME NEW row, NEW outcome \in {"noop", "effective"}, Finishes(k, row, outcome)
        PROVE  new.identity.refs[f].kind = "uri"
    <3>1. Final(k, row, outcome)
      BY <2>2, FinishRow
    <3>2. new.identity = row.identity
      BY <1>1, <3>1 DEF Final
    <3>3. outcome \in Outcomes(row.identity)
      BY <2>2 DEF Finishes, Finish
    <3>4. ~\E g \in DOMAIN row.identity.refs : row.identity.refs[g].kind # "uri"
      BY <2>2, <3>3 DEF Outcomes
    <3>5. QED
      BY <1>1, <3>2, <3>4
  <2>3. QED
    BY <1>1, <2>1, <2>2, DecidedOnce
<1>2. QED
  BY <1>1 DEF DecidedAreBound, IsDecided

\* A request of its own is presented as it is.
LEMMA DirectIsBound ==
  ASSUME NEW r, WellFormed(r), Direct(r)
  PROVE  CreatorsDecided(r) /\ BoundTo(r) = r /\ CreatorsDecided(r)' /\ BoundTo(r)' = r
<1>1. \A f \in DOMAIN r.refs : r.refs[f].kind # "creator"
  BY DEF Direct
<1>2. CreatorsDecided(r) /\ CreatorsDecided(r)'
  BY <1>1 DEF CreatorsDecided
<1>3. r.refs = [f \in DOMAIN r.refs |-> r.refs[f]] /\ r = Request(r.op, r.id, r.refs)
  BY DEF WellFormed
<1>4. BoundTo(r) = r
  BY <1>1, <1>3 DEF BoundTo
<1>5. BoundTo(r)' = r
  BY <1>1, <1>3 DEF BoundTo
<1>6. QED
  BY <1>2, <1>4, <1>5

\* What is decided stands for the same Resources after a step.
LEMMA BoundStays ==
  ASSUME IInv, [Next]_vars, NEW r, CreatorsDecided(r)
  PROVE  CreatorsDecided(r)' /\ BoundTo(r)' = BoundTo(r)
<1>1. ASSUME NEW f \in DOMAIN r.refs, r.refs[f].kind = "creator"
      PROVE  /\ Decided(r.refs[f].at)'
             /\ receipts'[r.refs[f].at].allocated = receipts[r.refs[f].at].allocated
  <2>1. r.refs[f].at \in DOMAIN receipts /\ IsDecided(receipts[r.refs[f].at])
    BY <1>1 DEF CreatorsDecided, Decided, IsDecided
  <2>2. QED
    BY <2>1, StaysSame, RowsHold DEF Decided, IsDecided
<1>2. CreatorsDecided(r)'
  BY <1>1 DEF CreatorsDecided
<1>3. BoundTo(r)' = BoundTo(r)
  BY <1>1 DEF BoundTo
<1>4. QED
  BY <1>2, <1>3

\* A member whose creators did not fail presents them as what their keys stand for.
LEMMA MemberIsBound ==
  ASSUME AInv, NEW a \in Attempts, Active(a), ~Waiting(a),
         Unbound \notin Range(Bind(Member(a).request, a).refs)
  PROVE  /\ CreatorsDecided(AsSubmitted(a))
         /\ Bind(Member(a).request, a) = BoundTo(AsSubmitted(a))
<1> DEFINE r == Member(a).request
           p == attempts[a].program
           bound == [f \in DOMAIN r.refs |-> IF r.refs[f].kind = "creator"
                                             THEN facts[<<a, r.refs[f].at>>] ELSE r.refs[f]]
           named == [f \in DOMAIN r.refs |-> IF r.refs[f].kind = "creator"
                                             THEN Creator(p[r.refs[f].at].key) ELSE r.refs[f]]
<1>1. WellFormed(r) /\ Bind(r, a) = Request(r.op, r.id, bound)
  BY BoundMember
<1>2. \A i \in CreatorsOf(r) : facts[<<a, i>>] = Unbound \/ \E u : facts[<<a, i>>] = Uri(u)
  BY BoundMember
<1>3. AsSubmitted(a) = Request(r.op, r.id, named)
  <2>1. AsSubmitted(a) = [r EXCEPT !.refs = named]
    BY DEF AsSubmitted
  <2> HIDE DEF named
  <2>2. QED
    BY <1>1, <2>1, OtherRefs DEF WellFormed
<1>4. ASSUME NEW f \in DOMAIN r.refs, r.refs[f].kind = "creator"
      PROVE  LET key == p[r.refs[f].at].key IN
             Decided(key) /\ bound[f] = Uri(receipts[key].allocated) /\ named[f] = Creator(key)
  <2> DEFINE i == r.refs[f].at
  <2>1. i \in CreatorsOf(r)
    BY <1>4 DEF CreatorsOf, OfKind
  <2>2. i \in CreatingMembers(p)
    <3>1. p \in Programs /\ \E n \in 1..Len(p) : r = p[n].request
      BY ActiveHolds DEF AInv, IInv
    <3>2. PICK n \in 1..Len(p) : i \in 1..(n - 1) /\ Creates(p[i].request) /\ Len(p) \in Nat
      BY <2>1, <3>1, ProgramHolds
    <3> HIDE DEF i, p
    <3>3. i \in 1..Len(p)
      BY <3>2
    <3>4. QED
      BY <3>2, <3>3 DEF CreatingMembers
  <2>3. facts[<<a, i>>] = bound[f] /\ named[f] = Creator(p[i].key)
    BY <1>4
  <2>4. facts[<<a, i>>] # Unbound
    <3>1. bound[f] \in Range(bound)
      BY DEF Range
    <3>2. Bind(r, a).refs = bound
      BY <1>1, RequestParts
    <3> HIDE DEF bound
    <3>3. QED
      BY <2>3, <3>1, <3>2
  <2>5. facts[<<a, i>>] \notin {None, Transient}
    BY <2>1, BoundMember DEF Known
  <2>6. Decided(p[i].key) /\ facts[<<a, i>>] = Uri(receipts[p[i].key].allocated)
    BY <2>2, <2>4, <2>5 DEF AInv, IInv, FactsAreAllocations
  <2>7. QED
    BY <2>3, <2>6
<1>5. ASSUME NEW f \in DOMAIN r.refs
      PROVE  /\ named[f].kind = "creator" <=> r.refs[f].kind = "creator"
             /\ named[f].kind = "creator" => named[f].at = p[r.refs[f].at].key
             /\ r.refs[f].kind # "creator" => named[f] = r.refs[f] /\ bound[f] = r.refs[f]
  BY DEF Creator
<1>6. CreatorsDecided(AsSubmitted(a))
  <2>1. AsSubmitted(a).refs = named
    <3> HIDE DEF named, bound
    <3> QED BY <1>3, RequestParts
  <2>2. DOMAIN named = DOMAIN r.refs
    OBVIOUS
  <2> HIDE DEF named, bound
  <2>3. QED
    BY <1>4, <1>5, <2>1, <2>2 DEF CreatorsDecided
<1>7. bound = [f \in DOMAIN named |-> IF named[f].kind = "creator"
                                      THEN Uri(receipts[named[f].at].allocated) ELSE named[f]]
  <2>1. DOMAIN named = DOMAIN r.refs /\ bound = [f \in DOMAIN r.refs |-> bound[f]]
    OBVIOUS
  <2> HIDE DEF named, bound
  <2>2. QED
    BY <1>4, <1>5, <2>1
<1>8. Bind(r, a) = BoundTo(AsSubmitted(a))
  <2>1. AsSubmitted(a).op = r.op /\ AsSubmitted(a).id = r.id /\ AsSubmitted(a).refs = named
    <3> HIDE DEF named, bound
    <3> QED BY <1>3, RequestParts
  <2> HIDE DEF named, bound
  <2>2. QED
    BY <1>1, <1>7, <2>1 DEF BoundTo
<1>9. QED
  BY <1>6, <1>8

LEMMA AnswersAreBoundHolds ==
  ASSUME RInv, [Next]_vars, NEW t \in told', TellsEffect(t)
  PROVE  (/\ Decided(t.key) /\ receipts[t.key].transaction = t.transaction
          /\ CreatorsDecided(t.original) /\ t.presented = BoundTo(t.original))'
<1> DEFINE Goal ==
         /\ Decided(t.key)' /\ receipts'[t.key].transaction = t.transaction
         /\ CreatorsDecided(t.original)' /\ t.presented = BoundTo(t.original)'
<1>1. AInv /\ IInv /\ DecidedAreBound /\ AnswersAreBound
  BY DEF RInv, AInv
<1>2. CASE t \in told
  <2>1. /\ Decided(t.key) /\ receipts[t.key].transaction = t.transaction
        /\ CreatorsDecided(t.original) /\ t.presented = BoundTo(t.original)
    BY <1>1, <1>2 DEF AnswersAreBound
  <2>2. CreatorsDecided(t.original)' /\ BoundTo(t.original)' = BoundTo(t.original)
    BY <1>1, <2>1, BoundStays
  <2>3. Decided(t.key)' /\ receipts'[t.key].transaction = receipts[t.key].transaction
    BY <1>1, <2>1, StaysSame, RowsHold DEF Decided, IsDecided
  <2>4. QED
    BY <2>1, <2>2, <2>3
<1>3. ASSUME t \notin told, receipts' = receipts, AnswersCall(t) PROVE Goal
  <2>1. PICK k \in DOMAIN receipts : \E r :
          /\ WellFormed(r) /\ Direct(r) /\ \E v : t = Answer(k, r, r, v, receipts[k])
    BY <1>3 DEF AnswersCall
  <2>2. PICK r : WellFormed(r) /\ Direct(r) /\ \E v : t = Answer(k, r, r, v, receipts[k])
    BY <2>1
  <2>3. /\ t.key = k /\ t.original = r /\ t.presented = r /\ t.state = receipts[k].state
        /\ t.transaction = receipts[k].transaction
    BY <2>2 DEF Answer
  <2>4. Decided(k)'
    BY <1>3, <2>3 DEF TellsEffect, Decided
  <2>5. QED
    BY <1>3, <2>2, <2>3, <2>4, DirectIsBound
<1>4. ASSUME t \notin told, receipts' = receipts, AnswersMember(t) PROVE Goal
  <2>1. PICK a \in Attempts :
          LET key == Member(a).key
              presented == Bind(Member(a).request, a) IN
          /\ Active(a) /\ ~Waiting(a) /\ key \in DOMAIN receipts
          /\ t = Answer(key, AsSubmitted(a), presented,
                        IF Pending(key) THEN "busy" ELSE Verdict(receipts[key], presented), receipts[key])
    BY <1>4 DEF AnswersMember
  <2>2. PICK k, r : k = Member(a).key /\ r = Bind(Member(a).request, a)
    OBVIOUS
  <2>3. /\ t.key = k /\ t.original = AsSubmitted(a) /\ t.presented = r
        /\ t.verdict = IF Pending(k) THEN "busy" ELSE Verdict(receipts[k], r)
        /\ t.state = receipts[k].state /\ t.transaction = receipts[k].transaction
        /\ k \in DOMAIN receipts
    BY <2>1, <2>2 DEF Answer
  <2>4. Decided(k) /\ Verdict(receipts[k], r) = "receipt"
    BY <2>3 DEF TellsEffect, Decided
  <2>5. Normalize(r, receipts[k].witnesses) = receipts[k].identity
    BY <1>1, <2>4, DecidedIsResolved DEF Verdict
  <2>6. Unbound \notin Range(r.refs)
    <3>1. SUFFICES ASSUME NEW f \in DOMAIN r.refs, r.refs[f] = Unbound PROVE FALSE
      BY DEF Range
    <3>2. DOMAIN r = {"op", "id", "refs"}
      <4>1. \E op, id, refs : r = Request(op, id, refs)
        BY <1>1, <2>1, <2>2, BoundMember
      <4>2. QED
        BY <4>1, RequestParts
    <3>3. /\ receipts[k].identity.refs = [g \in DOMAIN r.refs |-> Lookup(r.refs[g], receipts[k].witnesses)]
      BY <2>5, <3>2 DEF Normalize
    <3>4. receipts[k].identity.refs[f].kind = "unbound"
      BY <3>1, <3>3 DEF Lookup, Unbound
    <3>5. receipts[k].identity.refs[f].kind = "uri"
      BY <1>1, <2>3, <2>4, <3>1, <3>3 DEF DecidedAreBound, Decided, IsDecided
    <3>6. QED
      BY <3>4, <3>5
  <2>7. CreatorsDecided(AsSubmitted(a)) /\ r = BoundTo(AsSubmitted(a))
    BY <1>1, <2>1, <2>2, <2>6, MemberIsBound
  <2>8. PICK o : o = AsSubmitted(a)
    OBVIOUS
  <2>9. CreatorsDecided(o)' /\ BoundTo(o)' = BoundTo(o)
    BY <1>1, <2>7, <2>8, BoundStays
  <2>10. Decided(k)'
    BY <1>4, <2>4 DEF Decided
  <2>11. QED
    BY <1>4, <2>3, <2>7, <2>8, <2>9, <2>10
<1>5. ASSUME t \notin told, AnswersExecution(t) PROVE Goal
  <2>1. PICK k, row, outcome, o, r :
          /\ Finishes(k, row, outcome) /\ t = Answer(k, o, r, "receipt", receipts'[k])
          /\ \/ \E c \in Calls : ExecutesCall(c, k, row) /\ r = calls[c].request /\ o = r
             \/ \E a \in Attempts :
                  ExecutesTurn(a, k, row) /\ r = Bind(Member(a).request, a) /\ o = AsSubmitted(a)
    BY <1>5 DEF AnswersExecution
  <2>2. /\ t.key = k /\ t.original = o /\ t.presented = r
        /\ t.state = receipts'[k].state /\ t.transaction = receipts'[k].transaction
    BY <2>1 DEF Answer
  <2>3. k \in DOMAIN receipts' /\ Final(k, row, outcome)
    BY <2>1, FinishRow
  <2>4. Decided(k)' /\ IsDecided(receipts'[k])
    BY <2>2, <2>3 DEF TellsEffect, Decided, IsDecided
  <2>5. ASSUME NEW c \in Calls, ExecutesCall(c, k, row), r = calls[c].request, o = r
        PROVE  CreatorsDecided(o)' /\ BoundTo(o)' = r
    <3>1. calls[c].phase = "owned"
      BY <2>5 DEF ExecutesCall, Execute
    <3>2. WellFormed(r) /\ Direct(r)
      BY <1>1, <2>5, <3>1 DEF IInv, CallerShapes, CallFits
    <3>3. QED
      BY <2>5, <3>2, DirectIsBound
  <2>6. ASSUME NEW a \in Attempts, ExecutesTurn(a, k, row), r = Bind(Member(a).request, a),
               o = AsSubmitted(a)
        PROVE  CreatorsDecided(o)' /\ BoundTo(o)' = r
    <3>1. Active(a) /\ ~Waiting(a) /\ row = TurnRow(a)
      BY <2>6 DEF ExecutesTurn, ExecutedTurn
    <3>2. receipts'[k].identity = Normalize(r, NoWitnesses)
      BY <2>3, <2>6, <3>1 DEF Final, TurnRow, NewRow
    <3>3. Unbound \notin Range(r.refs)
      <4>1. SUFFICES ASSUME NEW f \in DOMAIN r.refs, r.refs[f] = Unbound PROVE FALSE
        BY DEF Range
      <4>2. DOMAIN r = {"op", "id", "refs"}
        <5>1. \E op, id, refs : r = Request(op, id, refs)
          BY <1>1, <2>6, <3>1, BoundMember
        <5>2. QED
          BY <5>1, RequestParts
      <4>3. receipts'[k].identity.refs = [g \in DOMAIN r.refs |-> Lookup(r.refs[g], NoWitnesses)]
        BY <3>2, <4>2 DEF Normalize
      <4>4. receipts'[k].identity.refs[f].kind = "unbound"
        BY <4>1, <4>3 DEF Lookup, Unbound
      <4>5. DecidedAreBound'
        BY <1>1, DecidedAreBoundHolds
      <4>6. receipts'[k].identity.refs[f].kind = "uri"
        BY <2>3, <2>4, <4>1, <4>3, <4>5 DEF DecidedAreBound, IsDecided
      <4>7. QED
        BY <4>4, <4>6
    <3>4. CreatorsDecided(o) /\ r = BoundTo(o)
      BY <1>1, <2>6, <3>1, <3>3, MemberIsBound
    <3>5. QED
      BY <1>1, <3>4, BoundStays
  <2>7. QED
    BY <2>1, <2>2, <2>4, <2>5, <2>6
<1>6. Goal
  BY <1>1, <1>2, <1>3, <1>4, <1>5, AnswerSteps
<1>7. QED
  BY <1>6

\* A conflict is not told of the request that the key's effect was told of.
LEMMA RetryMeetsReceipt ==
  ASSUME RInv, [Next]_vars, NEW u \in told', u \notin told, u.verdict = "conflict",
         Unbound \notin Range(u.presented.refs),
         LocatorsOf(u.presented) \subseteq DOMAIN receipts[u.key].witnesses,
         NEW t \in told, t.key = u.key, t.original = u.original, TellsEffect(t)
  PROVE  FALSE
<1>1. AInv /\ IInv /\ AnswersStand /\ AnswersAreBound
  BY DEF RInv, AInv
<1>2. /\ Decided(t.key) /\ receipts[t.key].transaction = t.transaction
      /\ t.presented = BoundTo(t.original)
  BY <1>1 DEF AnswersAreBound
<1>3. ~Unresolved(receipts[t.key]) /\ ~Pending(t.key)
  BY <1>1, <1>2, DecidedIsResolved
<1>4. LocatorsOf(t.presented) \subseteq DOMAIN receipts[t.key].witnesses =>
        Verdict(receipts[t.key], t.presented) = "receipt"
  BY <1>1, <1>2, <1>3 DEF AnswersStand, Stands, StandsIn, Decided, TellsEffect
<1>5. SUFFICES u.presented = t.presented /\ Verdict(receipts[t.key], u.presented) = "conflict"
  BY <1>4
<1>6. CASE AnswersCall(u)
  <2>1. PICK k \in DOMAIN receipts : \E r :
          /\ WellFormed(r) /\ Direct(r)
          /\ u = Answer(k, r, r, Verdict(receipts[k], r), receipts[k])
    BY <1>6 DEF AnswersCall
  <2>2. PICK r : WellFormed(r) /\ Direct(r) /\ u = Answer(k, r, r, Verdict(receipts[k], r), receipts[k])
    BY <2>1
  <2>3. u.key = k /\ u.original = r /\ u.presented = r /\ u.verdict = Verdict(receipts[k], r)
    BY <2>2 DEF Answer
  <2>4. BoundTo(r) = r
    BY <2>2, DirectIsBound
  <2>5. QED
    BY <1>2, <2>3, <2>4
<1>7. CASE AnswersMember(u)
  <2>1. PICK a \in Attempts :
          LET key == Member(a).key
              presented == Bind(Member(a).request, a) IN
          /\ Active(a) /\ ~Waiting(a) /\ key \in DOMAIN receipts
          /\ u = Answer(key, AsSubmitted(a), presented,
                        IF Pending(key) THEN "busy" ELSE Verdict(receipts[key], presented), receipts[key])
    BY <1>7 DEF AnswersMember
  <2>2. PICK k, r : k = Member(a).key /\ r = Bind(Member(a).request, a)
    OBVIOUS
  <2>3. /\ u.key = k /\ u.original = AsSubmitted(a) /\ u.presented = r
        /\ u.verdict = IF Pending(k) THEN "busy" ELSE Verdict(receipts[k], r)
    BY <2>1, <2>2 DEF Answer
  <2>4. r = BoundTo(AsSubmitted(a))
    BY <1>1, <2>1, <2>2, <2>3, MemberIsBound
  <2>5. QED
    BY <1>2, <1>3, <2>3, <2>4
<1>8. CASE AnswersExecution(u)
  BY <1>8 DEF AnswersExecution, Answer
<1>9. QED
  BY <1>1, <1>6, <1>7, <1>8, AnswerSteps

\* The inductive invariant of the retries (transaction-store.ts keeps for each effect what
\* its key stands for, and a sequence binds its creators to that).
THEOREM RetriesInvariance == Spec /\ []IdentitiesAreUris => []RInv
<1>1. ASSUME Init PROVE RInv
  <2>1. AInv /\ DOMAIN receipts = {} /\ told = {}
    BY <1>1, InitAnswers DEF Init, NoRow
  <2>2. QED
    BY <2>1 DEF RInv, DecidedAreBound, AnswersAreBound
<1>2. ASSUME RInv, [Next]_vars, IdentitiesAreUris, IdentitiesAreUris' PROVE RInv'
  <2>1. AInv'
    BY <1>2, StepAnswers DEF RInv
  <2>2. DecidedAreBound'
    BY <1>2, DecidedAreBoundHolds DEF RInv, AInv
  <2>3. AnswersAreBound'
    BY <1>2, AnswersAreBoundHolds DEF AnswersAreBound, TellsEffect
  <2>4. QED
    BY <2>1, <2>2, <2>3 DEF RInv
<1>3. QED
  BY <1>1, <1>2, PTL DEF Spec

\* No retry conflicts with the effect of its own key (admitKey, nextSequence: a request
\* that was told a completed receipt and is presented again, its creators bound).
THEOREM Retries == Spec /\ []IdentitiesAreUris => RetriesMeetTheirReceipts
<1>1. ASSUME RInv, [Next]_vars
      PROVE  [\A u \in told' \ told :
                /\ u.verdict = "conflict" /\ Unbound \notin Range(u.presented.refs)
                /\ LocatorsOf(u.presented) \subseteq DOMAIN receipts[u.key].witnesses
                => ~\E t \in told : /\ t.key = u.key /\ t.original = u.original
                                    /\ t.verdict = "receipt" /\ t.state \in {"completed", "expired"}
             ]_vars
  BY <1>1, RetryMeetsReceipt DEF TellsEffect
<1>2. QED
  BY <1>1, RetriesInvariance, PTL DEF Spec, RetriesMeetTheirReceipts
=============================================================================
