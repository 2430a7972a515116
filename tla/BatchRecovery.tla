----------------------------- MODULE BatchRecovery -----------------------------
(***************************************************************************)
(* The consistency check a store of format 6 passes before it opens        *)
(* (verifyGroupedRecovery of retained-v01/batch-recovery.ts).  It replays  *)
(* the decisions, each with the group of Resources it changed, and judges  *)
(* the graph and the events after every group, never inside one.           *)
(***************************************************************************)
EXTENDS RetainedBatch

CONSTANT MaximumWitnesses  \* aliases the check allows a batch to have kept

\* The check allows three for each of the 32 members a batch may have; a member
\* has at most two References.
ASSUME WitnessesAssumption ==
  MaximumWitnesses \in Nat /\ 2 * MaximumOperations <= MaximumWitnesses

Empty ==
  [live |-> [id \in {} |-> None],        \* the Resources: URI -> kind and body
   committed |-> [id \in {} |-> None],   \* the identities: URI -> kind
   aliases |-> [uri \in {} |-> None],
   revisions |-> {},                     \* Resource and revision, all there were
   position |-> 0,                       \* events accounted for
   ok |-> TRUE]

FactsOf(o) == IF o.op = "batch" THEN o.facts ELSE {o.position} \ {0}
Accepted(o) == o.response.result \in {"applied", "created", "updated", "unchanged", "deleted"}

WitnessLimit(op) ==
  CASE op = "batch" -> MaximumWitnesses
    [] op \in {"createBead", "deleteLink", "putAlias", "deleteAlias"} -> 0
    [] op \in {"updateBead", "deleteBead"} -> 1
    [] OTHER -> 2

WitnessesStand(s, o) ==
  /\ Cardinality(DOMAIN o.witnesses) <= WitnessLimit(o.op)
  /\ \A uri \in DOMAIN o.witnesses :
       /\ uri \notin DOMAIN s.committed
       /\ IF o.witnesses[uri] = None THEN uri \notin DOMAIN s.aliases
          ELSE /\ uri \in DOMAIN s.aliases /\ s.aliases[uri] = o.witnesses[uri]
               /\ o.witnesses[uri] \in DOMAIN s.committed
               /\ s.committed[o.witnesses[uri]] = "bead"
-----------------------------------------------------------------------------
(* The group of a decision. *)

SingleGroup(o) ==
  <<[id |-> o.response.id, kind |-> KindOf(o.op), outcome |-> o.response.result,
     body |-> o.response.body]>>

GroupOf(o) == IF o.op = "batch" THEN o.response.rows ELSE SingleGroup(o)

Place(id) == CHOOSE n \in 1..Len(Order) : Order[n] = id

\* The mappings of a batch follow from its stored identity, and its members
\* touch nothing that is not there when their turn comes.
MappingStands(s, o, n) ==
  LET ids == o.response.ids
      member == o.identity[n]
      op == member.request.op
      id == ids[n]
      slot == IF KindOf(op) = "link" THEN member.request.id ELSE member.slots["id"].uri
      earlier(verb) == {ids[m] : m \in {m \in 1..(n - 1) :
                                          VerbOf(o.identity[m].request.op) = verb}} IN
  /\ \A h \in DOMAIN member.handles :
       LET creator == o.identity[member.handles[h]].request.op IN
       /\ member.handles[h] < n /\ VerbOf(creator) = "create"
       /\ KindOf(creator) = IF h = "id" THEN KindOf(op) ELSE "bead"
  /\ IF VerbOf(op) = "create"
     THEN /\ member.request.id \in {None, id}
          /\ id \notin DOMAIN s.committed \cup DOMAIN s.aliases \cup earlier("create")
     ELSE /\ id = IF "id" \in DOMAIN member.handles THEN ids[member.handles["id"]] ELSE slot
          /\ id \in (DOMAIN s.live \cup earlier("create")) \ earlier("delete")
  /\ \E r \in 1..Len(o.response.rows) :
       o.response.rows[r].id = id /\ o.response.rows[r].kind = KindOf(op)

BatchStands(s, o) ==
  LET ids == o.response.ids
      rows == o.response.rows
      subjects(verb) == {ids[n] : n \in {n \in 1..Len(ids) :
                                           VerbOf(o.identity[n].request.op) = verb}}
      alive == (DOMAIN s.live \cup subjects("create")) \ subjects("delete") IN
  /\ Len(ids) = Len(o.identity) /\ ids # <<>>
  /\ \A n \in 1..Len(ids) : MappingStands(s, o, n)
  /\ {rows[r].id : r \in 1..Len(rows)} = {ids[n] : n \in 1..Len(ids)}
  /\ \A r, t \in 1..Len(rows) : r < t => Place(rows[r].id) < Place(rows[t].id)
  /\ \A r \in 1..Len(rows) :
       /\ rows[r].id \in alive <=> rows[r].outcome \in {"created", "updated", "unchanged"}
       /\ rows[r].id \in subjects("create") <=> rows[r].outcome \in {"created", "allocated"}

Same(a, b) == [a EXCEPT !.revision = 0] = [b EXCEPT !.revision = 0]

RowStands(s, o, row) ==
  LET was == row.id \in DOMAIN s.live
      taken == row.id \in DOMAIN s.committed \/ row.id \in DOMAIN s.aliases IN
  /\ row.outcome \in {"deleted", "updated", "unchanged"} =>
       was /\ s.live[row.id].kind = row.kind
  /\ row.outcome \in {"created", "allocated"} => ~was /\ ~taken
  /\ CASE row.outcome = "allocated" -> o.op = "batch" /\ row.body = None
       [] row.outcome \in {"deleted", "unchanged"} -> row.body = s.live[row.id].body
       [] row.outcome = "updated" ->
            row.body.revision # s.live[row.id].body.revision
              /\ ~Same(row.body, s.live[row.id].body)
       [] OTHER -> TRUE
  /\ row.outcome \in {"created", "updated"} => <<row.id, row.body.revision>> \notin s.revisions

\* The rows that change a Resource, and how many there are up to the r-th.
Changing(row) == row.outcome \in {"created", "updated", "deleted"}
Rank(group, r) == Cardinality({t \in 1..r : Changing(group[t])})

\* The state after a group.
Applied(s, group) ==
  LET rows == {group[r] : r \in 1..Len(group)}
      row(id) == CHOOSE r \in rows : r.id = id
      gone == {r.id : r \in {r \in rows : r.outcome \in {"deleted", "allocated"}}}
      ids == {r.id : r \in rows}
      fresh == {r \in rows : r.outcome \in {"created", "updated"}} IN
  [s EXCEPT
     !.live = [id \in (DOMAIN s.live \cup ids) \ gone |->
                 IF id \in ids THEN [kind |-> row(id).kind, body |-> row(id).body]
                 ELSE s.live[id]],
     !.committed = [id \in DOMAIN s.committed \cup ids |->
                      IF id \in DOMAIN s.committed THEN s.committed[id] ELSE row(id).kind],
     !.revisions = s.revisions \cup {<<r.id, r.body.revision>> : r \in fresh},
     !.position = s.position + Rank(group, Len(group))]

GraphStands(s) ==
  \A id \in DOMAIN s.live : s.live[id].kind = "link" =>
    LET local == LocalEndpoints(s.live[id].body) IN
    local # {} /\ \A uri \in local : uri \in DOMAIN s.live /\ s.live[uri].kind = "bead"

\* One event for each change of the group, in the order of its rows.
EventsStand(s, group) ==
  \A r \in {r \in 1..Len(group) : Changing(group[r])} :
    LET row == group[r]
        n == s.position + Rank(group, r)
        was == IF row.id \in DOMAIN s.live THEN LocalEndpoints(s.live[row.id].body) ELSE {}
        e == events[n] IN
    /\ n <= Len(events)
    /\ ResultOf(e.verb) = row.outcome /\ e.subject = row.id /\ e.kind = row.kind
    /\ e.body = row.body /\ e.revision = row.body.revision
    /\ e.previous = IF row.outcome = "updated" THEN s.live[row.id].body.revision ELSE 0
    /\ e.incident = IF row.kind = "bead" THEN {}
         ELSE was \cup IF row.outcome = "deleted" THEN {} ELSE LocalEndpoints(row.body)
-----------------------------------------------------------------------------
(* The replay. *)

AliasStands(s, o) ==
  LET r == o.response IN
  /\ DOMAIN o.witnesses = {} /\ o.position = 0
  /\ r.id \in AliasNamespace \ Reserved
  /\ IF o.op = "putAlias"
     THEN /\ r.id \notin DOMAIN s.committed /\ r.target \notin DOMAIN s.aliases
          /\ r.target \in DOMAIN s.live /\ s.live[r.target].kind = "bead"
          /\ r.result = IF r.id \in DOMAIN s.aliases THEN "updated" ELSE "created"
     ELSE r.id \in DOMAIN s.aliases /\ r.result = "deleted"

GroupStands(s, o) ==
  LET group == GroupOf(o)
      after == Applied(s, group) IN
  /\ o.op = "batch" => BatchStands(s, o)
  /\ o.op # "batch" => o.response.result \in {ResultOf(VerbOf(o.op)), "unchanged"}
  /\ \A r \in 1..Len(group) : RowStands(s, o, group[r])
  /\ GraphStands(after)
  /\ FactsOf(o) = (s.position + 1)..after.position
  /\ EventsStand(s, group)

DecisionStands(s, o) ==
  /\ WitnessesStand(s, o)
  /\ IF ~Accepted(o) THEN FactsOf(o) = {}
     ELSE IF o.op \in {"putAlias", "deleteAlias"} THEN AliasStands(s, o)
     ELSE GroupStands(s, o)

\* The state a decision leaves.
StateAfter(s, o) ==
  IF ~Accepted(o) THEN s
  ELSE IF o.op = "putAlias" THEN [s EXCEPT !.aliases = Put(@, o.response.id, o.response.target)]
  ELSE IF o.op = "deleteAlias" THEN [s EXCEPT !.aliases = Drop(@, o.response.id)]
  ELSE Applied(s, GroupOf(o))

Replayed(s, o) ==
  IF s.ok /\ DecisionStands(s, o) THEN StateAfter(s, o) ELSE [s EXCEPT !.ok = FALSE]

\* The state after each of the decisions.
Replays ==
  LET state[d \in 0..Len(outcomes)] ==
        IF d = 0 THEN Empty ELSE Replayed(state[d - 1], outcomes[d]) IN
  state

\* What a store of format 6 demands of its tables before it serves.
VerifyGroupedRecovery ==
  LET s == Replays[Len(outcomes)] IN
  /\ s.ok
  /\ s.position = Len(events)
  /\ identities = s.committed
  /\ aliases = s.aliases
  /\ DOMAIN resources = DOMAIN s.live
  /\ \A id \in DOMAIN resources : resources[id] = s.live[id].body

\* A store opens only over tables that pass the check.
OpenGrouped ==
  /\ mode = "closed"
  /\ VerifyGroupedRecovery
  /\ mode' = "open"
  /\ UNCHANGED <<tables, faults, acked>>

BatchNext ==
  \/ \E p \in Principals, k \in Keys, i \in Invocations : Apply(p, k, i) \/ Replay(p, k, i)
  \/ \E p \in Principals, k \in Keys, B \in Batches : ApplyBatch(p, k, B) \/ ReplayBatch(p, k, B)
  \/ Fail \/ Stop \/ OpenGrouped

BatchSpec == Init /\ [][BatchNext]_vars
-----------------------------------------------------------------------------
(* What atomic batches promise (RetainedBatch, BatchRecovery). *)

\* The events of the decisions before the d-th.
EventsBefore(d) == Cardinality(UNION {FactsOf(outcomes[c]) : c \in 1..(d - 1)})

\* A guarded write took effect only on the version its caller named: no other
\* event of the Resource lies between that version and the decision.  In a batch
\* this is the version before the batch, also when earlier members changed it and
\* when the batch leaves nothing changed (decide; evaluateBatch compares with
\* initial, not with the working graph).
GuardedBy(id, expected, n) ==
  expected # 0 => LET last == LastEvent(id, n) IN last # 0 /\ events[last].revision = expected

GuardsHold ==
  \A d \in 1..Len(outcomes) :
    LET o == outcomes[d] IN
    IF o.op = "batch"
    THEN Accepted(o) =>
           \A n \in 1..Len(o.request) :
             GuardedBy(o.response.ids[n], o.request[n].request.expected, EventsBefore(d))
    ELSE o.position # 0 =>
           GuardedBy(events[o.position].subject, o.request.expected, o.position - 1)

\* A repeated batch is recognised for ever, whatever became of the aliases it
\* mentions, and although an address of the alias namespace can be an alias
\* for one member and the Resource an earlier member creates for the next
\* (compareBatch).
BatchRetryIsRecognised ==
  \A d \in 1..Len(outcomes) :
    outcomes[d].op = "batch" => SameBatch(outcomes[d].request, outcomes[d])

\* A batch that was refused for its length, with more aliases than the check
\* allows: applyBatch looks its References up, and keeps them, before it counts.
Overlong(o) ==
  /\ o.op = "batch" /\ o.response = Refusal("limit-exceeded")
  /\ Len(o.identity) > MaximumOperations
  /\ ~(Cardinality(DOMAIN o.witnesses) <= MaximumWitnesses)

\* What batches and single requests leave passes the grouped check of the next
\* start (verifyGroupedRecovery), except in one case, and then never again: a
\* batch too long, and with too many aliases, is among the decisions.
GroupedRecoveryAccepts ==
  VerifyGroupedRecovery <=> \A d \in 1..Len(outcomes) : ~Overlong(outcomes[d])

\* "The SQLite engine retains identities, durable outcomes and exact saved
\* responses across reopen" (docs/reference-service.md:48-49): after a stop,
\* whatever was decided before it, the store can be opened again.
OutcomesOutliveReopen == mode = "closed" => VerifyGroupedRecovery

-----------------------------------------------------------------------------
(* The single requests are the reference definition of the members. *)

Solo(i) == <<[request |-> i, handles |-> [s \in {} |-> 0], provenance |-> None]>>

SingleBound(i) == ~i.refused /\ \A s \in Slots(i) : At(i, s).bound

SingleRefusal(i) ==
  LET kind == KindOf(i.op)
      source == At(i, "source").uri
      target == At(i, "target").uri
      id == At(i, "id").uri IN
  CASE VerbOf(i.op) = "create" ->
         CreateRefusal(i, kind, id, Body(Revision, i.data, source, target))
    [] VerbOf(i.op) = "update" ->
         LET next == Candidate(i, kind, id, source, target) IN
         IF UpdateRefusal(i, kind, id, source, target) # "none"
         THEN UpdateRefusal(i, kind, id, source, target)
         ELSE IF next # resources[id] /\ next.data \in Oversize THEN "limit-exceeded" ELSE "none"
    [] OTHER -> DeleteRefusal(i, kind, id)

SingleBody(i) ==
  LET id == At(i, "id").uri
      next == Candidate(i, KindOf(i.op), id, At(i, "source").uri, At(i, "target").uri) IN
  CASE VerbOf(i.op) = "create" ->
         Body(Revision, i.data, At(i, "source").uri, At(i, "target").uri)
    [] VerbOf(i.op) = "update" ->
         IF next = resources[id] THEN next ELSE [next EXCEPT !.revision = Revision]
    [] OTHER -> resources[id]

\* A batch of one member is refused where the single request is, and otherwise
\* leaves the same Resource, although they are decided by different code
\* (evaluateBatch, and performCreate, performUpdate and performDelete).  A
\* member has no historical source version.
OneMemberAgrees ==
  \A i \in Invocations :
    i.id # None /\ i.from = 0 /\ i.op \notin {"putAlias", "deleteAlias"} =>
    LET g == WorkingGraph(Solo(i), [n \in {} |-> None])
        single == SingleBound(i) /\ SingleRefusal(i) = "none" IN
    /\ single <=> BatchCode(Solo(i), g) = "none"
    /\ single => /\ g.ids = <<At(i, "id").uri>>
                 /\ Published(g, g.ids[1]) = SingleBody(i)
===============================================================================
