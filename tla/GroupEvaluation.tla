--------------------------- MODULE GroupEvaluation ---------------------------
(***************************************************************************)
(* What the transactional store makes of one transaction's operations      *)
(* (transaction-batch.ts evaluateTransaction): they run in order over one  *)
(* staged graph, later ones may name what earlier ones created, an         *)
(* operation on a set is an operation on each Resource it selects, and all *)
(* of it commits as one group of changes and events, or none of it.        *)
(*                                                                         *)
(* The Resources themselves change as in MemberGraph, under the policies   *)
(* of this store: everything is visible and writable.  Revision tokens are *)
(* numbered in the order they are drawn.  Aliases, numeric admission and   *)
(* the store's keys and receipts are not part of this module.              *)
(***************************************************************************)
EXTENDS MemberGraph

CONSTANTS
  Ordered,        \* every address, in the canonical order
  Labels,         \* the names operations give to what they create
  Batches,        \* the transactions submitted: sequences of operations
  EventMax,       \* transaction.inducedEvents
  MatchMax,       \* transaction.matchedResources
  MaxRevision     \* bound: revision tokens drawn

VARIABLES
  graph,    \* the committed Resources
  group     \* the last transaction: [ok, problem, results, changes, events]

vars == <<graph, group>>

\* The staged state of a transaction.
Staged(g) == [ok |-> TRUE, problem |-> None, graph |-> g, results |-> <<>>, events |-> <<>>,
              changes |-> NoFunction, bindings |-> NoFunction, matched |-> 0]
\* The first failure is all that is said; a bound names no operation.
Fails(t, code, index) ==
  [t EXCEPT !.ok = FALSE, !.problem = [code |-> code, index |-> index], !.results = <<>>,
            !.events = <<>>, !.changes = NoFunction]

-----------------------------------------------------------------------------
(* Events: an operation's own fact, then the incidence of a Link at each   *)
(* endpoint in the Scope, then the Bead that owns the Link, which has a    *)
(* new revision and carries the change of the Link.                        *)

Event(type, subject, before, after, link, endpoint) ==
  [type |-> type, subject |-> subject, before |-> before, after |-> after,
   link |-> link, endpoint |-> endpoint]

RevisionOf(g, a) == IF a \in DOMAIN g.resources THEN g.resources[a].revision ELSE 0
RecordOf(g, a) == IF a \in DOMAIN g.resources THEN g.resources[a] ELSE None

Incidence(type, id, link) ==
  SelectSeq(<<Event(type, link.source, 0, 0, id, "source"),
              Event(type, link.target, 0, 0, id, "target")>>,
            LAMBDA e : e.subject \notin External)

\* Mutant: a change of an owned Link is a fact of the Link alone.
OwnerFact_none(g, h, id, link) == <<>>

\* The owner's fact; the Link it carries is as it is after the operation.
OwnerFact(g, h, id, link) ==
  IF IsOwned(link)
  THEN <<Event("updated", link.source, RevisionOf(g, link.source), RevisionOf(h, link.source),
               [id |-> id, record |-> RecordOf(h, id)], None)>>
  ELSE <<>>

Facts(g, h, id, code) ==
  LET was == RecordOf(g, id)
      is == RecordOf(h, id)
      subject == IF code = "deleted" THEN was ELSE is
      own == <<Event(code, id, RevisionOf(g, id),
                     IF code = "deleted" THEN was.revision ELSE is, None, None)>>
      isLink == subject.kind = "link"
  IN own
     \o (IF isLink /\ code = "created" THEN Incidence("linked", id, subject)
         ELSE IF isLink /\ code = "deleted" THEN Incidence("unlinked", id, subject) ELSE <<>>)
     \o (IF isLink THEN OwnerFact(g, h, id, subject) ELSE <<>>)

\* The Resources the operation wrote or deleted: the subject, an owned Link's
\* source.
Written(g, h, id) ==
  {a \in DOMAIN g.resources \cup DOMAIN h.resources : RecordOf(g, a) # RecordOf(h, a)}

Changes(changes, g, h, id) ==
  LET written == Written(g, h, id) IN
  [a \in DOMAIN changes \cup written |->
     IF a \notin written THEN changes[a]
     ELSE IF a \in DOMAIN h.resources
     THEN [operation |-> "upsert", resource |-> h.resources[a]]
     ELSE [operation |-> "tombstone", resource |-> g.resources[a].revision]]

-----------------------------------------------------------------------------
(* One operation.                                                          *)

\* A retained revision is an observed no-op, not a transition.
Silent(g, h) == g = h

\* applyResource: its result, and unless it changed nothing its changes and
\* facts, within the bound on a transaction's events.
ApplyResource(t, input, index, label) ==
  LET r == Evaluate(t.graph, input)
      h == r.graph
      result == [index |-> index, outcome |-> r.code, id |-> r.id]
      named == IF label # None /\ r.code = "created" THEN Put(t.bindings, label, r.id)
               ELSE t.bindings
      events == t.events \o Facts(t.graph, h, r.id, r.code)
      done == [t EXCEPT !.results = Append(@, result), !.bindings = named, !.graph = h]
  IN IF r.effect = "failure" THEN Fails(t, r.code, index)
     ELSE IF Silent(t.graph, h) THEN done
     ELSE IF Len(events) > EventMax THEN Fails(t, "limit-exceeded", None)
     ELSE [done EXCEPT !.events = events, !.changes = Changes(@, t.graph, h, r.id)]

\* A reference to a label means what was created under it.
Bound(t, a) == IF a \in DOMAIN t.bindings THEN t.bindings[a] ELSE a
Resolved(t, input) ==
  [input EXCEPT !.source = Bound(t, @), !.target = Bound(t, @), !.subject = Bound(t, @)]

\* A set operation's Resources, in the canonical order, among what is staged.
Selected(t, input) ==
  SelectSeq(Ordered, LAMBDA a : /\ Live(t.graph, a, input.collection)
                                /\ t.graph.resources[a].body = input.selector)

Member(input, a) ==
  [input EXCEPT !.subject = a,
     !.operation = CASE input.operation = "updateWhere" /\ input.collection = "bead" -> "updateBead"
                     [] input.operation = "updateWhere" -> "updateLink"
                     [] input.collection = "bead" -> "deleteBead"
                     [] OTHER -> "deleteLink"]

\* Matches add up over the operations of a transaction.
Matched(t, n) == t.matched + n

ApplySet(t, input, index) ==
  LET selected == Selected(t, input)
      n == Len(selected)
      counted == [t EXCEPT !.matched = @ + n,
                    !.results = Append(@, [index |-> index, outcome |-> "matched", id |-> n])]
  IN IF n < input.min \/ n > input.max THEN Fails(t, "cardinality-violated", index)
     ELSE IF Matched(t, n) > MatchMax THEN Fails(t, "limit-exceeded", None)
     ELSE FoldLeft(LAMBDA s, a : IF s.ok THEN ApplyResource(s, Member(input, a), index, None) ELSE s,
                   counted, selected)

ApplyOperation(t, input, index) ==
  IF ~t.ok THEN t
  ELSE IF input.operation \in {"updateWhere", "deleteWhere"} THEN ApplySet(t, input, index)
  ELSE ApplyResource(t, Resolved(t, input), index, input.label)

Evaluated(batch) ==
  FoldLeftDomain(LAMBDA t, i : ApplyOperation(t, batch[i], i), Staged(graph), batch)

-----------------------------------------------------------------------------
Outcome(t) == [ok |-> t.ok, problem |-> t.problem, results |-> t.results,
               changes |-> t.changes, events |-> t.events]
Nothing == [ok |-> TRUE, problem |-> None, results |-> <<>>, changes |-> NoFunction,
            events |-> <<>>]

Init == graph = EmptyGraph /\ group = Nothing

\* The owner's savepoint: a failed transaction leaves nothing.
Keeps(t) == IF t.ok THEN t.graph ELSE graph

Execute(batches) ==
  \E batch \in batches :
    LET t == Evaluated(batch) IN
    /\ t.graph.revision <= MaxRevision
    /\ graph' = Keeps(t)
    /\ group' = Outcome(t)

Next == Execute(Batches)
Spec == Init /\ [][Next]_vars
-----------------------------------------------------------------------------
(* What a committed group tells its readers.                                *)

Resource ==
  [kind : {"bead", "link"}, body : STRING, revision : 1..MaxRevision, type : STRING,
   source : STRING \cup {None}, target : STRING \cup {None},
   owned : SUBSET [id : STRING, revision : 1..MaxRevision, target : STRING]]

(* The changes of a group are the difference it makes: over any state before *)
(* it they give the state after it, Beads whose Links changed included.      *)
Changed(resources, changes) ==
  LET gone == {a \in DOMAIN changes : changes[a].operation = "tombstone"} IN
  [a \in (DOMAIN resources \cup DOMAIN changes) \ gone |->
     IF a \in DOMAIN changes THEN changes[a].resource ELSE resources[a]]

ChangesAreTheDifference ==
  Changed(graph.resources, group'.changes) = graph'.resources

(* A change is a difference: a Resource that is as it was is not among them, *)
(* and one that is gone again was named with the revision it had last.       *)
NothingElseIsAChange ==
  \A a \in DOMAIN group'.changes :
    \/ a \notin graph.identities
    \/ RecordOf(graph, a) # RecordOf(graph', a)

(* A reader of the events alone.  Facts about a Resource name the revision   *)
(* they start from; what the reader has must be that one.                    *)
Known(resources, e) ==
  e.subject \in DOMAIN resources /\ resources[e.subject].revision = e.before

Copies(owned, link) ==
  {o \in owned : o.id # link.id}
    \cup (IF link.record = None THEN {}
          ELSE {[id |-> link.id, revision |-> link.record.revision,
                 target |-> link.record.target]})

Read(resources, e) ==
  CASE resources = None -> None
    [] e.type \in {"linked", "unlinked"} -> resources
    [] e.type = "created" ->
         IF e.subject \in DOMAIN resources THEN None
         ELSE Put(resources, e.subject, [e.after EXCEPT !.owned = {}])
    [] ~Known(resources, e) -> None
    [] e.type = "deleted" -> Without(resources, {e.subject})
    [] e.type = "updated" /\ e.link = None ->
         [resources EXCEPT ![e.subject].revision = e.after.revision,
                           ![e.subject].body = e.after.body]
    [] OTHER ->
         [resources EXCEPT ![e.subject].revision = e.after,
                           ![e.subject].owned = Copies(@, e.link)]

(* Read in their order, the events lead from the Resources before the group  *)
(* to those after it: each starts where the last fact about its subject      *)
(* ended, and nothing changes that no event tells, such as the Bead that     *)
(* holds a copy of a changed Link.                                           *)
EventsTellTheGroup ==
  FoldLeft(Read, graph.resources, group'.events) = graph'.resources

(* Readers of a Bead learn every Link that ends there: the linked and        *)
(* unlinked events of a group are the difference of its incidences.          *)
Incidences(resources) ==
  {<<l, s, resources[l][s]>> :
     l \in {l \in DOMAIN resources : resources[l].kind = "link"}, s \in {"source", "target"}}
Local(incidences) == {i \in incidences : i[3] \notin External}

Following(incidences, e) ==
  CASE e.type = "linked" -> incidences \cup {<<e.link, e.endpoint, e.subject>>}
    [] e.type = "unlinked" -> incidences \ {<<e.link, e.endpoint, e.subject>>}
    [] OTHER -> incidences

IncidencesAreTold ==
  FoldLeft(Following, Local(Incidences(graph.resources)), group'.events)
    = Local(Incidences(graph'.resources))

(* A transaction takes a position in the feed exactly when it has events:    *)
(* then and only then something was written (the owner's effective).         *)
PositionsAreEffects ==
  group'.events = <<>> <=> group'.changes = NoFunction

(* The bounds are on the whole transaction: its events, and the Resources    *)
(* its set operations matched together, repeats included.                    *)
MatchedIn(results) ==
  FoldLeft(LAMBDA n, r : IF r.outcome = "matched" THEN n + r.id ELSE n, 0, results)

BoundsHold ==
  group.ok => /\ Len(group.events) <= EventMax
              /\ MatchedIn(group.results) <= MatchMax

(* What stands stays sound through transactions of several operations: Links *)
(* end at live Beads or outside, and a Bead's copies are its Links.          *)
GraphIsSound ==
  \A a \in DOMAIN graph.resources :
    LET r == graph.resources[a] IN
    /\ r \in Resource
    /\ r.kind = "link" => \A e \in {r.source, r.target} \ External : Live(graph, e, "bead")
    /\ r.kind = "bead" => r.owned = OwnedBy(graph.resources, graph.resources, a)
===============================================================================
