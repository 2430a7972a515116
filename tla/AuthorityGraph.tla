---------------------------- MODULE AuthorityGraph ----------------------------
(***************************************************************************)
(* What one synchronous entry of the authority's reads discloses (server/  *)
(* src/authority-read.ts, checkedGraph and materialize): rows come from a  *)
(* reader that may contradict itself, are checked against each other, and  *)
(* a record is shown if all that it leads to may be read. Sets stand for   *)
(* the code's stacks, so that no property depends on their order.          *)
(***************************************************************************)
EXTENDS Naturals, FiniteSets

CONSTANTS
  Beads, Links,      \* identities in the Scope
  Records,           \* what rows hold: see BeadRecord and LinkRecord
  Intents,           \* [kind, id, of, direction]: what is asked
  MaxRows,           \* how many rows a listing returns
  Absent, Broken     \* no row; a row that is no record of the wanted identity

BeadRecord(id, owned) == [kind |-> "bead", id |-> id, owned |-> owned]
LinkRecord(id, source, target) == [kind |-> "link", id |-> id, source |-> source, target |-> target]

VARIABLES
  intent, hidden,    \* the request; the identities the policy does not let read
  points,            \* identities that were looked up
  missing, cache,    \* those without a row; the records encountered
  queue, copies,     \* Beads whose owned Links are to be checked; the copies of one
  owner,             \* the Bead of these copies
  subject,           \* the record to be shown
  stage,             \* "first", "visit", "list" or "done"
  pending, seen,     \* identities to visit, and those visited
  todo, refs,        \* Links of the record that is visited; ends to look up
  rows, items,       \* how many rows were listed; what is shown of them
  outcome,           \* "running", "absent", "shown" or "fault"
  answers            \* all that the reader has said: [id, row, listed]

reading == <<points, missing, cache, queue, copies, owner, answers>>
visiting == <<pending, seen, todo, refs>>
vars == <<intent, hidden, reading, subject, stage, visiting, rows, items, outcome>>

Listing == intent.kind \in {"links", "beads", "incident"}

\* The ends of a Link that are in the Scope.
OfEnds(link) == {link.source, link.target} \cap Beads
-----------------------------------------------------------------------------
(* The rows, and their checks. *)

\* Mutant: a row that comes after its absence is taken.
Contradicts_late(r) == r.id \in DOMAIN cache /\ cache[r.id] # r

\* A row differs from what the entry has said before.
Contradicts(r) == (r.id \in DOMAIN cache /\ cache[r.id] # r) \/ r.id \in missing

Cached(r) == [i \in DOMAIN cache \cup {r.id} |-> IF i = r.id THEN r ELSE cache[i]]

Checked(r, asked) == IF r.kind = "bead" /\ r.id \notin DOMAIN cache THEN {r.id} ELSE {}

Accept(r, asked) ==
  IF Contradicts(r) THEN outcome' = "fault" /\ UNCHANGED <<cache, queue>>
  ELSE /\ cache' = Cached(r) /\ queue' = queue \cup Checked(r, asked)
       /\ UNCHANGED outcome

\* The reader is asked once for an identity; a row that was listed is asked for too.
Ask(id) ==
  /\ id \notin points /\ points' = points \cup {id}
  /\ \E row \in {r \in Records : r.id = id} \cup {Absent, Broken} :
     /\ answers' = answers \cup {[id |-> id, row |-> row, listed |-> FALSE]}
     /\ CASE row = Broken -> outcome' = "fault" /\ UNCHANGED <<missing, cache, queue>>
          [] row = Absent -> /\ missing' = missing \cup {id}
                             /\ outcome' = IF id \in DOMAIN cache THEN "fault" ELSE outcome
                             /\ UNCHANGED <<cache, queue>>
          [] OTHER -> Accept(row, TRUE) /\ UNCHANGED missing

Found(id) == IF id \in DOMAIN cache THEN cache[id] ELSE Absent
IsBead(r) == r \notin {Absent, Broken} /\ r.kind = "bead"

\* Nothing goes on before all owned Links have been checked.
Checking == queue # {} \/ copies # {}
Running == outcome = "running"

\* What is to be looked up next.
Wanted ==
  IF copies # {} THEN {c.id : c \in copies}
  ELSE IF Checking THEN {}
  ELSE IF stage = "first" THEN {intent.id}
  ELSE IF stage = "visit" THEN refs ELSE {}

LookUp ==
  /\ Running
  /\ \E id \in Wanted : Ask(id)
  /\ UNCHANGED <<intent, hidden, copies, owner, subject, stage, visiting, rows, items>>

TakeOwner ==
  /\ Running /\ copies = {}
  /\ \E b \in queue : queue' = queue \ {b} /\ owner' = b /\ copies' = cache[b].owned
  /\ UNCHANGED <<intent, hidden, points, missing, cache, answers, subject, stage, visiting, rows, items, outcome>>

\* A copy in its Bead is the Link itself.
Agrees(copy) == Found(copy.id) = copy /\ copy.source = owner

CheckCopy ==
  /\ Running
  /\ \E c \in copies :
     /\ c.id \in points /\ copies' = copies \ {c}
     /\ outcome' = IF Agrees(c) THEN outcome ELSE "fault"
  /\ UNCHANGED <<intent, hidden, points, missing, cache, queue, owner, answers, subject, stage, visiting, rows, items>>
-----------------------------------------------------------------------------
(* Visibility. *)

Ready == Running /\ ~Checking

StartVisit(id) ==
  /\ subject' = id /\ stage' = "visit"
  /\ pending' = {id} /\ seen' = {} /\ todo' = {} /\ refs' = {}

\* What is asked for by its identity, or what incident Links are asked of.
First ==
  /\ Ready /\ stage = "first" /\ intent.id \in points
  /\ LET r == Found(intent.id) IN
     \/ /\ r = Absent /\ outcome' = "absent" /\ UNCHANGED <<subject, stage, visiting>>
     \/ /\ r # Absent /\ intent.of # "any" /\ r.kind # intent.of
        /\ outcome' = "fault" /\ UNCHANGED <<subject, stage, visiting>>
     \/ /\ r # Absent /\ intent.of \in {"any", r.kind}
        /\ StartVisit(intent.id) /\ UNCHANGED outcome
  /\ UNCHANGED <<intent, hidden, reading, rows, items>>

\* Whether the record asked for, the Bead of incident Links or a row is shown.
Decide(visible) ==
  IF rows > 0
  THEN /\ stage' = "list" /\ items' = IF visible THEN items \cup {subject} ELSE items
       /\ UNCHANGED outcome
  ELSE /\ stage' = IF Listing /\ visible THEN "list" ELSE "done"
       /\ outcome' = IF ~visible THEN "absent" ELSE IF Listing THEN outcome ELSE "shown"
       /\ UNCHANGED items

LinksOf(r) == IF r.kind = "link" THEN {r} ELSE r.owned

Visit ==
  /\ Ready /\ stage = "visit" /\ todo = {} /\ refs = {}
  /\ \E id \in pending :
     /\ pending' = pending \ {id} /\ seen' = seen \cup {id}
     /\ IF id \in seen THEN UNCHANGED <<todo, stage, items, outcome>>
        ELSE IF id \in hidden THEN Decide(FALSE) /\ UNCHANGED todo
        ELSE todo' = LinksOf(cache[id]) /\ UNCHANGED <<stage, items, outcome>>
  /\ UNCHANGED <<intent, hidden, reading, subject, refs, rows>>

VisitLink ==
  /\ Ready /\ stage = "visit" /\ refs = {}
  /\ \E l \in todo :
     /\ todo' = todo \ {l}
     /\ IF l.id \in hidden THEN Decide(FALSE) /\ UNCHANGED refs
        ELSE refs' = OfEnds(l) /\ UNCHANGED <<stage, items, outcome>>
  /\ UNCHANGED <<intent, hidden, reading, subject, pending, seen, rows>>

VisitEnd ==
  /\ Ready /\ stage = "visit"
  /\ \E id \in refs \cap points :
     /\ refs' = refs \ {id}
     /\ IF IsBead(Found(id)) THEN pending' = pending \cup {id} /\ UNCHANGED <<stage, items, outcome>>
        ELSE Decide(FALSE) /\ UNCHANGED pending
  /\ UNCHANGED <<intent, hidden, reading, subject, seen, todo, rows>>

Visited ==
  /\ Ready /\ stage = "visit" /\ pending = {} /\ todo = {} /\ refs = {}
  /\ Decide(TRUE)
  /\ UNCHANGED <<intent, hidden, reading, subject, visiting, rows>>
-----------------------------------------------------------------------------
(* Listings. *)

Incident(r) == r.kind = "link" /\ intent.id \in OfEnds(r)

\* The rows of the kind, or with the direction, that is asked for.
Structural(r) ==
  CASE intent.kind = "incident" -> intent.direction = "outbound" => r.source = intent.id
    [] intent.kind = "links" -> r.kind = "link"
    [] intent.kind = "beads" -> r.kind = "bead"

\* The reader lists a row; an index of incident Links holds nothing else.
Row ==
  /\ Ready /\ stage = "list" /\ rows < MaxRows /\ rows' = rows + 1
  /\ \E r \in Records :
     /\ answers' = answers \cup {[id |-> r.id, row |-> r, listed |-> TRUE]}
     /\ Accept(r, FALSE)
     /\ subject' = r.id /\ stage' = "row"
  /\ UNCHANGED <<intent, hidden, points, missing, copies, owner, visiting, items>>

Examine ==
  /\ Ready /\ stage = "row"
  /\ LET r == cache[subject] IN
     \/ /\ intent.kind = "incident" /\ ~Incident(r)
        /\ outcome' = "fault" /\ UNCHANGED <<subject, stage, visiting>>
     \/ /\ intent.kind = "incident" => Incident(r)
        /\ IF Structural(r) THEN StartVisit(subject)
           ELSE stage' = "list" /\ UNCHANGED <<subject, visiting>>
        /\ UNCHANGED outcome
  /\ UNCHANGED <<intent, hidden, reading, rows, items>>

Listed ==
  /\ Ready /\ stage = "list" /\ outcome' = "shown" /\ stage' = "done"
  /\ UNCHANGED <<intent, hidden, reading, subject, visiting, rows, items>>
-----------------------------------------------------------------------------
Init ==
  /\ intent \in Intents /\ hidden \in SUBSET (Beads \cup Links)
  /\ points = {} /\ missing = {} /\ cache = [i \in {} |-> Absent]
  /\ queue = {} /\ copies = {} /\ owner = Absent /\ answers = {}
  /\ subject = Absent
  /\ stage = IF intent.kind \in {"links", "beads"} THEN "list" ELSE "first"
  /\ pending = {} /\ seen = {} /\ todo = {} /\ refs = {}
  /\ rows = 0 /\ items = {} /\ outcome = "running"

Next ==
  \/ LookUp \/ TakeOwner \/ CheckCopy \/ First
  \/ Visit \/ VisitLink \/ VisitEnd \/ Visited
  \/ Row \/ Examine \/ Listed

Spec == Init /\ [][Next]_vars
-----------------------------------------------------------------------------
(* Correctness. *)

\* What the reader has said of an identity.
Said(id) == {a.row : a \in {b \in answers : b.id = id}}
Given(id) == Said(id) \ {Absent, Broken}

OwnLinks(r) == IF r.kind = "bead" THEN r.owned ELSE {r}

\* The identities that reading those of S asks about.
RECURSIVE Closure(_)
Closure(S) ==
  LET links == UNION {UNION {OwnLinks(r) : r \in Given(id)} : id \in S}
      T == S \cup {l.id : l \in links} \cup UNION {OfEnds(l) : l \in links}
  IN IF T = S THEN S ELSE Closure(T)

Readable(id) ==
  /\ Closure({id}) \cap hidden = {}
  /\ \A i \in {id} \cup (Closure({id}) \cap Beads) : Given(i) # {}

Shown == IF outcome # "shown" THEN {} ELSE IF Listing THEN items ELSE {intent.id}

\* Nothing is disclosed of which a part may not be read: neither a record, nor a
\* Link in its Bead, nor what is at the other end, however far.
OnlyReadableIsShown == \A id \in Shown : Readable(id)

\* The reader has contradicted itself, or what was asked.
Contradicted ==
  \/ \E a \in answers :
       \/ a.row = Broken
       \/ \E b \in answers : a.id = b.id /\ a.row # b.row
       \/ IsBead(a.row) /\
            \E c \in a.row.owned : c.source # a.id \/ \E r \in Said(c.id) : r # c

\* What an answer is made of does not contradict itself, in whatever order rows,
\* lookups and the copies of Links in their Beads have come; and each copy in a
\* Bead that was met has been compared.
AnswersAgree ==
  outcome \in {"shown", "absent"} =>
    /\ ~Contradicted
    /\ \A a \in answers : IsBead(a.row) => \A c \in a.row.owned : Said(c.id) = {c}

OfOtherKind ==
  \/ intent.kind = "point" /\ \E r \in Given(intent.id) : intent.of \notin {"any", r.kind}
  \/ intent.kind = "incident" /\ \/ intent.id \notin Beads
                                 \/ \E a \in answers : a.listed /\ ~Incident(a.row)

\* Nothing is kept back without a reason: what is absent, or left out of a list,
\* is missing or leads to what may not be read; and a fault is a contradiction.
RefusalIsJustified ==
  /\ outcome = "absent" => ~Readable(intent.id)
  /\ outcome = "shown" /\ Listing =>
       \A a \in answers : a.listed /\ Structural(a.row) /\ Readable(a.id) => a.id \in items
  /\ outcome = "fault" => Contradicted \/ OfOtherKind
===============================================================================
