------------------------------- MODULE PagedReads -------------------------------
(***************************************************************************)
(* Clients that read a changing collection page by page                    *)
(* (retained-v01/collections.ts and the collection reads of http.ts), over *)
(* the snapshot and cursor authority (read-pagination.ts).  A read selects *)
(* the live records, in order, and pages over what it selected: a first    *)
(* page freezes it, and its cursors page over the frozen items until the   *)
(* snapshot expires, its epoch ends, or the authority closes.  Snapshots   *)
(* are retained within bounds on their number, their reserved cursors and  *)
(* their weight.  Answers may be lost, HEAD and conditional reads deliver  *)
(* no page, clocks are adjusted, epochs end, processes restart.            *)
(***************************************************************************)
EXTENDS Integers, Sequences, FiniteSets, SequencesExt

CONSTANTS
  Resizable,       \* page sizes may change along a traversal; cursors are not tabulated
  IdleCleanup,     \* whether a timer expires snapshots between calls
  DefaultItems, MaximumItems,
  Ttl,
  StateCapacity,   \* snapshots and reserved cursors together
  SnapshotCursors, \* cursors one snapshot may reserve
  WeightCapacity,
  LongestDelay,    \* the longest delay setTimeout takes
  None

CONSTANTS
  Records,           \* identities, ordered as numbers
  Clients, Views,
  Sizes,             \* page sizes clients ask for
  MaximumSnapshots, MaximumEpoch, MaximumTime,  \* bounds
  Adjusted           \* whether the wall clock is also set back

PagedAssumption ==
  /\ Records \subseteq Nat /\ Sizes \subseteq Nat
  /\ {MaximumSnapshots, MaximumEpoch, MaximumTime} \subseteq Nat

\* What prepareOptions demands of its options.
Options ==
  /\ {Resizable, IdleCleanup} \subseteq BOOLEAN
  /\ {DefaultItems, MaximumItems, Ttl, StateCapacity, SnapshotCursors,
      WeightCapacity, LongestDelay} \subseteq Nat \ {0}
  /\ DefaultItems <= MaximumItems /\ SnapshotCursors < StateCapacity

PaginationAssumption == Options /\ None \notin Nat
-----------------------------------------------------------------------------
(* The authority.  Operators take and return its state as a record, because  *)
(* a call runs to its end without interruption and does several things in    *)
(* order.  Bytes and JSON nodes are one weight, an item weighing one.        *)

VARIABLE engine
(* [snapshots: in the order of admission; index: the tabulated cursors;    *)
(*  positions, weight: what is reserved and retained; sequence: identities *)
(*  given out; epoch: of the last first page; last: the latest time read;  *)
(*  timer: the remaining delay of the idle cleanup; closed]                *)

NewEngine(sequence) ==
  [snapshots |-> <<>>, index |-> {}, positions |-> 0, weight |-> 0, sequence |-> sequence,
   epoch |-> None, last |-> 0, timer |-> None, closed |-> FALSE]

\* A cursor is authenticated, or tabulated, as an offset of one snapshot.
Token(s, offset) == [snapshot |-> s.id, offset |-> offset]
Tokens(s) == {Token(s, o) : o \in s.cursors}

\* Time is read from the wall clock, and never goes back.
Reading(e, wall) == [e EXCEPT !.last = IF wall > @ THEN wall ELSE @]

Total(f(_), snapshots) == FoldLeft(LAMBDA n, s : n + f(s), 0, snapshots)

\* Mutant: the reserved cursors of a released snapshot stay reserved.
Release_reserved(e, gone) ==
  LET released == SelectSeq(e.snapshots, LAMBDA s : s.id \in gone) IN
  [e EXCEPT !.snapshots = SelectSeq(@, LAMBDA s : s.id \notin gone),
            !.index = @ \ UNION {Tokens(s) : s \in ToSet(released)},
            !.weight = @ - Total(LAMBDA s : s.weight, released)]

\* Snapshots leave with their cursors and with all they had reserved.
Release(e, gone) ==
  LET released == SelectSeq(e.snapshots, LAMBDA s : s.id \in gone) IN
  [e EXCEPT !.snapshots = SelectSeq(@, LAMBDA s : s.id \notin gone),
            !.index = @ \ UNION {Tokens(s) : s \in ToSet(released)},
            !.positions = @ - Total(LAMBDA s : s.positions, released),
            !.weight = @ - Total(LAMBDA s : s.weight, released)]

Ids(e) == {s.id : s \in ToSet(e.snapshots)}

\* cleanupAt: the oldest snapshots, up to the first that has not expired.
Cleaned(e) ==
  Release(e, {e.snapshots[i].id : i \in
                {i \in DOMAIN e.snapshots : \A j \in 1..i : e.last >= e.snapshots[j].expires}})

\* scheduleIdleCleanup: the timer is set anew for the earliest expiry.
Scheduled(e) ==
  IF ~IdleCleanup \/ e.closed THEN e
  ELSE [e EXCEPT !.timer =
          IF e.snapshots = <<>> THEN None
          ELSE LET wait == Head(e.snapshots).expires - e.last IN
               IF wait < 0 THEN 0 ELSE IF wait > LongestDelay THEN LongestDelay ELSE wait]

LimitOf(limit) == IF limit = None THEN DefaultItems ELSE limit

Answer(e, outcome) == [engine |-> e, outcome |-> outcome, items |-> <<>>, next |-> None]

\* A page and the cursor of the next; in fixed traversals a cursor is drawn
\* once and tabulated, and drawing may fail.
PageAt(e, s, offset, limit, generated) ==
  LET items == SubSeq(s.items, offset + 1,
                      IF offset + limit < Len(s.items) THEN offset + limit ELSE Len(s.items))
      after == offset + Len(items) IN
  IF after >= Len(s.items) THEN [Answer(e, "page") EXCEPT !.items = items]
  ELSE IF Resizable \/ after \in s.cursors
  THEN [Answer(e, "page") EXCEPT !.items = items, !.next = Token(s, after)]
  ELSE IF ~generated THEN Answer(e, "failed")
  ELSE [Answer([e EXCEPT
                 !.snapshots = [i \in DOMAIN @ |-> IF @[i].id = s.id
                                  THEN [@[i] EXCEPT !.cursors = @ \cup {after}] ELSE @[i]],
                 !.index = @ \cup {Token(s, after)}], "page")
        EXCEPT !.items = items, !.next = Token(s, after)]

Weight(items) == Len(items)
Ceiling(n, d) == (n + d - 1) \div d

\* Why the copy of the items, or their retention, is refused.  Fixed admission
\* copies within what is left; resizable admission copies within the bound of
\* one snapshot and then looks at the aggregate.
Refusal(e, items, limit) ==
  LET kept == Len(items) > limit
      reserved == IF Resizable \/ ~kept THEN 0 ELSE Ceiling(Len(items), limit) - 1
      copying == IF kept /\ ~Resizable THEN WeightCapacity - e.weight ELSE WeightCapacity IN
  CASE Weight(items) > copying -> IF Resizable THEN "too-large" ELSE "busy"
    [] ~kept -> None
    [] reserved > SnapshotCursors -> "busy"
    [] Resizable /\ e.weight + Weight(items) > WeightCapacity -> "busy"
    [] Len(e.snapshots) + e.positions + 1 + reserved > StateCapacity -> "busy"
    [] OTHER -> None

NewSnapshot(e, items, limit, view, epoch) ==
  [id |-> e.sequence + 1, items |-> items, limit |-> limit, view |-> view, epoch |-> epoch,
   expires |-> e.last + Ttl, weight |-> Weight(items),
   positions |-> IF Resizable THEN 0 ELSE Ceiling(Len(items), limit) - 1, cursors |-> {}]

Admitted(e, s) ==
  [e EXCEPT !.snapshots = Append(@, s), !.positions = @ + s.positions,
            !.weight = @ + s.weight, !.sequence = s.id]

\* firstPageWithContext.  An expired snapshot makes room first; a first page of
\* a new epoch releases all; a page that holds everything is not retained.
FirstPage(e0, wall, items, asked, view, epoch, generated) ==
  LET e1 == Cleaned(Reading(e0, wall))
      limit == LimitOf(asked)
      e2 == [IF e1.epoch \notin {None, epoch} THEN Release(e1, Ids(e1)) ELSE e1
             EXCEPT !.epoch = epoch]
      refusal == Refusal(e2, items, limit)
      s == NewSnapshot(e2, items, limit, view, epoch)
      page == PageAt(Admitted(e2, s), s, 0, limit, generated) IN
  CASE e0.closed -> Answer(e0, "closed")
    [] ~e0.closed /\ limit \notin 1..MaximumItems -> Answer(e1, "invalid")
    [] OTHER ->
       IF refusal # None THEN Answer(e2, refusal)
       ELSE IF Len(items) <= limit THEN [Answer(e2, "page") EXCEPT !.items = items]
       ELSE IF Resizable /\ ~generated THEN Answer(e2, "failed")
       ELSE IF page.outcome = "failed" THEN Answer(Scheduled(Release(page.engine, {s.id})), "failed")
       ELSE [page EXCEPT !.engine = Scheduled(page.engine)]

\* Snapshots a cursor may be of: looked up before and again after the cleanup.
Bound(e, token) ==
  {s \in ToSet(e.snapshots) :
     /\ s.id = token.snapshot
     /\ IF Resizable THEN token.offset \in 1..(Len(s.items) - 1) ELSE token \in e.index}

\* continuePage.
ContinuePage(e0, wall, token, asked, view, epoch, generated) ==
  LET e1 == Reading(e0, wall)
      late == {s \in Bound(e1, token) : e1.last >= s.expires}
      e2 == Cleaned(e1) IN
  IF e0.closed THEN Answer(e0, "closed")
  ELSE IF late # {} THEN Answer(Scheduled(Release(e1, {s.id : s \in late})), "expired")
  ELSE IF Bound(e2, token) = {} THEN Answer(e2, "expired")
  ELSE LET s == CHOOSE s \in Bound(e2, token) : TRUE
           limit == IF asked = None THEN s.limit ELSE asked
           page == PageAt(e2, s, token.offset, limit, generated) IN
       IF s.epoch # epoch THEN Answer(Scheduled(Release(e2, {s.id})), "expired")
       ELSE IF s.view # view THEN Answer(e2, "foreign")
       ELSE IF (~Resizable /\ asked # None) \/ limit \notin 1..MaximumItems
       THEN Answer(e2, "invalid")
       ELSE IF page.outcome = "failed" THEN page
       ELSE [page EXCEPT !.engine = Scheduled(page.engine)]

\* releaseUnissuedPage: a resizable first page whose cursor nobody was given.
Withdrawn(e, wall, token) ==
  IF Resizable /\ token # None
  THEN Scheduled(Reading(Release(e, {token.snapshot}), wall)) ELSE e

\* The timer fires: expired snapshots go, and the timer is set anew.
TimerFired(e, wall) == Scheduled(Cleaned(Reading([e EXCEPT !.timer = None], wall)))

CleanupExpired(e, wall) == IF e.closed THEN e ELSE Scheduled(Cleaned(Reading(e, wall)))

ClosedEngine(e) ==
  [Release(e, Ids(e)) EXCEPT !.closed = TRUE, !.timer = None, !.epoch = None]
-----------------------------------------------------------------------------
(* The clients. *)

VARIABLES
  live,      \* the records there are
  epoch,     \* of the Scope
  wall,      \* the wall clock
  clients    \* client -> what it has, and of what it began

vars == <<engine, live, epoch, wall, clients>>

\* frozen, epoch and deadline are what the first page promised; a promise ends
\* with the process that made it.  shown are the views pages were delivered in.
Fresh == [outcome |-> "idle", token |-> None, got |-> <<>>, shown |-> {},
          frozen |-> <<>>, epoch |-> None, deadline |-> 0]

Selected == SetToSortSeq(live, <)

\* What the client makes of a page of a traversal it has begun.
Reads(client, view, answer) ==
  [client EXCEPT !.got = @ \o answer.items, !.token = answer.next, !.shown = @ \cup {view},
                 !.outcome = IF answer.next = None THEN "done" ELSE "reading"]
-----------------------------------------------------------------------------
Change ==
  /\ \E r \in Records : live' = IF r \in live THEN live \ {r} ELSE live \cup {r}
  /\ UNCHANGED <<engine, epoch, wall, clients>>

\* What a first page becomes: it is delivered, or lost, or withdrawn by HEAD or
\* If-None-Match.
Starts(c, view, answer) ==
  LET begun == [Fresh EXCEPT !.frozen = Selected, !.epoch = epoch,
                             !.deadline = answer.engine.last + Ttl] IN
  \/ /\ answer.outcome = "page"
     /\ engine' = answer.engine
     /\ clients' = [clients EXCEPT ![c] = Reads(begun, view, answer)]
  \/ /\ answer.outcome = "page"
     /\ engine' = answer.engine
     /\ clients' = [clients EXCEPT ![c] = Fresh]
  \/ /\ answer.outcome = "page"
     /\ engine' = Withdrawn(answer.engine, wall, answer.next)
     /\ clients' = [clients EXCEPT ![c] = Fresh]
  \/ /\ answer.outcome # "page"
     /\ engine' = answer.engine
     /\ clients' = [clients EXCEPT ![c] = [Fresh EXCEPT !.outcome = answer.outcome]]

Begin(c) ==
  /\ clients[c].outcome # "reading"
  /\ engine.sequence < MaximumSnapshots /\ Reading(engine, wall).last + Ttl <= MaximumTime
  /\ \E view \in Views, asked \in Sizes \cup {None}, generated \in BOOLEAN :
       Starts(c, view, FirstPage(engine, wall, Selected, asked, view, epoch, generated))
  /\ UNCHANGED <<live, epoch, wall>>

GoesOn(c, view, answer) ==
  /\ engine' = answer.engine
  /\ \/ answer.outcome = "page" /\ clients' = [clients EXCEPT ![c] = Reads(@, view, answer)]
     \/ answer.outcome \in {"expired", "closed"}
        /\ clients' = [clients EXCEPT ![c].outcome = answer.outcome]
     \/ answer.outcome \notin {"expired", "closed"} /\ UNCHANGED clients

\* The next page, asked for once or, when an answer was lost, again.
Continue(c) ==
  /\ clients[c].outcome = "reading"
  /\ \E view \in Views, asked \in Sizes \cup {None}, generated \in BOOLEAN :
       GoesOn(c, view,
              ContinuePage(engine, wall, clients[c].token, asked, view, epoch, generated))
  /\ UNCHANGED <<live, epoch, wall>>

\* A client stops reading; what it had asked for is released by time only.
Leave(c) ==
  /\ clients[c].outcome # "idle"
  /\ clients' = [clients EXCEPT ![c] = Fresh]
  /\ UNCHANGED <<engine, live, epoch, wall>>

Cleanup ==
  /\ engine' = CleanupExpired(engine, wall)
  /\ UNCHANGED <<live, epoch, wall, clients>>

\* setTimeout calls back when its delay has passed, or later.
Fire ==
  /\ engine.timer = 0
  /\ engine' = TimerFired(engine, wall)
  /\ UNCHANGED <<live, epoch, wall, clients>>

Tick ==
  /\ wall < MaximumTime
  /\ wall' = wall + 1
  /\ engine' = [engine EXCEPT !.timer = IF @ \in {None, 0} THEN @ ELSE @ - 1]
  /\ UNCHANGED <<live, epoch, clients>>

SetBack ==
  /\ Adjusted /\ wall > 0 /\ wall' = wall - 1
  /\ UNCHANGED <<engine, live, epoch, clients>>

EndEpoch ==
  /\ epoch < MaximumEpoch /\ epoch' = epoch + 1
  /\ UNCHANGED <<engine, live, wall, clients>>

Close ==
  /\ ~engine.closed
  /\ engine' = ClosedEngine(engine)
  /\ clients' = [c \in Clients |-> [clients[c] EXCEPT !.deadline = 0]]
  /\ UNCHANGED <<live, epoch, wall>>

\* A new process: nothing is retained, and its key accepts no older cursor.
Restart ==
  /\ engine.closed
  /\ engine' = NewEngine(engine.sequence)
  /\ UNCHANGED <<live, epoch, wall, clients>>

Init ==
  /\ engine = NewEngine(0) /\ live \in SUBSET Records /\ epoch = 1 /\ wall = 0
  /\ clients = [c \in Clients |-> Fresh]

Next ==
  \/ Change \/ Cleanup \/ Fire \/ Tick \/ SetBack \/ EndEpoch \/ Close \/ Restart
  \/ \E c \in Clients : Begin(c) \/ Continue(c) \/ Leave(c)

Spec == Init /\ [][Next]_vars
-----------------------------------------------------------------------------
(* What clients and the process may rely on in paged reads (PagedReads). *)

\* What the authority believes it has reserved is what its snapshots hold, over
\* expiry, withdrawal, failed cursors, ended epochs and closing, and stays within
\* its bounds (release, assertRetainedStateCapacity, firstPageWithContext).
CapacityIsAccounted ==
  /\ engine.positions = Total(LAMBDA s : s.positions, engine.snapshots)
  /\ engine.weight = Total(LAMBDA s : s.weight, engine.snapshots)
  /\ engine.index = IF Resizable THEN {} ELSE UNION {Tokens(s) : s \in ToSet(engine.snapshots)}
  /\ Len(engine.snapshots) + engine.positions <= StateCapacity
  /\ engine.weight <= WeightCapacity
  /\ \A s \in ToSet(engine.snapshots) : ~Resizable => Cardinality(s.cursors) <= s.positions

\* A traversal, whatever page sizes it asks for, however often it asks again and
\* whatever is written meanwhile, yields what was selected by its first page:
\* each record once, in order, and none missing when there is no next page.
TraversalIsOneObservation ==
  \A c \in Clients : LET client == clients[c] IN
    /\ client.outcome = "reading" => IsStrictPrefix(client.got, client.frozen)
    /\ client.outcome = "done" => client.got = client.frozen
    /\ Cardinality(client.shown) <= 1

\* "Capacity pressure never evicts an active snapshot": a traversal ends early
\* only for its age, for a new epoch or with its process.
ExpiryIsJustified ==
  \A c \in Clients :
    clients[c].outcome = "reading" /\ clients'[c].outcome = "expired" =>
      clients[c].deadline <= engine'.last \/ epoch # clients[c].epoch

\* ... and at that age, or in a new epoch, it does end: no page is served then.
NothingIsServedLate ==
  \A c \in Clients :
    clients[c].outcome = "reading" /\ clients'[c].outcome \in {"reading", "done"}
      /\ clients'[c].got # clients[c].got =>
      engine'.last < clients[c].deadline /\ epoch = clients[c].epoch

\* No reader is refused for want of room that only expired snapshots occupy:
\* the cleanup may stop at the first live one because expiry follows admission.
BusyIsJustified ==
  \A c \in Clients :
    clients[c].outcome # "busy" /\ clients'[c].outcome = "busy" =>
      \A s \in ToSet(engine'.snapshots) : engine'.last < s.expires

\* With idle cleanup a timer is set whenever something is retained, and it is
\* due no later than the earliest expiry, whatever happened to the snapshot it
\* was set for.
TimerCoversEarliest ==
  IdleCleanup /\ ~engine.closed /\ engine.snapshots # <<>> =>
    /\ engine.timer # None
    /\ LET left == Head(engine.snapshots).expires - wall IN
       engine.timer <= IF left < 0 THEN 0 ELSE left
===============================================================================
