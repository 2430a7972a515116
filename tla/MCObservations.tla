----------------------------- MODULE MCObservations -----------------------------
(***************************************************************************)
(* Reads that go on over several requests, side by side: the paged reads   *)
(* with a fixed page size and with one that changes, the retained          *)
(* snapshots (two readers that share the capacity, and one whose snapshots *)
(* fill several pages), the event pages and the receipt pages.  They share *)
(* no state: a behaviour is one of them, while the others stay as they     *)
(* begin.                                                                  *)
(***************************************************************************)
EXTENDS Integers, Sequences, FiniteSets, TLC

CONSTANTS
  None,
  c1, c2, d1,      \* clients: two interchangeable ones, and one that is alone
  v1, v2,          \* views
  a, b, r1, r2,    \* Beads of events; readers
  k1, k2, p1, p2   \* keys and principals of receipts

VARIABLES
  part,                                        \* whose behaviour this is
  engine, live, epoch, wall, clients,          \* PagedReads
  history, view, now, snapshots, holders,      \* TransactionSnapshot
  events, cursors, readers,                    \* RetainedEvents
  row, plan, policy, issued, made, walk        \* TransactionReceipts

\* The clock of the snapshots is also that of events and of receipts.
paged == <<engine, live, epoch, wall, clients>>
held == <<history, view, snapshots, holders>>
told == <<events, cursors, readers>>
received == <<row, plan, policy, issued, made, walk>>
vars == <<part, paged, held, now, told, received>>
-----------------------------------------------------------------------------
Two == {c1, c2}
One == {d1}
OneView == {v1}
TwoViews == {v1, v2}
OneSize == {1}
LargerSize == {2}   \* next to the default
TwoSizes == {1, 2}
TwoRecords == 1..2
ThreeRecords == 1..3

\* Fixed pages at their capacity: two clients, cursors that fail, clocks set back.
Fixed == INSTANCE PagedReads WITH
  Resizable <- FALSE, IdleCleanup <- FALSE, DefaultItems <- 1, MaximumItems <- 2,
  Ttl <- 1, StateCapacity <- 4, SnapshotCursors <- 1, WeightCapacity <- 5,
  LongestDelay <- 2147483647, Records <- TwoRecords, Clients <- Two, Views <- OneView,
  Sizes <- OneSize, MaximumSnapshots <- 3, MaximumEpoch <- 1, MaximumTime <- 2,
  Adjusted <- TRUE

\* Traversals with changing page sizes, withdrawn pages, epochs and restarts.
Sized == INSTANCE PagedReads WITH
  Resizable <- TRUE, IdleCleanup <- TRUE, DefaultItems <- 1, MaximumItems <- 2,
  Ttl <- 1, StateCapacity <- 3, SnapshotCursors <- 1, WeightCapacity <- 5,
  LongestDelay <- 2147483647, Records <- ThreeRecords, Clients <- One, Views <- TwoViews,
  Sizes <- LargerSize, MaximumSnapshots <- 2, MaximumEpoch <- 2, MaximumTime <- 2,
  Adjusted <- FALSE

Addresses == <<"b1", "l1", "b2", "b3", "b4">>
Links == {"l1"}
SizeOf == [body \in {"s", "m"} |-> IF body = "s" THEN 1 ELSE 2]
Of(ids, body) == [id \in ids |-> body]

\* Few records, records that fill several pages by number or by size, and more
\* than a snapshot may hold.
Graphs ==
  {Of({"b1"}, "s"), Of({"b1", "b2", "b3", "l1"}, "s"), Of({"b1", "b2", "l1"}, "m"),
   Of({"b1", "b2", "b3", "b4", "l1"}, "s")}

\* Two clients share the capacity and the clock: what one holds, the other lacks.
SmallAndLarge == {Of({"b1"}, "s"), Of({"b1", "b2", "b3", "l1"}, "s")}

Shared == INSTANCE TransactionSnapshot WITH
  clients <- holders, Clients <- Two, Graphs <- SmallAndLarge,
  Lifetime <- 1, MaximumResources <- 4, RecordBytes <- 6, LiveHandles <- 2,
  LiveRecordBytes <- 8, IssuedHandles <- 3, PageItems <- 2, PageBytes <- 3,
  MaximumPosition <- 1, MaximumTime <- 2

\* One client reads over commits, the publication, expiry and clocks set back.
Alone == INSTANCE TransactionSnapshot WITH
  clients <- holders, Clients <- One,
  Lifetime <- 1, MaximumResources <- 4, RecordBytes <- 6, LiveHandles <- 2,
  LiveRecordBytes <- 8, IssuedHandles <- 3, PageItems <- 2, PageBytes <- 3,
  MaximumPosition <- 2, MaximumTime <- 2

Beads == {a, b}
Principal == {p1}
Reader == {r1}
Facts == {{a}, {b}, {a, b}}

\* Events of one Bead, of the other, and of a Link, which concern both; every order
\* of three events, two to three pages and two instants of expiry.
Events == INSTANCE RetainedEvents WITH
  Principals <- Principal, Readers <- Reader, Limits <- TwoSizes, Lifetime <- 2,
  MaximumEvents <- 3, MaximumCursors <- 5, MaximumTime <- 2

R == "resource"
P == "plain"
Keys == {k1, k2}
Principals == {p1, p2}
Readers == {r1, r2}
OwnerOf == [k \in Keys |-> IF k = k1 THEN p1 ELSE p2]
ReaderFor == [r \in Readers |-> IF r = r1 THEN p1 ELSE p2]
Results == {<<R, R, R, P>>, <<P, R, P, R, R>>}

\* One or two receipts of up to three pages, and two readers of a principal each.
Receipts == INSTANCE TransactionReceipts WITH
  Maximum <- 2, Retention <- 1, MaxTime <- 2, MaxReceipts <- 2

ASSUME Fixed!PagedAssumption /\ Sized!PagedAssumption
ASSUME Fixed!PaginationAssumption /\ Sized!PaginationAssumption
ASSUME Shared!SnapshotAssumption /\ Alone!SnapshotAssumption
ASSUME Events!EventsAssumption
-----------------------------------------------------------------------------
Init ==
  /\ part \in {"fixed", "sized", "shared", "alone", "events", "receipts"}
  /\ IF part = "fixed" THEN Fixed!Init ELSE Sized!Init /\ (part # "sized" => live = {})
  /\ IF part = "shared" THEN Shared!Init ELSE Alone!Init
  /\ Events!Init /\ Receipts!Init

Next ==
  \/ part = "fixed" /\ Fixed!Next /\ UNCHANGED <<part, held, now, told, received>>
  \/ part = "sized" /\ Sized!Next /\ UNCHANGED <<part, held, now, told, received>>
  \/ part = "shared" /\ Shared!Next /\ UNCHANGED <<part, paged, told, received>>
  \/ part = "alone" /\ Alone!Next /\ UNCHANGED <<part, paged, told, received>>
  \/ part = "events" /\ Events!Next /\ UNCHANGED <<part, paged, held, received>>
  \/ part = "receipts" /\ Receipts!Next /\ UNCHANGED <<part, paged, held, told>>

Spec == Init /\ [][Next]_vars

Interchangeable == Permutations({c1, c2})
-----------------------------------------------------------------------------
(* What a reader may rely on over several requests. *)

\* However many requests a read takes and whatever is written, published, lost,
\* repeated or expired meanwhile, it tells one observation, each item once and in
\* order, and all of it when there is no next page: the records selected by a first
\* page, the Resources of a snapshot and its changes, the events up to a position,
\* the entries of a receipt (PagedReads, TransactionSnapshot, events and
\* saveCursor of store.ts, readReceiptPage of transaction-store.ts).
ReadsAreOneObservation ==
  /\ part = "fixed" => Fixed!TraversalIsOneObservation
  /\ part = "sized" => Sized!TraversalIsOneObservation
  /\ part = "shared" => Shared!SnapshotIsOnePosition /\ Shared!CheckpointContinues
  /\ part = "alone" => Alone!SnapshotIsOnePosition /\ Alone!CheckpointContinues
  /\ part = "events" => Events!EventsOnceInOrder /\ Events!NextIsOneObservation
  /\ part = "receipts" => Receipts!WalkIsWhole

\* What is retained for readers keeps its shape, is what is accounted for and within
\* its bounds, is covered by a timer where there is one, and is kept as long as was
\* announced: no cursor or token that was given is refused before, or turns out to
\* be a fault.
RetentionIsKept ==
  /\ part = "fixed" => Fixed!CapacityIsAccounted
  /\ part = "sized" => Sized!CapacityIsAccounted /\ Sized!TimerCoversEarliest
  /\ part = "shared" => Shared!TypeOK /\ Shared!CapacityIsBounded
  /\ part = "alone" => Alone!TypeOK /\ Alone!CapacityIsBounded
  /\ part = "events" => Events!TypeOK /\ Events!RefusalsAreJustified
  /\ part = "receipts" => Receipts!TokensStand

\* A traversal ends early only for its age or a new epoch, a reader is refused room
\* only when live snapshots occupy it, and a receipt is there through the instant it
\* names: capacity pressure and sweeps take nothing that was promised.
EndsAreJustified ==
  [][/\ part = "fixed" => Fixed!ExpiryIsJustified /\ Fixed!BusyIsJustified
     /\ part = "sized" => Sized!ExpiryIsJustified /\ Sized!BusyIsJustified
     /\ part = "receipts" => Receipts!KeptAsPromised]_vars

\* What has ended is over: no page after the deadline or in a new epoch, none of a
\* snapshot somebody was told is gone, though the clock goes back, and none to a
\* view it was not captured for, nor a Resource to a view that was restricted.
NothingIsServedLate ==
  [][/\ part = "fixed" => Fixed!NothingIsServedLate
     /\ part = "sized" => Sized!NothingIsServedLate
     /\ part = "shared" => Shared!DisposalIsFinal /\ Shared!PagesArePerView
     /\ part = "alone" => Alone!DisposalIsFinal /\ Alone!PagesArePerView
     /\ part = "receipts" => Receipts!NothingMoreIsShown]_vars
=================================================================================
