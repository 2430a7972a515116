-------------------------- MODULE TransactionSnapshot --------------------------
(***************************************************************************)
(* Retained snapshots of the transactional store (transaction-snapshot.ts, *)
(* and observeSnapshot of transaction-store.ts).  A snapshot copies all    *)
(* Resources of one position with its plan of pages, in one transaction;   *)
(* its manifest names the checkpoint of that position, from which the      *)
(* changes can be followed.  Snapshots are durable: they outlive the       *)
(* process and the delivery of their manifest.  Their identities are kept  *)
(* for the whole epoch, their bodies until they expire.                    *)
(*                                                                         *)
(* Every request sweeps what has expired, in a transaction of its own, and *)
(* is decided at the same instant.  The wall clock may be set back.        *)
(***************************************************************************)
EXTENDS Integers, Sequences, FiniteSets, SequencesExt, FiniteSetsExt

CONSTANTS
  Clients,
  Graphs,         \* the Resources a store can hold: each maps addresses to bodies
  Addresses,      \* all of them, in canonical order
  Links,          \* those of Links; the others are Beads'
  SizeOf,         \* of a body
  Lifetime,
  MaximumResources, RecordBytes,        \* of one snapshot
  LiveHandles, LiveRecordBytes,         \* of all that are not expired
  IssuedHandles,                        \* of all of the epoch
  PageItems, PageBytes,                 \* of a page
  MaximumPosition, MaximumTime,         \* bounds
  None

Kinds == {"bead", "link"}
KindOf(id) == IF id \in Links THEN "link" ELSE "bead"

SnapshotAssumption ==
  /\ \A g \in Graphs : \A id \in DOMAIN g :
       (\E n \in 1..Len(Addresses) : Addresses[n] = id) /\ SizeOf[g[id]] <= PageBytes
  /\ {Lifetime, PageItems, PageBytes} \subseteq Nat \ {0}
  /\ {MaximumResources, RecordBytes, LiveHandles, LiveRecordBytes, IssuedHandles} \subseteq Nat

VARIABLES
  history,    \* history[p + 1]: the Resources at position p; the last are current
  view,       \* the authorization view: "initial", or the published empty one
  now,
  snapshots,  \* the issued snapshots
  clients     \* client -> what it has read

vars == <<history, view, now, snapshots, clients>>

Position == Len(history) - 1
Visible == view = "initial"
Contents(p) == history[p + 1]
-----------------------------------------------------------------------------
(* Capture. *)

Bytes(items) == FoldLeft(LAMBDA sum, item : sum + SizeOf[item.body], 0, items)

\* The records of a kind, in the order of their addresses.
Stream(graph, kind) ==
  LET ids == SelectSeq(Addresses, LAMBDA id : id \in DOMAIN graph /\ KindOf(id) = kind) IN
  [n \in 1..Len(ids) |-> [id |-> ids[n], body |-> graph[ids[n]]]]

\* A page takes items while their number and their size allow.
PageEnd(items, start) ==
  Max({e \in start..Len(items) :
         e - start <= PageItems /\ Bytes(SubSeq(items, start + 1, e)) <= PageBytes})

\* The ends of the pages of a stream; an empty stream has one empty page.
Ends(items) ==
  LET end[n \in 0..Len(items) + 1] ==
        IF n = 0 THEN 0
        ELSE IF end[n - 1] = Len(items) THEN Len(items) ELSE PageEnd(items, end[n - 1])
      count == Min({n \in 1..Len(items) + 1 : end[n] = Len(items)}) IN
  [n \in 1..count |-> end[n]]

\* A new snapshot.  Its seed and the number of its pages stay when it expires.
Captured ==
  LET graph == IF Visible THEN Contents(Position) ELSE [id \in {} |-> None]
      items == [k \in Kinds |-> Stream(graph, k)] IN
  [view |-> view, position |-> Position, expires |-> now + Lifetime, expired |-> FALSE,
   bytes |-> Bytes(items.bead) + Bytes(items.link), items |-> items,
   ends |-> [k \in Kinds |-> Ends(items[k])],
   pages |-> [k \in Kinds |-> Len(Ends(items[k]))]]
-----------------------------------------------------------------------------
(* The ledger of issued snapshots. *)

\* Mutant: expiry only hides a snapshot, until the clock says otherwise.
Swept_hiding == snapshots

\* The snapshots after the sweep of this instant: a body that is gone stays gone.
Swept ==
  [n \in 1..Len(snapshots) |->
     IF ~snapshots[n].expired /\ snapshots[n].expires < now
     THEN [snapshots[n] EXCEPT !.expired = TRUE, !.items = None, !.ends = None]
     ELSE snapshots[n]]

LiveOf(ledger) == {n \in 1..Len(ledger) : ~ledger[n].expired}
BytesOf(ledger) == MapThenSumSet(LAMBDA n : ledger[n].bytes, LiveOf(ledger))

Refusal(ledger, new) ==
  IF Len(ledger) >= IssuedHandles THEN "limit-exceeded"
  ELSE IF Len(new.items.bead) + Len(new.items.link) > MaximumResources
          \/ new.bytes > RecordBytes THEN "limit-exceeded"
  ELSE IF \/ Cardinality(LiveOf(ledger)) >= LiveHandles
          \/ BytesOf(ledger) + new.bytes > LiveRecordBytes
  THEN "temporarily-unavailable" ELSE "none"

\* The answer to an issued identity or page.
Resolved(ledger, n) ==
  IF ledger[n].view # view THEN "foreign-view"
  ELSE IF ledger[n].expired \/ now > ledger[n].expires THEN "cursor-expired"
  ELSE "page"

\* The items of a page, and the number of the next one (0: there is none).
PageOf(snapshot, kind, n) ==
  LET ends == snapshot.ends[kind] IN
  [items |-> SubSeq(snapshot.items[kind], IF n = 1 THEN 1 ELSE ends[n - 1] + 1, ends[n]),
   next |-> IF n < Len(ends) THEN n + 1 ELSE 0]
-----------------------------------------------------------------------------
(* Clients. *)

\* base and upto: the Resources it put together from a whole snapshot and the
\* changes it followed since, and the position these stand for.
Fresh == [handle |-> 0, got |-> [k \in Kinds |-> <<>>], next |-> [k \in Kinds |-> 0],
          base |-> None, upto |-> 0, outcome |-> "idle", gone |-> {}]

Reader(client, n, snapshot) ==
  LET first(k) == PageOf(snapshot, k, 1) IN
  [client EXCEPT !.handle = n, !.outcome = "reading",
                 !.got = [k \in Kinds |-> first(k).items],
                 !.next = [k \in Kinds |-> first(k).next]]

Told(client, n, answer) ==
  [client EXCEPT !.outcome = answer,
                 !.gone = @ \cup IF answer = "cursor-expired" THEN {n} ELSE {}]
-----------------------------------------------------------------------------
\* A request for a new snapshot.  Its transaction may be rolled back, and its
\* answer may be lost; neither undoes the sweep, nor the second the issue.
Create(c) ==
  /\ clients[c].outcome = "idle"
  /\ LET refusal == Refusal(Swept, Captured)
         ledger == Append(Swept, Captured)
         n == Len(ledger) IN
     \/ /\ refusal # "none"
        /\ snapshots' = Swept
        /\ UNCHANGED clients
     \/ /\ refusal = "none"
        /\ \/ snapshots' = Swept /\ UNCHANGED clients
           \/ snapshots' = ledger /\ UNCHANGED clients
           \/ /\ snapshots' = ledger
              /\ clients' = [clients EXCEPT ![c] = Reader(@, n, ledger[n])]
  /\ UNCHANGED <<history, view, now>>

\* A client asks for the manifest of its snapshot again.
Manifest(c) ==
  /\ clients[c].handle # 0
  /\ LET n == clients[c].handle
         answer == Resolved(Swept, n) IN
     /\ snapshots' = Swept
     /\ clients' = [clients EXCEPT ![c] =
          IF answer = "page" THEN Reader(@, n, Swept[n]) ELSE Told(@, n, answer)]
  /\ UNCHANGED <<history, view, now>>

Page(c, kind) ==
  /\ clients[c].outcome = "reading" /\ clients[c].next[kind] # 0
  /\ LET n == clients[c].handle
         answer == Resolved(Swept, n)
         page == PageOf(Swept[n], kind, clients[c].next[kind]) IN
     /\ snapshots' = Swept
     /\ clients' = [clients EXCEPT ![c] =
          IF answer = "page"
          THEN [@ EXCEPT !.got[kind] = @ \o page.items, !.next[kind] = page.next]
          ELSE Told(@, n, answer)]
  /\ UNCHANGED <<history, view, now>>

\* The changes between two positions, applied to what is known of the first.
Followed(base, from, to) ==
  LET changed == {id \in DOMAIN Contents(from) \cup DOMAIN Contents(to) :
                    \/ id \notin DOMAIN Contents(from) \cap DOMAIN Contents(to)
                    \/ Contents(from)[id] # Contents(to)[id]}
      kept == (DOMAIN base \ changed) \cup (changed \cap DOMAIN Contents(to)) IN
  [id \in kept |-> IF id \in changed THEN Contents(to)[id] ELSE base[id]]

\* A client with all pages follows the changes after the snapshot's checkpoint.
Follow(c) ==
  /\ clients[c].outcome = "reading" /\ clients[c].next = [k \in Kinds |-> 0]
  /\ Visible
  /\ LET got == clients[c].got.bead \o clients[c].got.link
         base == [id \in {got[n].id : n \in 1..Len(got)} |->
                    got[CHOOSE n \in 1..Len(got) : got[n].id = id].body]
         from == snapshots[clients[c].handle].position IN
     /\ from <= Position
     /\ clients' = [clients EXCEPT ![c].base = Followed(base, from, Position),
                                   ![c].upto = Position, ![c].outcome = "followed"]
  /\ UNCHANGED <<history, view, now, snapshots>>

\* A transaction group commits.
Commit ==
  /\ Visible /\ Position < MaximumPosition
  /\ \E g \in Graphs : g # Contents(Position) /\ history' = Append(history, g)
  /\ UNCHANGED <<view, now, snapshots, clients>>

\* The empty policy is published, once.
PublishPolicy ==
  /\ Visible /\ view' = "empty"
  /\ UNCHANGED <<history, now, snapshots, clients>>

\* Maintenance; so do HEAD and the requests whose answer will not be the manifest,
\* which are decided like Create but allocate nothing.
Sweep == snapshots' = Swept /\ UNCHANGED <<history, view, now, clients>>

\* The wall clock.
Tick == now < MaximumTime /\ now' = now + 1 /\ UNCHANGED <<history, view, snapshots, clients>>
SetBack == now > 0 /\ now' = now - 1 /\ UNCHANGED <<history, view, snapshots, clients>>

Init ==
  /\ history = <<[id \in {} |-> None]>>
  /\ view = "initial" /\ now = 0 /\ snapshots = <<>>
  /\ clients = [c \in Clients |-> Fresh]

Next ==
  \/ \E c \in Clients : Create(c) \/ Manifest(c) \/ Follow(c) \/ \E k \in Kinds : Page(c, k)
  \/ Sweep \/ Commit \/ PublishPolicy \/ Tick \/ SetBack

Spec == Init /\ [][Next]_vars
-----------------------------------------------------------------------------
(* What snapshots promise (TransactionSnapshot). *)

\* The kept detail of a snapshot, its counts and its place in the ledger.
TypeOK ==
  /\ \A n \in 1..Len(snapshots) : LET s == snapshots[n] IN
       /\ s.position \in 0..Position /\ s.view \in {"initial", view}
       /\ s.expired <=> s.items = None
       /\ s.expired <=> s.ends = None
       /\ \A k \in Kinds : s.pages[k] \in 1..MaximumResources + 1
  /\ \A c \in Clients : clients[c].handle \in 0..Len(snapshots)

\* The Resources a snapshot stands for.
Standing(n) ==
  IF snapshots[n].view = "initial" THEN Contents(snapshots[n].position) ELSE [id \in {} |-> None]

\* What a client reads of a snapshot is the store at the snapshot's position,
\* each record once and in order, however many commits and publications happen
\* between its pages; without a next page it has all of it (capture, page).
SnapshotIsOnePosition ==
  \A c \in Clients : clients[c].outcome = "reading" =>
    \A k \in Kinds :
      LET stream == Stream(Standing(clients[c].handle), k) IN
      /\ IsPrefix(clients[c].got[k], stream)
      /\ clients[c].next[k] = 0 => clients[c].got[k] = stream

\* A whole snapshot and the changes after its checkpoint make the current store
\* (the position of a capture is that of what it copies).
CheckpointContinues ==
  \A c \in Clients : clients[c].outcome = "followed" =>
    clients[c].base = Contents(clients[c].upto)

\* An expired snapshot is never served again, although the clock can go back:
\* whoever was told so, it holds for everyone (expire).
DisposalIsFinal ==
  \A c, d \in Clients :
    clients'[c].got # clients[c].got => clients'[c].handle \notin clients[d].gone

\* Pages are given only to the view they were captured for, also when it ends
\* while they are read (resolve, within one owner entry).
PagesArePerView ==
  \A c \in Clients : clients'[c].got # clients[c].got =>
    snapshots'[clients'[c].handle].view = view

\* Lost answers and rolled back captures included, what is retained stays within
\* the handles and bytes of all live snapshots, and the ledger within an epoch's.
CapacityIsBounded ==
  /\ Cardinality(LiveOf(snapshots)) <= LiveHandles
  /\ MapThenSumSet(LAMBDA n : Bytes(snapshots[n].items.bead) + Bytes(snapshots[n].items.link),
                   LiveOf(snapshots)) <= LiveRecordBytes
  /\ Len(snapshots) <= IssuedHandles
===============================================================================
