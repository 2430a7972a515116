----------------------------- MODULE RetainedEvents -----------------------------
(***************************************************************************)
(* Readers of the events of the reference store (store.ts, events, and     *)
(* saveCursor).  The events of a source are read in pages.  Every page     *)
(* gives a cursor to resume from, which sees what was appended since; a    *)
(* page that is not the last also gives a cursor for the next page, which  *)
(* does not.  Cursors are rows: they survive the process, and expire.      *)
(*                                                                         *)
(* AppendEvent stands for the decisions of RetainedStore.  A reader goes   *)
(* on with either of its cursors, and repeats a request without an answer. *)
(***************************************************************************)
EXTENDS Integers, Sequences, FiniteSets, SequencesExt, FiniteSetsExt

CONSTANTS
  Beads, Principals, Readers,
  Facts,            \* the sets of Beads an event may concern
  Limits,           \* page sizes
  Lifetime,         \* of a cursor
  MaximumEvents, MaximumCursors, MaximumTime,   \* bounds
  None

EventsAssumption ==
  /\ Limits \subseteq Nat \ {0} /\ Lifetime \in Nat \ {0}
  /\ {MaximumEvents, MaximumCursors, MaximumTime} \subseteq Nat
  /\ \A f \in Facts : f \subseteq Beads

VARIABLES
  events,    \* position -> the Beads it concerns, its subject among them
  cursors,   \* the rows, by token
  now,
  readers    \* reader -> what it asks for, what it has, and its cursors

vars == <<events, cursors, now, readers>>

Through == Len(events)
Sources == {None} \cup Beads
Concerns(source, n) == source = None \/ source \in events[n]

\* A Bead whose identity no event has established is no source.
Known(source) == source # None => \E n \in 1..Through : source \in events[n]

\* anchor, first, asked and since are history: where the reader began, what its
\* traversal's first page covered, the last limit it sent, and the time of its page.
Fresh == [principal |-> None, source |-> None, limit |-> 1, got |-> <<>>,
          next |-> None, resume |-> None, through |-> 0, outcome |-> "idle",
          anchor |-> 0, first |-> 0, asked |-> 1, since |-> 0]

TypeOK ==
  /\ events \in Seq(Facts) /\ now \in 0..MaximumTime
  /\ \A t \in DOMAIN cursors :
       /\ cursors[t].after <= cursors[t].through /\ cursors[t].through <= Through
       /\ cursors[t].mode \in {"next", "resume"}
  /\ \A r \in Readers :
       /\ DOMAIN readers[r] = DOMAIN Fresh
       /\ {readers[r].next, readers[r].resume} \subseteq DOMAIN cursors \cup {None}
-----------------------------------------------------------------------------
\* The first limit positions of a source after one position and up to another.
Rows(source, after, through, limit) ==
  LET all == SetToSortSeq({n \in (after + 1)..through : Concerns(source, n)}, <) IN
  SubSeq(all, 1, IF Len(all) < limit THEN Len(all) ELSE limit)

\* Where a page ends: at its last event if there are more, else at the end.
Scanned(source, after, through, limit) ==
  LET rows == Rows(source, after, through, limit + 1) IN
  IF Len(rows) > limit THEN rows[limit] ELSE through

Row(principal, source, after, through, limit, mode) ==
  [principal |-> principal, source |-> source, after |-> after, through |-> through,
   limit |-> limit, mode |-> mode, expires |-> now + Lifetime]

\* Mutant: the next page reads up to the present end.
Selected_open(row) == [after |-> row.after, through |-> Through]

\* What a cursor selects: a frozen range, or all there is now.
Selected(row) ==
  [after |-> row.after, through |-> IF row.mode = "next" THEN row.through ELSE Through]

\* The answer to a cursor: principal, source and page size are bound with it.
Verdict(principal, source, limit, token) ==
  IF \/ token \notin DOMAIN cursors
     \/ cursors[token].principal # principal
     \/ cursors[token].source # source
     \/ cursors[token].limit # limit
  THEN "foreign"
  ELSE IF cursors[token].expires <= now THEN "expired" ELSE "page"

\* One page with its cursor rows, in one transaction.  When the answer is lost, the
\* rows have tokens nobody knows: nothing observable has changed.
Page(r, who, range) ==
  LET rows == Rows(who.source, range.after, range.through, who.limit)
      scanned == Scanned(who.source, range.after, range.through, who.limit)
      more == Len(Rows(who.source, range.after, range.through, who.limit + 1)) > who.limit
      row(mode) == Row(who.principal, who.source, scanned, range.through, who.limit, mode)
      token == Len(cursors) + 1 IN
  /\ token < MaximumCursors
  /\ cursors' = cursors \o <<row("resume")>> \o IF more THEN <<row("next")>> ELSE <<>>
  /\ readers' = [readers EXCEPT ![r] =
       [who EXCEPT !.got = @ \o rows, !.resume = token, !.outcome = "reading",
                   !.next = IF more THEN token + 1 ELSE None,
                   !.through = range.through, !.since = now]]
-----------------------------------------------------------------------------
\* A decision appends an event.
AppendEvent ==
  /\ Through < MaximumEvents
  /\ \E f \in Facts : events' = Append(events, f)
  /\ UNCHANGED <<cursors, now, readers>>

\* A reader begins, at the first event or at the present end.
Begin(r) ==
  /\ readers[r].outcome = "idle"
  /\ \E principal \in Principals, source \in Sources, limit \in Limits, from \in {0, Through} :
       /\ Known(source)
       /\ Page(r, [Fresh EXCEPT !.principal = principal, !.source = source, !.limit = limit,
                                !.asked = limit, !.anchor = from, !.first = Through],
               [after |-> from, through |-> Through])
  /\ UNCHANGED <<events, now>>

\* A reader sends a cursor and a page size.
Ask(r, token, who) ==
  /\ readers[r].outcome = "reading" /\ token # None
  /\ \E limit \in Limits :
     LET verdict == Verdict(who.principal, who.source, limit, token) IN
       \/ verdict = "page" /\ Page(r, who, Selected(cursors[token]))
       \/ /\ verdict # "page"
          /\ readers' = [readers EXCEPT ![r].outcome = verdict, ![r].asked = limit]
          /\ UNCHANGED cursors
  /\ UNCHANGED <<events, now>>

FollowNext(r) == Ask(r, readers[r].next, readers[r])
Resume(r) == Ask(r, readers[r].resume, [readers[r] EXCEPT !.first = Through])

Tick ==
  /\ now < MaximumTime /\ now' = now + 1
  /\ UNCHANGED <<events, cursors, readers>>

Init ==
  /\ events = <<>> /\ cursors = <<>> /\ now = 0
  /\ readers = [r \in Readers |-> Fresh]

Next == AppendEvent \/ Tick \/ \E r \in Readers : Begin(r) \/ FollowNext(r) \/ Resume(r)

Spec == Init /\ [][Next]_vars
-----------------------------------------------------------------------------
(* What readers may rely on. *)

Due(reader) ==
  SetToSortSeq({n \in (reader.anchor + 1)..reader.through : Concerns(reader.source, n)}, <)

\* Over pages, resumed reads and repeated requests, a reader gets
\* the events of its source after its anchor, each once and in order; and once a
\* page has no next one, all of them up to what that page covers.
EventsOnceInOrder ==
  \A r \in Readers : readers[r].outcome # "idle" =>
    /\ IsPrefix(readers[r].got, Due(readers[r]))
    /\ readers[r].next = None => readers[r].got = Due(readers[r])

\* The pages reached through next belong to the observation their traversal
\* began with, whatever is appended between the requests.
NextIsOneObservation ==
  \A r \in Readers : readers[r].through = readers[r].first

\* A reader that repeats its own query is refused only once the lifetime its
\* page announced is over.
RefusalsAreJustified ==
  \A r \in Readers :
    /\ readers[r].outcome = "expired" => now >= readers[r].since + Lifetime
    /\ readers[r].outcome = "foreign" => readers[r].asked # readers[r].limit
=============================================================================
