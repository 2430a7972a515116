--------------------------- MODULE AuthorityDelivery ---------------------------
(***************************************************************************)
(* How the authority's read plane delivers one read (server/src/authority- *)
(* read.ts, createAuthorityReadPlane): one synchronous entry of the owner   *)
(* at a time, in which the callbacks of the owner, of the policy and of the *)
(* caller's signal run, and may call the plane again. What an entry         *)
(* discloses is the matter of AuthorityGraph.                               *)
(***************************************************************************)
EXTENDS Naturals

CONSTANTS
  Calls,    \* reads that are asked for
  None

VARIABLES
  busy, stopped,   \* the plane's flags
  pages,           \* "open" or "closed": the snapshots of paged reads
  active,          \* the call whose entry runs, or None
  at,              \* where it is
  entries,         \* how often the owner has called back
  captured,        \* None, "refused", "body" or "page"
  aborted,         \* the calls whose signal was aborted
  failure,         \* of the active call: None or what was thrown first
  result           \* of each call: None, or how its promise was settled

frame == <<active, at, entries, captured, failure>>
vars == <<busy, stopped, pages, frame, aborted, result>>

Fails(why) == failure' = (IF failure = None THEN why ELSE failure) /\ at' = "settle"
-----------------------------------------------------------------------------
(* Calls, their signals and the close; all of them also from callbacks. *)

Refusal == IF busy THEN "reentrant" ELSE IF stopped THEN "closed" ELSE None

\* A call that was refused had not taken the plane.
Freed == ~busy

Call(c) ==
  /\ result[c] = None /\ c # active
  /\ IF Refusal # None
     THEN /\ result' = [result EXCEPT ![c] = Refusal] /\ busy' = (busy /\ ~Freed)
          /\ UNCHANGED frame
     ELSE /\ busy' = TRUE /\ active' = c /\ at' = "options"
          /\ entries' = 0 /\ captured' = None /\ failure' = None
          /\ UNCHANGED result
  /\ UNCHANGED <<stopped, pages, aborted>>

Abort(c) ==
  /\ c \notin aborted /\ result[c] = None /\ aborted' = aborted \cup {c}
  /\ UNCHANGED <<busy, stopped, pages, frame, result>>

\* From a callback of a read the close throws.
Closable == ~busy

Close ==
  /\ Closable /\ ~stopped
  /\ stopped' = TRUE /\ pages' = "closed"
  /\ UNCHANGED <<busy, frame, aborted, result>>
-----------------------------------------------------------------------------
(* The steps of a read; between them callbacks run. *)

\* The receiving options, the signal and the principal, which is compared with
\* what it was when the facet was made; then the request itself.
Options ==
  /\ at = "options"
  /\ \/ active \in aborted /\ Fails("aborted")
     \/ active \notin aborted /\ Fails("fault")
     \/ active \notin aborted /\ at' = "enter" /\ UNCHANGED failure
  /\ UNCHANGED <<busy, stopped, pages, active, entries, captured, aborted, result>>

\* A request that is not valid in this Scope never enters the owner.
Invalid ==
  /\ at = "enter" /\ captured' = "refused" /\ at' = "settle"
  /\ UNCHANGED <<busy, stopped, pages, active, entries, failure, aborted, result>>

\* What the first callback leaves: nothing, when it throws; a refusal, before or
\* after the context was captured; a result; or what pages are made of.
Captures == {None, "refused", "body", "page"}

\* The owner calls back: the authorization is captured, with the epoch and the
\* configuration, and what it lets see is materialized; the condition of the
\* source is checked last. What is thrown in a callback may be kept by the owner.
Enters ==
  /\ at \in {"enter", "inside"} /\ entries < 2
  /\ entries' = entries + 1 /\ at' = "inside"
  /\ \/ entries = 0 /\ captured' \in Captures
     \/ entries = 1 /\ UNCHANGED captured
  /\ UNCHANGED <<busy, stopped, pages, active, failure, aborted, result>>

\* The owner returns what its one callback returned, or it refused before.
Honest(returned) == returned = "captured" /\ captured # None /\ entries = 1

Returns ==
  /\ at \in {"enter", "inside"}
  /\ \E returned \in {"captured", "other", "refusal", "throws"} :
     IF Honest(returned)
     THEN at' = (IF captured = "page" THEN "finish" ELSE "settle") /\ UNCHANGED failure
     ELSE Fails(IF returned = "refusal" /\ entries = 0 THEN "refused-entry" ELSE "fault")
  /\ UNCHANGED <<busy, stopped, pages, active, entries, captured, aborted, result>>

\* After the entry: selectors and pages, whose controls refuse and whose clock or
\* tokens may throw.
Finish ==
  /\ at = "finish"
  /\ \/ captured' \in {"body", "refused"} /\ at' = "settle" /\ UNCHANGED failure
     \/ UNCHANGED captured /\ Fails("fault")
  /\ UNCHANGED <<busy, stopped, pages, active, entries, aborted, result>>

\* A fault of the work comes first, then an abort that happened meanwhile.
Settlement ==
  IF failure # None THEN failure ELSE IF active \in aborted THEN "aborted" ELSE captured

\* However a read ends, the plane is free after it.
Kept == FALSE

Settle ==
  /\ at = "settle"
  /\ result' = [result EXCEPT ![active] = Settlement]
  /\ busy' = Kept /\ active' = None /\ at' = "idle"
  /\ UNCHANGED <<stopped, pages, entries, captured, failure, aborted>>
-----------------------------------------------------------------------------
Init ==
  /\ busy = FALSE /\ stopped = FALSE /\ pages = "open"
  /\ active = None /\ at = "idle" /\ entries = 0 /\ captured = None /\ failure = None
  /\ aborted = {} /\ result = [c \in Calls |-> None]

Next ==
  \/ \E c \in Calls : Call(c) \/ Abort(c)
  \/ Close \/ Options \/ Invalid \/ Enters \/ Returns \/ Finish \/ Settle

Spec == Init /\ [][Next]_vars
-----------------------------------------------------------------------------
(* Correctness. *)

\* A read that a callback begins inside of another is refused and changes nothing
\* of it: no entry is left for another, and the plane stays taken until it ends.
OneEntry == active # None => active' \in {active, None}

TakenWhileActive == busy <=> active # None

\* The snapshots of pages are not closed under an entry that may make some.
ClosedBetweenReads == pages = "closed" => stopped /\ active = None

\* A promise is fulfilled only with what one entry of the owner has captured, and
\* not after its caller has withdrawn; a withdrawal never hides a fault.
SettlesTruly ==
  \A c \in Calls : result'[c] # result[c] =>
    /\ result'[c] = "body" => entries = 1 /\ c \notin aborted /\ failure = None
    /\ result'[c] = "refused" => entries \in {0, 1} /\ c \notin aborted
    /\ failure # None /\ c = active => result'[c] = failure
    /\ result'[c] = "page" => FALSE

Fairness == WF_vars(Options) /\ WF_vars(Returns) /\ WF_vars(Finish) /\ WF_vars(Settle)
===============================================================================
