----------------------------- MODULE CommandListing -----------------------------
(***************************************************************************)
(* Collections on the command line (apps/bdp canonical-runtime.ts): a run  *)
(* fetches pages, within a limit, until a page, its limit or the           *)
(* population ends, and says where the next run may continue.  As JSONL it *)
(* shows items while it fetches; otherwise it shows all it has at the end. *)
(* Fetches and output fail, and users interrupt.                           *)
(***************************************************************************)
EXTENDS Naturals, Sequences, TLC

CONSTANTS
  Population,   \* how many items there are, 1 to Population in their order
  PageSizes, Limits, Formats,
  MaximumRuns,  \* bound
  None

VARIABLES
  run,     \* the run: its options, where it is, what it counts
  buffer,  \* items fetched and not shown
  report,  \* what the last run that ended said
  begun,   \* runs so far
  shown    \* ghost: what the user saw since the first run of a chain

vars == <<run, buffer, report, begun, shown>>

Options == [format : Formats, pageSize : PageSizes, limit : Limits, unpaged : BOOLEAN,
            raw : BOOLEAN]

\* A cursor is the place after which it continues.
Rest(place) == Population - place
Streams == run.format = "jsonl"

\* The limit of one fetch.
Size ==
  LET left == run.limit - run.returned IN
  IF run.limit = 0 \/ run.pageSize < left THEN run.pageSize ELSE left

\* Inside a page there is no place to continue.
InsidePage == None

\* Why the run stops after a page.
Stop(returned, next) ==
  IF next = None THEN "exhausted"
  ELSE IF run.limit > 0 /\ run.limit <= returned THEN "limit" ELSE "page"

Completion(outcome, returned, exhausted, stop, next) ==
  [outcome |-> outcome, returned |-> returned, exhausted |-> exhausted, stop |-> stop, next |-> next]

\* A stream that fails says where it may continue, if anywhere; anything else
\* that fails says nothing.
Failed ==
  IF run.stream
  THEN Completion("failure", run.returned,
                  IF run.boundary = None THEN None ELSE run.boundary = Population,
                  "error", IF run.boundary = Population THEN None ELSE run.boundary)
  ELSE Completion("failure", 0, None, "error", None)

Fail ==
  /\ run.at \in {"fetching", "showing", "ending"}
  /\ report' = Failed /\ run' = [run EXCEPT !.at = "over"] /\ buffer' = <<>>
  /\ UNCHANGED <<begun, shown>>
-----------------------------------------------------------------------------
\* A run from the start, or from where the last one said; its cursor is used as
\* it is.
Begin ==
  /\ run.at = "over" /\ begun < MaximumRuns /\ begun' = begun + 1
  /\ \E o \in Options, place \in {0, report.next} \ {None} :
       /\ o.raw => o.format = "jsonl"
       /\ run' = o @@ [at |-> "fetching", place |-> place, next |-> None, returned |-> 0,
                       stream |-> FALSE, boundary |-> None]
       /\ shown' = IF place = 0 THEN <<>> ELSE shown
  /\ buffer' = <<>> /\ UNCHANGED report

\* The server gives what it likes up to what was asked for, more being refused.
Fetch ==
  /\ run.at = "fetching"
  /\ \E n \in 0..Rest(run.place) :
       LET next == IF run.place + n = Population THEN None ELSE run.place + n IN
       /\ n <= Size /\ (n = 0 => next = None)
       /\ buffer' = buffer \o [i \in 1..n |-> run.place + i]
       /\ run' = [run EXCEPT !.at = "showing", !.next = next, !.place = run.place + n,
                             !.stream = Streams,
                             !.boundary = IF Streams THEN InsidePage ELSE None,
                             !.returned = IF Streams THEN @ ELSE @ + n]
  /\ UNCHANGED <<report, begun, shown>>

\* An item is shown and counted; one whose output fails may have been seen.
ShowItem ==
  /\ run.at = "showing" /\ Streams /\ buffer # <<>>
  /\ shown' = Append(shown, Head(buffer))
  /\ \/ /\ buffer' = Tail(buffer) /\ run' = [run EXCEPT !.returned = @ + 1]
        /\ UNCHANGED report
     \/ /\ buffer' = <<>> /\ run' = [run EXCEPT !.at = "over"] /\ report' = Failed
  /\ UNCHANGED begun

\* A page is complete: the next one, or the end.
EndPage ==
  LET stop == Stop(run.returned, run.next) IN
  /\ run.at = "showing" /\ (Streams => buffer = <<>>)
  /\ run' = [run EXCEPT !.at = IF stop = "page" /\ run.unpaged THEN "fetching" ELSE "ending",
                        !.boundary = IF Streams THEN run.place ELSE None]
  /\ UNCHANGED <<buffer, report, begun, shown>>

\* The result; a raw stream has no terminal record.
End ==
  /\ run.at = "ending"
  /\ shown' = shown \o buffer /\ buffer' = <<>>
  /\ report' = IF run.raw THEN Completion("success", None, None, None, None)
               ELSE Completion("success", run.returned, run.next = None,
                               Stop(run.returned, run.next), run.next)
  /\ run' = [run EXCEPT !.at = "over"]
  /\ UNCHANGED begun

Init ==
  /\ run = [at |-> "over", limit |-> 0] /\ buffer = <<>> /\ begun = 0 /\ shown = <<>>
  /\ report = Completion("success", 0, FALSE, "page", None)

Next == Begin \/ Fetch \/ ShowItem \/ EndPage \/ End \/ Fail

Spec == Init /\ [][Next]_vars
-----------------------------------------------------------------------------
Over == run.at = "over"

\* Runs that continue where the last one said show every item once and in order,
\* whatever failed or was interrupted on the way (stream.next).
ShownInOrder == \A i \in DOMAIN shown : shown[i] = i

\* What a run says of itself is what the user has seen: nothing is left when it
\* says so, and otherwise what is left begins where it says (completion).
CompletionIsTrue ==
  Over => /\ report.next # None => Len(shown) = report.next
          /\ report.exhausted = TRUE => Len(shown) = Population
          /\ report.stop = "limit" => report.returned = run.limit

\* No run fetches or shows more than its limit, however the pages divide it (size).
LimitIsKept ==
  ~Over /\ run.limit > 0 => run.returned + (IF Streams THEN Len(buffer) ELSE 0) <= run.limit
=============================================================================
