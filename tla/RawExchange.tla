----------------------------- MODULE RawExchange -----------------------------
(***************************************************************************)
(* One exchange of the conformance executor over a socket of its own       *)
(* (conformance/src/http-executor.ts: executeExact, exchangeRawBytes),     *)
(* with the evidence of what was written that it gives with every end.     *)
(* Bytes are units: what a server sends is a sequence of them.             *)
(***************************************************************************)
EXTENDS Naturals, Sequences

CONSTANTS
  Streams,   \* what servers send: "info", "framed" or "unframed" heads, "part", "last",
             \* and "extra" or "bad" bytes
  Limit,     \* how many units are read at most
  None

LimitIsPositive == Limit \in Nat \ {0}

VARIABLES
  exact,     \* whether the caller wants evidence
  pieces,    \* writes the request needs: its head, and a body
  stream,    \* what the server sends
  at,        \* "checking", "exchanging", "checked" or "over"
  socket,    \* "none", "connecting", "connected", "ended" or "destroyed"
  state,     \* of the request's writes
  written,   \* pieces given to the socket
  flushed,   \* writes that completed
  received,  \* units read
  fin,       \* the end of the server's side was seen
  cleanup,   \* a turn is scheduled to end an early response
  result,
  aborted

vars == <<exact, pieces, stream, at, socket, state, written, flushed, received, fin, cleanup,
          result, aborted>>

request == <<exact, pieces, stream>>
-----------------------------------------------------------------------------
(* Parsing. *)

Raw(n) == SubSeq(stream, 1, n)
Units(raw) == {raw[i] : i \in DOMAIN raw}
HasHead(raw) == Units(raw) \cap {"framed", "unframed"} # {}
Framed(raw) == "framed" \in Units(raw)
Bad(raw) == "bad" \in Units(raw) \/ (Framed(raw) /\ "extra" \in Units(raw))

Ended(raw) == Framed(raw) => "last" \in Units(raw)

\* What a whole answer is: an unframed one is whole wherever it ends.
Parsed(raw) ==
  IF Len(raw) > Limit THEN "body-limit"
  ELSE IF Bad(raw) THEN "invalid-body"
  ELSE IF ~HasHead(raw) \/ ~Ended(raw) THEN "disconnect"
  ELSE "response"

Complete(raw) == Framed(raw) /\ Parsed(raw) = "response"
-----------------------------------------------------------------------------
(* Ends. *)

Destroyed == socket' = IF socket = "none" THEN "none" ELSE "destroyed"

\* The bytes are parsed again when the exchange is over; who wants evidence looks
\* at the clock and the signal before and after.
Finish(error) ==
  /\ at' = "checked" /\ result' = [end |-> error, state |-> state]
  /\ Destroyed /\ cleanup' = FALSE
  /\ UNCHANGED <<request, state, written, flushed>>

\* A broken connection does not take back an answer.
Broken(error) == IF Complete(Raw(received)) THEN "response" ELSE error

Check ==
  /\ at = "checked" /\ at' = "over"
  /\ \E late \in {None, "abort", "timeout"} :
       /\ late = "abort" <=> exact /\ aborted
       /\ late = "timeout" => exact
       /\ result' = [result EXCEPT !.end =
            IF @ # "response" THEN @ ELSE IF late # None THEN late ELSE Parsed(Raw(received))]
  /\ UNCHANGED <<request, socket, state, written, flushed, received, fin, cleanup, aborted>>

\* Refused, aborted or late before there is a socket.
Refuse ==
  /\ at = "checking" /\ at' = "over"
  /\ \E end \in {"configuration", "timeout", "abort"} :
       /\ end = "abort" => aborted
       /\ result' = [end |-> end, state |-> state]
  /\ UNCHANGED <<request, socket, state, written, flushed, received, fin, cleanup, aborted>>

\* The listener of the exchange runs when the signal does.
Abort ==
  /\ ~aborted /\ at # "over" /\ aborted' = TRUE /\ UNCHANGED <<received, fin>>
  /\ IF at = "exchanging" THEN Finish("abort")
     ELSE UNCHANGED <<request, at, socket, state, written, flushed, cleanup, result>>

Stop ==
  /\ at = "exchanging" /\ UNCHANGED <<received, fin, aborted>>
  /\ Finish("timeout")
-----------------------------------------------------------------------------
(* The request. *)

Dial ==
  /\ at = "checking" /\ ~aborted
  /\ at' = "exchanging" /\ socket' = "connecting"
  /\ UNCHANGED <<request, state, written, flushed, received, fin, cleanup, result, aborted>>

Live == at = "exchanging"

Started == "started"

\* A write may throw, after nothing or a part was given to the socket.
Connect ==
  /\ Live /\ socket = "connecting"
  /\ \/ /\ socket' = "connected" /\ state' = Started /\ written' = pieces
        /\ UNCHANGED <<request, at, flushed, received, fin, cleanup, result, aborted>>
     \/ \E n \in 0..(pieces - 1) :
          /\ at' = "checked" /\ state' = Started /\ written' = n
          /\ result' = [end |-> Broken("disconnect"), state |-> Started]
          /\ socket' = "destroyed" /\ cleanup' = FALSE
          /\ UNCHANGED <<request, flushed, received, fin, aborted>>

AllFlushed(n) == n = pieces

Flush ==
  /\ Live /\ flushed < written
  /\ \/ /\ flushed' = flushed + 1
        /\ state' = IF AllFlushed(flushed + 1) THEN "complete" ELSE state
        /\ UNCHANGED <<request, at, socket, written, received, fin, cleanup, result, aborted>>
     \/ Finish(Broken("disconnect")) /\ UNCHANGED <<received, fin, aborted>>
-----------------------------------------------------------------------------
(* The answer. *)

HalfClosed == IF socket = "connected" THEN "ended" ELSE socket

\* An answer that is complete before the request is written is early.
Early == exact /\ state = "started"

\* Servers may answer before they have read the request.
Data ==
  /\ Live /\ socket \in {"connected", "ended"} /\ ~fin
  /\ \E n \in 1..(Len(stream) - received) :
       LET raw == Raw(received + n) IN
       /\ received' = received + n /\ UNCHANGED fin
       /\ \/ /\ Parsed(raw) \in {"body-limit", "invalid-body"}
             /\ Finish(Parsed(raw)) /\ UNCHANGED aborted
          \/ /\ Parsed(raw) \in {"disconnect", "response"}
             /\ cleanup' = (cleanup \/ (Complete(raw) /\ Early))
             /\ socket' = IF Complete(raw) /\ state = "complete" THEN HalfClosed ELSE socket
             /\ UNCHANGED <<request, at, state, written, flushed, result, aborted>>

StillEarly == state # "complete"

\* The turn that ends an early answer.
CleanUp ==
  /\ Live /\ cleanup
  /\ IF StillEarly THEN Finish(Parsed(Raw(received))) /\ UNCHANGED <<received, fin, aborted>>
     ELSE /\ cleanup' = FALSE /\ socket' = HalfClosed
          /\ UNCHANGED <<request, at, state, written, flushed, received, fin, result, aborted>>

\* The server ends its side, after all it sends or in the middle of it.
End ==
  /\ Live /\ socket \in {"connected", "ended"}
  /\ fin' = TRUE /\ Finish(Parsed(Raw(received))) /\ UNCHANGED <<received, aborted>>

\* The connection fails or is gone.
Fault ==
  /\ Live /\ socket \in {"connecting", "connected", "ended"}
  /\ fin' = TRUE
  /\ Finish(Broken(IF socket = "connecting" THEN "network" ELSE "disconnect"))
  /\ UNCHANGED <<received, aborted>>
-----------------------------------------------------------------------------
Init ==
  /\ exact \in BOOLEAN /\ pieces \in {1, 2} /\ stream \in Streams
  /\ exact = FALSE => pieces = 1
  /\ at = "checking" /\ socket = "none" /\ state = "not-started"
  /\ written = 0 /\ flushed = 0 /\ received = 0 /\ fin = FALSE /\ cleanup = FALSE
  /\ result = None /\ aborted = FALSE

Next ==
  \/ Refuse \/ Dial \/ Abort \/ Stop \/ Connect \/ Flush \/ Data \/ CleanUp \/ End \/ Fault
  \/ Check

Spec == Init /\ [][Next]_vars
-----------------------------------------------------------------------------
(* What the evidence and the answer of an exchange can be relied on for. *)

\* The evidence of an end is true: nothing was written when it says so, everything
\* when it says complete, and nothing is written after it (recordState, writeDone,
\* the catch of executeExact).
EvidenceIsTrue ==
  /\ result # None /\ result.state = "not-started" => written = 0
  /\ result # None /\ result.state = "complete" => flushed = pieces /\ written = pieces
  /\ result = None \/ result.state = state

\* A response is a whole one, whatever ended the connection, and never longer than
\* is allowed (completeResponse, parseRawResponse).
ResponsesAreWhole ==
  at = "over" /\ result.end = "response" =>
    LET raw == Raw(received) IN
    /\ Len(raw) <= Limit
    /\ \/ "framed" \in Units(raw) /\ raw[Len(raw)] = "last"
       \/ "unframed" \in Units(raw) /\ "bad" \notin Units(raw)

\* Once a request was written as a whole, its answer counts only when the server's
\* side has ended: bytes after it are never missed (earlyCleanup, peer.end).
TrailingBytesAreSeen ==
  result # None /\ result.end = "response" /\ result.state = "complete" => fin

\* The event loop and a server that ends its side once this one did; no write has
\* to come through and the timer does not have to fire.
Fairness ==
  WF_vars(CleanUp) /\ WF_vars(socket = "ended" /\ End) /\ WF_vars(Check) /\ WF_vars(Dial)
==============================================================================
