----------------------------- MODULE UpdateClient -----------------------------
(***************************************************************************)
(* Calls of the Read+Update client (client/src/read-update.ts).  A call    *)
(* goes through exchanges: the probe of the Scope, its description, then   *)
(* what it is about, for a mutation after the directory of operations.     *)
(* Its caller is told one end; the caller's signal, the deadline and       *)
(* close() bring it about while the exchanges go on behind it.             *)
(***************************************************************************)
EXTENDS Naturals

CONSTANTS Callers, Kinds, None

Steps == [discover |-> 2, directory |-> 3, alias |-> 3, next |-> 3, mutate |-> 4]

KindsAreKnown == Kinds \subseteq DOMAIN Steps

VARIABLES
  calls,    \* caller -> its call
  place,    \* the continuation of "next" calls: "available", "spent", "gone" or who leased it
  closed

vars == <<calls, place, closed>>

\* at: "none", "ready" for an exchange, "waiting" for its response, "closing" or "over".
\* aborted: by the caller.  due: the deadline passed.  stopped: the call's own signal.
\* latest: the exchange whose response there is.  wire: ghost, the mutation went out.
NoCall ==
  [kind |-> None, at |-> "none", step |-> 0, aborted |-> FALSE, due |-> FALSE,
   stopped |-> FALSE, submitted |-> FALSE, latest |-> None, wire |-> FALSE,
   told |-> None, released |-> TRUE]

Update(c, call) == calls' = [calls EXCEPT ![c] = call]
IsLast(call) == call.step = Steps[call.kind]
Mutates(call) == call.kind = "mutate" /\ IsLast(call)
-----------------------------------------------------------------------------
(* Ends. *)

Submission(call) == IF call.submitted THEN "unknown" ELSE "not-submitted"

Told(code, submission, http) == [code |-> code, submission |-> submission, http |-> http]
Failure(call, code) == Told(code, Submission(call), call.latest)

Stopped(call) == call.aborted \/ call.stopped

\* Only the first end is told.
Tell(call, end) == IF call.told = None THEN [call EXCEPT !.told = end] ELSE call

\* The listener of the call's signals.
Interrupted(call, isClosed) ==
  Tell(call, Failure(call, IF isClosed THEN "closed" ELSE IF call.aborted THEN "aborted"
                           ELSE "timeout"))

\* Whether the call may not go on; the clock counts although the timer is late.
Fails(call) == Stopped(call) \/ call.due

\* The exchanges of a call that may not go on end there.
Checked(call) ==
  [Interrupted([call EXCEPT !.stopped = @ \/ call.due], closed) EXCEPT !.at = "over"]

Ends(call, end) == [Tell(call, end) EXCEPT !.at = "over"]
-----------------------------------------------------------------------------
(* Calls. *)

Leased(kind, c) == IF kind = "next" THEN c ELSE place

\* A signal may be aborted before the call; a mutation is not refused for that,
\* its first check ends it.
Start(c, kind) ==
  /\ calls[c].at = "none"
  /\ \E aborted \in BOOLEAN :
       LET call == [NoCall EXCEPT !.kind = kind, !.aborted = aborted]
           refused(code) == Update(c, Ends(call, Told(code, "not-submitted", None)))
       IN
       \/ closed /\ refused("closed") /\ UNCHANGED place
       \/ ~closed /\ kind = "next" /\ aborted /\ refused("aborted") /\ UNCHANGED place
       \/ /\ ~closed /\ kind = "next" /\ ~aborted /\ place # "available"
          /\ refused("invalid-input") /\ UNCHANGED place
       \/ /\ ~closed /\ (kind = "next" => ~aborted /\ place = "available")
          /\ LET begun == [call EXCEPT !.at = "ready", !.step = 1, !.released = (kind # "next")] IN
             Update(c, IF aborted THEN Interrupted(begun, closed) ELSE begun)
          /\ place' = Leased(kind, c)
  /\ UNCHANGED closed

\* The context of an exchange is its own.
Fresh(call) == [call EXCEPT !.latest = None]

Submits(call) == Mutates(call)

Send(c) ==
  /\ calls[c].at = "ready"
  /\ LET call == Fresh(calls[c]) IN
     Update(c, IF Fails(call) THEN Checked(call)
               ELSE [call EXCEPT !.at = "waiting", !.submitted = @ \/ Submits(call)])
  /\ UNCHANGED <<place, closed>>

\* A transport may send late, and does not have to obey the signal.
Transmit(c) ==
  /\ calls[c].at = "waiting" /\ Mutates(calls[c]) /\ ~calls[c].wire
  /\ Update(c, [calls[c] EXCEPT !.wire = TRUE])
  /\ UNCHANGED <<place, closed>>

\* A transport that says so has not sent the mutation.
TransportError(call) ==
  {Told("transport", IF claim = "not-submitted" THEN claim ELSE Submission(call), http) :
     claim \in {"unknown"} \cup (IF call.wire THEN {} ELSE {"not-submitted"}),
     http \in {None, call.step}}
  \cup {Told("transport", Submission(call), None)}

Received(call) == [call EXCEPT !.latest = call.step]

\* The directory and the addresses in it lead on, or nothing does.
GoesOn(call) ==
  IF IsLast(call) THEN [call EXCEPT !.at = "closing"]
  ELSE [call EXCEPT !.at = "ready", !.step = @ + 1]

\* What a page is asked for is known with the description of the Scope only.
HasNoRoute(call) == call.kind = "next" /\ call.step = 2

\* The transport settles with an error, an answer that is no good, a Problem, or
\* with what the call goes on with.
Respond(c) ==
  /\ calls[c].at = "waiting"
  /\ LET call == calls[c] IN
     IF Fails(call) THEN Update(c, Checked(call))
     ELSE \/ \E end \in TransportError(call) : Update(c, Ends(call, end))
          \/ /\ Mutates(call) => call.wire
             /\ LET answered == Received(call) IN
                \/ Update(c, Ends(answered, Failure(answered, "invalid-response")))
                \/ Update(c, [answered EXCEPT !.at = "closing", !.kind = "problem"])
                \/ Update(c, GoesOn(answered))
                \/ /\ HasNoRoute(call)
                   /\ Update(c, Ends(call, Told("invalid-input", Submission(call), None)))
  /\ UNCHANGED <<place, closed>>

Finishes(call) == call.at = "closing" /\ ~Fails(call)

\* The answer is delivered; a page is committed first, which may be refused.
Finalize(c) ==
  /\ calls[c].at = "closing"
  /\ LET call == calls[c]
         success == Ends(call, Told("answer", Submission(call), call.latest)) IN
     IF ~Finishes(call) THEN Update(c, Checked(call)) /\ UNCHANGED place
     ELSE IF call.kind # "next" THEN Update(c, success) /\ UNCHANGED place
     ELSE \/ Update(c, success) /\ place' = "spent"
          \/ /\ \/ Update(c, Ends(call, Failure(call, "invalid-response")))
                \/ Update(c, Ends(call, Told("invalid-input", Submission(call), None)))
             /\ UNCHANGED place
  /\ UNCHANGED closed

Restored(c) == IF place = c THEN "available" ELSE place

\* What the call leased is given back when its end was told.
Release(c) ==
  /\ calls[c].told # None /\ ~calls[c].released
  /\ Update(c, [calls[c] EXCEPT !.released = TRUE])
  /\ place' = Restored(c)
  /\ UNCHANGED closed
-----------------------------------------------------------------------------
(* What ends calls. *)

Running(call) == call.at # "none" /\ call.told = None

Abort(c) ==
  /\ Running(calls[c]) /\ ~calls[c].aborted
  /\ Update(c, Interrupted([calls[c] EXCEPT !.aborted = TRUE], closed))
  /\ UNCHANGED <<place, closed>>

Late(c) ==
  /\ Running(calls[c]) /\ ~calls[c].due
  /\ Update(c, [calls[c] EXCEPT !.due = TRUE])
  /\ UNCHANGED <<place, closed>>

Fired(call) == Interrupted([call EXCEPT !.stopped = TRUE], closed)

Timer(c) ==
  /\ Running(calls[c]) /\ calls[c].due
  /\ Update(c, Fired(calls[c]))
  /\ UNCHANGED <<place, closed>>

ClosedCall(call) ==
  IF Running(call) THEN Interrupted([call EXCEPT !.stopped = TRUE], TRUE) ELSE call

Close ==
  /\ ~closed /\ closed' = TRUE /\ place' = "gone"
  /\ calls' = [c \in Callers |-> ClosedCall(calls[c])]
-----------------------------------------------------------------------------
Init == calls = [c \in Callers |-> NoCall] /\ place = "available" /\ closed = FALSE

Next ==
  \/ \E c \in Callers :
       \/ \E kind \in Kinds : Start(c, kind)
       \/ Send(c) \/ Transmit(c) \/ Respond(c) \/ Finalize(c) \/ Release(c)
       \/ Abort(c) \/ Late(c) \/ Timer(c)
  \/ Close

Spec == Init /\ [][Next]_vars
-----------------------------------------------------------------------------
(* What a caller is told is true. *)

\* A mutation is called not submitted only when it never goes out, also later by
\* the exchanges that go on behind the call (exchange, check, ReadUpdateTransportError).
NotSubmittedIsTrue ==
  \A c \in Callers :
    calls[c].told # None /\ calls[c].told.submission = "not-submitted" => ~calls[c].wire

\* The end that is told is one that came about (abortFailure, check, close).
CauseIsTrue ==
  \A c \in Callers : LET call == calls[c] IN
    call.told # None =>
      /\ call.told.code = "timeout" => call.due
      /\ call.told.code = "aborted" => call.aborted
      /\ call.told.code = "closed" => closed

\* A mutation of unknown fate never carries the answer to another exchange, which
\* could be taken for one to the mutation (exchange: latest).
ContextIsItsOwn ==
  \A c \in Callers : LET told == calls[c].told IN
    told # None /\ told.submission = "unknown" => told.http \in {None, Steps["mutate"]}

\* A continuation is spent by the page that was delivered, and by no call that was
\* told another end; no call that is over holds it (prepared.commit and release).
PlaceIsKept ==
  /\ place = "spent" => \E c \in Callers : calls[c].kind = "next" /\ calls[c].told # None
                                            /\ calls[c].told.code = "answer"
  /\ \A c \in Callers : place = c => ~calls[c].released

\* Nobody waits for a client that is closed, whatever its transport does (close).
ClosedTellsAll == closed => \A c \in Callers : ~Running(calls[c])

\* The clock and its timers; no transport has to settle.
Fairness == \A c \in Callers : WF_vars(Late(c)) /\ WF_vars(Timer(c))
=============================================================================
