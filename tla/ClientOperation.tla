---------------------------- MODULE ClientOperation ----------------------------
(***************************************************************************)
(* One operation of the retained client: exchanges in a row, each with a   *)
(* credential, a request, a response and its body, under a deadline of the *)
(* operation, one of each exchange and the signal of the caller            *)
(* (bounded-http-transport.ts, retained-read.ts #run).  The credential     *)
(* source, fetch, streams and their cancellation may answer, fail, be late *)
(* or do nothing at all.                                                   *)
(***************************************************************************)
EXTENDS Naturals, Sequences

CONSTANTS
  Plans,          \* the exchanges operations are made of
  OperationTime, ExchangeTime, CleanupTime,
  None

TimesArePositive == {OperationTime, ExchangeTime, CleanupTime} \subseteq Nat \ {0}

\* A submission is the last exchange of its operation; aliases come from redirects.
PlansAreSound ==
  \A p \in Plans :
    /\ p \in Seq({"probe", "read", "follow", "submit"}) /\ p # <<>>
    /\ \A i \in DOMAIN p : p[i] = "submit" => i = Len(p)

VARIABLES
  plan,       \* the exchanges left, the running one first
  at,         \* where the operation waits
  now,
  signals,    \* what aborted the running exchange, in order
  x,          \* the running exchange
  result,
  dispatched  \* ghost: how many POSTs went out

vars == <<plan, at, now, signals, x, result, dispatched>>

NewExchange == [started |-> now, submitted |-> FALSE, fetch |-> "none", body |-> "none",
                failure |-> None, window |-> None]

Kind == Head(plan)
Has(cause) == \E i \in DOMAIN signals : signals[i] = cause
With(cause) == IF Has(cause) THEN signals ELSE Append(signals, cause)

\* The signals of the operation, without the deadline of the exchange.
Own(causes) ==
  IF \E i \in DOMAIN causes : causes[i] = "exchange"
  THEN LET i == CHOOSE i \in DOMAIN causes : causes[i] = "exchange" IN
       SubSeq(causes, 1, i - 1) \o SubSeq(causes, i + 1, Len(causes))
  ELSE causes
-----------------------------------------------------------------------------
(* Causes. *)

\* A check of the exchange looks at the clock as well: timers may be starved.
Checked(t) == IF x.started + ExchangeTime <= t THEN With("exchange") ELSE signals

\* The check of the operation, after an exchange and at its end.
CheckedOperation == IF OperationTime <= now THEN With("operation") ELSE signals

\* An exchange takes the deadline of its operation for its caller.
ExchangeLabel(causes) ==
  IF \E i \in DOMAIN causes : causes[i] # "exchange" THEN "aborted" ELSE "timeout"

\* The operation knows which of its two signals came first.
Label(code, causes) ==
  IF code = "aborted" /\ Own(causes) # <<>> /\ Head(Own(causes)) = "operation"
  THEN "timeout" ELSE code
-----------------------------------------------------------------------------
(* Ends. *)

Submission(e) == IF e.submitted THEN "unknown" ELSE "not-submitted"

Ends(code, causes, e, settlement) ==
  /\ at' = "over" /\ signals' = causes /\ x' = [e EXCEPT !.window = None]
  /\ result' = [code |-> Label(code, causes), submission |-> Submission(e),
                settlement |-> settlement, body |-> e.body]
  /\ UNCHANGED <<plan, now, dispatched>>

\* The body is told to go away; without one there is nothing to wait for.
Cancelled(e) == [e EXCEPT !.body = IF @ = "open" THEN "pending" ELSE @]

\* A cleanup is waited for as long as its window.
Cleans(place, code, causes, e, t) ==
  /\ at' = place /\ signals' = causes
  /\ x' = [Cancelled(e) EXCEPT !.failure = code, !.window = t + CleanupTime]
  /\ now' = t
  /\ UNCHANGED <<plan, result, dispatched>>

\* An exchange is over with a response: the operation refuses it, or goes on.  It
\* reads the target of an alias without a check.
Responded ==
  LET causes == CheckedOperation IN
  \/ causes # <<>> /\ Ends("aborted", causes, x, None)
  \/ \E code \in {"answer", "invalid-response"} : causes = <<>> /\ Ends(code, causes, x, None)
  \/ /\ Len(plan) > 1 /\ (causes = <<>> \/ Kind = "alias")
     /\ at' = "between" /\ plan' = Tail(plan) /\ x' = [x EXCEPT !.window = None]
     /\ UNCHANGED <<now, signals, result, dispatched>>
-----------------------------------------------------------------------------
(* The operation and the steps of its exchanges. *)

\* A new exchange; bad input ends it, and so does a signal that came before.
Begin ==
  LET causes == Own(signals) IN
  /\ at = "between"
  /\ \/ /\ causes # <<>> /\ Ends("aborted", causes, NewExchange, None)
     \/ /\ causes = <<>> /\ Ends("invalid-input", causes, NewExchange, None)
     \/ /\ causes = <<>> /\ at' = "credential" /\ x' = NewExchange /\ signals' = causes
        /\ UNCHANGED <<plan, now, result, dispatched>>

Credential ==
  /\ at = "credential"
  /\ \/ Ends("invalid-input", signals, x, None)
     \/ /\ Checked(now) # <<>> /\ Ends(ExchangeLabel(Checked(now)), Checked(now), x, None)
     \/ /\ Checked(now) = <<>> /\ at' = "dispatching"
        /\ UNCHANGED <<plan, now, signals, x, result, dispatched>>

\* A task of its own: the caller may have aborted since.
Dispatch ==
  LET causes == Checked(now) IN
  /\ at = "dispatching"
  /\ IF causes # <<>> THEN Ends(ExchangeLabel(causes), causes, x, "settled")
     ELSE /\ at' = "fetching"
          /\ x' = [x EXCEPT !.submitted = Kind = "submit", !.fetch = "running"]
          /\ dispatched' = dispatched + IF Kind = "submit" THEN 1 ELSE 0
          /\ UNCHANGED <<plan, now, signals, result>>

\* A response for an exchange that was aborted is released.
Late(e) == Cancelled(e)

\* Status, address, redirect and media decide whether the body is read.
Accept(e) ==
  \/ Kind = "probe" /\ Cleans("probing", None, signals, e, now)
  \/ \E code \in {"invalid-response", "redirect"} : Cleans("closing", code, signals, e, now)
  \/ /\ Kind # "probe" /\ at' = "reading" /\ x' = e
     /\ UNCHANGED <<plan, now, signals, result, dispatched>>

FetchAnswers ==
  LET causes == Checked(now) IN
  /\ x.fetch = "running"
  /\ \E body \in {"null", "open"} :
       LET e == [x EXCEPT !.fetch = "answered", !.body = body] IN
       IF at = "fetching" /\ causes = <<>> THEN Accept(e)
       ELSE IF at = "fetching" THEN Cleans("settling", ExchangeLabel(causes), causes, e, now)
       ELSE x' = Late(e) /\ UNCHANGED <<plan, at, now, signals, result, dispatched>>

FetchFails ==
  LET e == [x EXCEPT !.fetch = "failed"] IN
  /\ x.fetch = "running"
  /\ IF at = "fetching" THEN Ends("network", signals, e, None)
     ELSE x' = e /\ UNCHANGED <<plan, at, now, signals, result, dispatched>>

CancelEnds ==
  /\ x.body = "pending"
  /\ \E how \in {"completed", "failed"} : x' = [x EXCEPT !.body = how]
  /\ UNCHANGED <<plan, at, now, signals, result, dispatched>>

Settlement(observed) ==
  IF observed = "settled" /\ x.body # "pending" THEN "settled" ELSE "cap-exceeded"

\* The request and the release of its late response share one window.
Settle ==
  /\ at = "settling"
  /\ \/ /\ \/ x.fetch = "failed"
           \/ x.fetch = "answered" /\ (x.body # "pending" \/ x.window <= now)
        /\ Ends(x.failure, signals, x, Settlement("settled"))
     \/ x.window <= now /\ Ends(x.failure, signals, x, Settlement("cap-exceeded"))

\* Chunks that are always there starve the timers: time passes between a check
\* and the next.
Chunk ==
  /\ at = "reading" /\ x.body = "open"
  /\ \/ \E t \in {now, now + 1} :
          /\ Checked(t) # <<>>
          /\ t = now \/ Checked(now) = <<>>
          /\ Cleans("cancelling", ExchangeLabel(Checked(t)), Checked(t), x, t)
     \/ /\ Checked(now + 1) = <<>> /\ now' = now + 1
        /\ UNCHANGED <<plan, at, signals, x, result, dispatched>>

\* A chunk that is too long or not expected; a stream that breaks.
ReadFails ==
  /\ at = "reading" /\ x.body = "open"
  /\ \/ Cleans("cancelling", "invalid-response", signals, x, now)
     \/ Cleans("cancelling", "broken", signals, [x EXCEPT !.body = "failed"], now)

\* The body is complete, and is the document it should be or is not.
Complete ==
  LET causes == Checked(now)
      e == [x EXCEPT !.body = IF @ = "open" THEN "read" ELSE @] IN
  /\ at = "reading"
  /\ IF causes # <<>> THEN Cleans("closing", ExchangeLabel(causes), causes, e, now)
     ELSE \/ Cleans("closing", "invalid-response", causes, e, now)
          \/ /\ at' = "complete" /\ x' = e
             /\ UNCHANGED <<plan, now, signals, result, dispatched>>

Respond == at = "complete" /\ Responded

CleanedUp == x.body # "pending" \/ x.window <= now

\* A probe does not read: it releases the body and then looks at the clock.
Probed ==
  /\ at = "probing" /\ CleanedUp
  /\ IF Checked(now) # <<>>
     THEN Cleans("closing", ExchangeLabel(Checked(now)), Checked(now), x, now)
     ELSE Responded

ReaderCancelled ==
  /\ at = "cancelling" /\ CleanedUp /\ Cleans("closing", x.failure, signals, x, now)

\* A redirect of a read is followed once, as an alias.
Closed ==
  /\ at = "closing" /\ CleanedUp
  /\ IF x.failure = "redirect" /\ Kind = "follow"
     THEN /\ at' = "between" /\ plan' = <<"alias", "read">> \o Tail(plan)
          /\ x' = [x EXCEPT !.failure = None, !.window = None]
          /\ UNCHANGED <<now, signals, result, dispatched>>
     ELSE Ends(IF x.failure # "broken" THEN x.failure
               ELSE IF signals # <<>> THEN ExchangeLabel(signals) ELSE "invalid-response",
               signals, x, None)
-----------------------------------------------------------------------------
(* Signals and time. *)

\* Whoever waits for something is interrupted; cleanups go on.
Aborts(cause) ==
  LET causes == With(cause)
      label == ExchangeLabel(causes) IN
  /\ at # "over" /\ ~Has(cause)
  /\ CASE at = "credential" -> Ends(label, causes, x, None)
       [] at = "fetching"   -> Cleans("settling", label, causes, x, now)
       [] at = "reading"    -> Cleans("cancelling", label, causes, x, now)
       [] OTHER -> signals' = causes /\ UNCHANGED <<plan, at, now, x, result, dispatched>>

\* What runs before any timer does.
Immediate ==
  \/ at \in {"between", "dispatching", "complete"}
  \/ at \in {"probing", "cancelling", "closing"} /\ x.body # "pending"

CallerAborts == Aborts("caller")
OperationTimer == ~Immediate /\ OperationTime <= now /\ Aborts("operation")
ExchangeTimer == ~Immediate /\ x.started + ExchangeTime <= now /\ Aborts("exchange")

\* No time passes before timers that are due.
Due ==
  \/ OperationTime <= now /\ ~Has("operation")
  \/ x.started + ExchangeTime <= now /\ ~Has("exchange")
  \/ x.window # None /\ x.window <= now /\ (at = "settling" \/ CleanedUp)

Tick ==
  /\ at # "over" /\ ~Immediate /\ ~Due /\ now' = now + 1
  /\ UNCHANGED <<plan, at, signals, x, result, dispatched>>

Init ==
  /\ plan \in Plans /\ at = "between" /\ now = 0 /\ signals = <<>>
  /\ x = NewExchange /\ result = None /\ dispatched = 0

Next ==
  \/ Begin \/ Credential \/ Dispatch \/ FetchAnswers \/ FetchFails \/ CancelEnds \/ Settle
  \/ Chunk \/ ReadFails \/ Complete \/ Respond \/ Probed \/ ReaderCancelled \/ Closed
  \/ CallerAborts \/ OperationTimer \/ ExchangeTimer \/ Tick

Spec == Init /\ [][Next]_vars

\* Timers fire and what does not wait happens; nothing is asked of the credential
\* source, fetch, or streams.
Fairness ==
  /\ WF_vars(Begin) /\ WF_vars(Dispatch) /\ WF_vars(Respond) /\ WF_vars(Tick)
  /\ WF_vars(Settle) /\ WF_vars(Probed) /\ WF_vars(ReaderCancelled) /\ WF_vars(Closed)
  /\ WF_vars(OperationTimer) /\ WF_vars(ExchangeTimer)
-----------------------------------------------------------------------------
(* What an operation of the retained client promises. *)

Ended == result # None

\* An operation that says that nothing was submitted sent nothing, and sends
\* nothing any more (RetainedTransportError.submission).
NotSubmittedIsTrue == Ended /\ result.submission = "not-submitted" => dispatched = 0

\* An exchange is over within its own deadline and two cleanups, whatever sources
\* and streams do, even when they starve the timers; none starts once the operation
\* is out of time, except the read of an alias that starved them (#run,
\* settleWithin, boundedCleanup).
EndsInTime ==
  ~Ended => /\ now <= x.started + ExchangeTime + 2 * CleanupTime
            /\ x.started <= OperationTime + ExchangeTime

\* An answer is given within the deadline, even when timers are starved
\* (checkAbort, check).
AnswersAreInTime == Ended /\ result.code = "answer" => now < OperationTime

\* No response is left open: its body was read, or its release was asked for,
\* also when it came after the operation was over (exchange, pending).
NothingStaysOpen == Ended => x.body # "open"

\* A settlement says that nothing goes on any more only when that is so
\* (abortSettlement).
SettlementIsTrue ==
  Ended /\ result.settlement = "settled" => x.fetch # "running" /\ result.body # "pending"

\* What first aborted an exchange names its failure, whatever follows during the
\* cleanup (firstAbort, code).  A probe looks at its signals after its cleanup.
FirstCauseIsKept ==
  Ended /\ Kind # "probe" /\ result.code \in {"aborted", "timeout"} =>
    (result.code = "aborted" <=> Head(signals) = "caller")
===============================================================================
