---------------------------- MODULE MCClients_proofs ----------------------------
(***************************************************************************)
(* Theorems about what the clients say of what they did (MCClients): the   *)
(* runs of the command line with their journals, one operation of the      *)
(* retained client, and the calls of the Read+Update client, for every set *)
(* of commands, keys, credentials and callers, every number of runs, every *)
(* plan of exchanges and all times.  Each part has its inductive           *)
(* invariant, and a step of the composition is a step of one part.         *)
(***************************************************************************)
EXTENDS MCClients, FiniteSetTheorems, SequenceTheorems, TLAPS
-----------------------------------------------------------------------------
(* The command line. *)

RunsSound ==
  /\ IsFiniteSet(DOMAIN runs) /\ DOMAIN runs = 1..Cardinality(DOMAIN runs)
  /\ \A p \in DOMAIN runs :
       /\ runs[p] = [at |-> runs[p].at, write |-> runs[p].write, journal |-> runs[p].journal,
                     retry |-> runs[p].retry, boundary |-> runs[p].boundary]
       /\ runs[p].at \in {"frozen", "saving", "prepared", "sent", "known", "over"}
       /\ runs[p].retry \in BOOLEAN

\* A journal has the request of the run that wrote it, which was no retry.
JournalsSound ==
  \A f \in DOMAIN disk :
    /\ disk[f] = [write |-> disk[f].write, boundary |-> disk[f].boundary, stage |-> disk[f].stage]
    /\ disk[f].stage \in {"written", "synced", "renamed", "saved"}
    /\ f \in DOMAIN runs /\ ~runs[f].retry /\ runs[f].at # "frozen"
    /\ disk[f].write = runs[f].write

\* Where a run has got to, and the journal it will name.
PlacesSound ==
  \A p \in DOMAIN runs :
    /\ runs[p].at \in {"frozen", "saving"} =>
         ~runs[p].retry /\ runs[p].journal = None /\ p \notin DOMAIN sent
    /\ runs[p].at \in {"prepared", "sent", "known"} => runs[p].journal # None
    /\ runs[p].at = "prepared" => p \notin DOMAIN sent
    /\ runs[p].at = "known" => p \in DOMAIN answers /\ answers[p] = "success"
    /\ runs[p].journal # None =>
         /\ runs[p].journal \in DOMAIN disk
         /\ disk[runs[p].journal].write = runs[p].write
         /\ disk[runs[p].journal].stage # "written"
         /\ ~runs[p].retry => runs[p].journal = p /\ disk[p].stage = "saved"

\* What was sent is the request of its run; a decision is one that was answered.
SentSound ==
  /\ \A p \in DOMAIN sent :
       p \in DOMAIN runs /\ sent[p] = runs[p].write /\ runs[p].journal # None
  /\ \A p \in DOMAIN answers :
       /\ p \in DOMAIN sent
       /\ answers[p] \in Decisions =>
            sent[p].key \in DOMAIN decided /\ decided[sent[p].key] = <<sent[p], answers[p]>>
  /\ \A k \in DOMAIN decided : \E p \in DOMAIN answers :
       answers[p] \in Decisions /\ sent[p].key = k /\ decided[k] = <<sent[p], answers[p]>>

\* A run that told its end does nothing more.
ReportSound(r) ==
  /\ r.run \in DOMAIN runs /\ runs[r.run].at = "over"
  /\ r.outcome = "success" \/ r.operation = "success" =>
       r.run \in DOMAIN answers /\ answers[r.run] = "success"
  /\ r.outcome = "failure" /\ r.operation = None /\ r.run \in DOMAIN sent =>
       r.run \in DOMAIN answers /\ answers[r.run] # "success"
  /\ r.outcome = "unknown" => r.recovery # None /\ r.recovery = runs[r.run].journal

ReportsSound == \A r \in reports : ReportSound(r)

CommandInv == RunsSound /\ JournalsSound /\ PlacesSound /\ SentSound /\ ReportsSound
-----------------------------------------------------------------------------
(* One operation of the retained client. *)

Causes == {"caller", "operation", "exchange"}

\* Each cause is there once.
Signals ==
  {s \in Seq(Causes) : \A i, j \in DOMAIN s : s[i] = s[j] => i = j}

In(cause, s) == \E i \in DOMAIN s : s[i] = cause

Failures == {"aborted", "timeout", "invalid-response", "redirect", "broken"}

Exchanges ==
  [started : Nat, submitted : BOOLEAN, fetch : {"none", "running", "answered", "failed"},
   body : {"none", "null", "open", "pending", "completed", "failed", "read"},
   failure : Failures \cup {None}, window : Nat \cup {None}]

Cleaning == {"probing", "settling", "cancelling", "closing"}

OperationTypes ==
  /\ at \in {"between", "credential", "dispatching", "fetching", "reading", "complete", "over"}
             \cup Cleaning
  /\ now \in Nat /\ dispatched \in Nat
  /\ exchange \in Exchanges
  /\ signals \in Signals

\* A submission is last, and a read follows an alias.
PlanSound ==
  /\ plan \in Seq({"probe", "read", "follow", "submit", "alias"}) /\ plan # <<>>
  /\ \A i \in DOMAIN plan :
       /\ plan[i] = "submit" => i = Len(plan)
       /\ plan[i] = "alias" => i = 1 /\ Len(plan) > 1 /\ plan[2] = "read"

\* Only a submission was dispatched; a fetch runs where it is waited for, or behind.
DispatchSound ==
  /\ exchange.submitted => plan[1] = "submit" /\ at # "between"
  /\ dispatched # 0 => exchange.submitted
  /\ at \in {"credential", "dispatching"} => exchange.fetch = "none" /\ exchange.body = "none"
  /\ at = "fetching" => exchange.fetch = "running" /\ exchange.body = "none"
  /\ exchange.fetch = "running" => at \in {"fetching", "settling", "over"}
  /\ exchange.body = "open" => at = "reading"
  /\ at = "probing" => plan[1] = "probe"

\* Whoever waits has not been interrupted; an exchange is told to end once.
SignalsSound ==
  /\ at \in {"credential", "fetching", "reading"} => signals = <<>>
  /\ at \in {"dispatching", "complete"} => signals \in {<<>>, <<"caller">>}

\* An exchange that was aborted tells its first cause, except a probe.
Causing(code, causes) ==
  plan[1] # "probe" /\ code \in {"aborted", "timeout"} =>
    causes # <<>> /\ (code = "aborted" <=> causes[1] # "exchange")

\* What ended an exchange, where it is cleaned up.
FailureSound ==
  /\ at \in {"settling", "cancelling", "closing"} => exchange.failure # None
  /\ at \in {"settling", "cancelling", "closing"} => Causing(exchange.failure, signals)
  /\ at = "cancelling" => exchange.failure # "redirect"
  /\ at \in {"cancelling", "closing"} /\ exchange.failure = "broken" =>
       exchange.body = "failed" /\ signals \in {<<>>, <<"caller">>}
  /\ at = "settling" => exchange.failure \in {"aborted", "timeout"}

\* How late it is.
Begins ==
  /\ now <= OperationTime + ExchangeTime
  /\ plan[1] \in {"alias", "follow"} => now <= OperationTime

Began ==
  /\ exchange.started <= now
  /\ exchange.started <= OperationTime + ExchangeTime
  /\ plan[1] \in {"alias", "follow"} => exchange.started <= OperationTime

ClockSound ==
  /\ at = "between" =>
       /\ now <= exchange.started + ExchangeTime + 2 * CleanupTime
       /\ exchange.started <= OperationTime + ExchangeTime
       /\ ~(\E i \in DOMAIN signals : signals[i] # "exchange") => Begins
  /\ at \notin {"between", "over"} => Began
  /\ at \in {"credential", "dispatching", "fetching", "reading"} =>
       now <= exchange.started + ExchangeTime
  /\ at = "complete" => now < exchange.started + ExchangeTime
  /\ at \in Cleaning => exchange.window \in Nat /\ now <= exchange.window
  /\ at \in Cleaning \ {"closing"} =>
       exchange.window <= exchange.started + ExchangeTime + CleanupTime
  /\ at = "closing" => exchange.window <= exchange.started + ExchangeTime + 2 * CleanupTime
  /\ at \in {"credential", "dispatching", "fetching"} /\ plan[1] = "follow" =>
       now <= OperationTime
  /\ at = "closing" /\ exchange.failure = "redirect" /\ plan[1] = "follow" =>
       now <= OperationTime \/ In("operation", signals)

Results ==
  [code : {"answer", "invalid-input", "network"} \cup Failures,
   submission : {"unknown", "not-submitted"}, settlement : {None, "settled", "cap-exceeded"},
   body : {"none", "null", "pending", "completed", "failed", "read"}]

\* The end, and what goes on behind it.
ResultSound ==
  /\ at # "over" => result = None
  /\ at = "over" =>
       /\ result \in Results
       /\ result.submission = "not-submitted" => dispatched = 0
       /\ result.settlement = "settled" => exchange.fetch # "running" /\ result.body # "pending"
       /\ result.code = "answer" => now < OperationTime
       /\ plan[1] # "probe" /\ result.code \in {"aborted", "timeout"} =>
            signals # <<>> /\ (result.code = "aborted" <=> signals[1] = "caller")

OperationInv ==
  /\ OperationTypes /\ PlanSound /\ DispatchSound /\ SignalsSound /\ FailureSound /\ ClockSound
  /\ ResultSound
-----------------------------------------------------------------------------
(* The calls of the Read+Update client. *)

Codes == {"answer", "closed", "aborted", "timeout", "invalid-input", "invalid-response", "transport"}

Tellings == [code : Codes, submission : {"unknown", "not-submitted"}, http : {None} \cup (1..4)]

Call ==
  [kind : SomeKinds \cup {None, "problem"}, at : {"none", "ready", "waiting", "closing", "over"},
   step : 0..4, aborted : BOOLEAN, due : BOOLEAN, stopped : BOOLEAN, submitted : BOOLEAN,
   latest : {None} \cup (1..4), wire : BOOLEAN, told : Tellings \cup {None}, released : BOOLEAN]

\* What is submitted is the last exchange of a mutation.
SubmissionSound(call) ==
  /\ call.at \in {"ready", "waiting"} => call.kind \in SomeKinds /\ call.step \in 1..Updating!Steps[call.kind]
  /\ call.at = "closing" => call.step # 0
  /\ call.at \in {"none", "ready"} => ~call.submitted
  /\ call.at = "waiting" /\ Updating!Mutates(call) => call.submitted
  /\ call.wire => call.submitted
  /\ call.submitted => call.step = 4 /\ call.latest \in {None, 4}
  /\ call.at = "none" => call = Updating!NoCall

\* What was told is so, and a call that goes on behind its end is stopped.
TellingSound(call, closes) ==
  /\ call.told # None =>
       /\ call.at \in {"ready", "waiting", "closing"} => Updating!Stopped(call)
       /\ call.told.submission = "not-submitted" =>
            ~call.wire /\ (call.at = "waiting" => ~Updating!Mutates(call))
       /\ call.told.submission = "unknown" => call.told.http \in {None, 4}
       /\ call.told.code = "timeout" => call.due
       /\ call.told.code = "aborted" => call.aborted
       /\ call.told.code = "closed" => closes
  /\ call.at = "over" => call.told # None
  /\ call.stopped => call.due \/ closes
  /\ closes => ~Updating!Running(call)

UpdatesInv ==
  /\ closed \in BOOLEAN /\ calls \in [Users -> Call]
  /\ \A c \in Users : SubmissionSound(calls[c]) /\ TellingSound(calls[c], closed)
-----------------------------------------------------------------------------
\* The inductive invariant of the composition.
ClientsInv ==
  /\ CommandInv
  /\ part = "operation" => OperationInv
  /\ UpdatesInv
-----------------------------------------------------------------------------
(* The calls of the Read+Update client. *)

\* A call is as its step left it.
CallSound(call) == call \in Call /\ SubmissionSound(call) /\ TellingSound(call, closed)

LEMMA NoneIsNoAnswer == None \notin 1..4 /\ None # "problem" /\ None # "success"
BY NoneIsNothing DEF Words

\* There is no telling that is None.
LEMMA TellingsAreSomething == ASSUME NEW t \in Tellings PROVE t # None
<1>1. t \in [code : Words, submission : Words, http : Nat \cup {None}]
  BY DEF Tellings, Codes, Words
<1> QED  BY <1>1, NoneIsNothing

LEMMA KindsKnown ==
  /\ SomeKinds \subseteq {"discover", "directory", "alias", "next", "mutate"}
  /\ \A k \in SomeKinds : Updating!Steps[k] \in 2..4 /\ (Updating!Steps[k] = 4 <=> k = "mutate")
BY ClientsAssumption DEF Updating!KindsAreKnown, Updating!Steps

LEMMA OneCall ==
  ASSUME UpdatesInv, NEW c \in Users, NEW k, CallSound(k), UNCHANGED closed, Updating!Update(c, k)
  PROVE  UpdatesInv'
<1>1. calls' = [calls EXCEPT ![c] = k]  BY DEF Updating!Update
<1>2. calls' \in [Users -> Call]  BY <1>1 DEF UpdatesInv, CallSound
<1>3. \A d \in Users : calls'[d] = (IF d = c THEN k ELSE calls[d])  BY <1>1 DEF UpdatesInv
<1>4. \A d \in Users : SubmissionSound(calls'[d])  BY <1>3 DEF UpdatesInv, CallSound
<1>5. \A d \in Users : TellingSound(calls[d], closed)' <=> TellingSound(calls'[d], closed)
  OBVIOUS
<1>6. \A d \in Users : TellingSound(calls'[d], closed)  BY <1>3 DEF UpdatesInv, CallSound
<1> QED  BY <1>2, <1>4, <1>5, <1>6 DEF UpdatesInv, SubmissionSound

LEMMA CallOf ==
  ASSUME UpdatesInv, NEW c \in Users
  PROVE  CallSound(calls[c])
BY DEF UpdatesInv, CallSound

\* An end that is told first is one that came about; what is over does nothing more.
LEMMA EndedSound ==
  ASSUME closed \in BOOLEAN, NEW call \in Call, SubmissionSound(call), TellingSound(call, closed),
         NEW end \in Tellings, call.at # "none",
         end.submission = "not-submitted" => ~call.wire,
         end.submission = "unknown" => end.http \in {None, 4},
         end.code = "timeout" => call.due,
         end.code = "aborted" => call.aborted,
         end.code = "closed" => closed
  PROVE  CallSound(Updating!Ends(call, end))
<1> DEFINE k == Updating!Ends(call, end)
<1>1. end # None  BY TellingsAreSomething
<1>2. k = [call EXCEPT !.told = IF call.told = None THEN end ELSE call.told, !.at = "over"]
  BY DEF Updating!Ends, Updating!Tell, Call
<1>3. k \in Call  BY <1>2 DEF Call
<1>4. SubmissionSound(k)
  BY <1>2 DEF Call, SubmissionSound, Updating!NoCall
<1>5. TellingSound(k, closed)
  BY <1>1, <1>2 DEF Call, TellingSound, Updating!Running, Updating!Stopped
<1> QED  BY <1>3, <1>4, <1>5 DEF CallSound

LEMMA FailureIs ==
  ASSUME NEW call \in Call, NEW code \in Codes
  PROVE  /\ Updating!Failure(call, code) \in Tellings
         /\ Updating!Failure(call, code).code = code
         /\ Updating!Failure(call, code).submission = Updating!Submission(call)
         /\ Updating!Failure(call, code).http = call.latest
         /\ Updating!Submission(call) = IF call.submitted THEN "unknown" ELSE "not-submitted"
BY DEF Call, Tellings, Updating!Failure, Updating!Told, Updating!Submission

\* A call that is interrupted is told why.
LEMMA InterruptedSound ==
  ASSUME closed \in BOOLEAN, NEW call \in Call, NEW now2 \in BOOLEAN, SubmissionSound(call),
         closed => now2,
         call.told = None => call.at # "over",
         call.told # None => closed = now2 /\ TellingSound(call, closed),
         call.at # "none", Updating!Stopped(call),
         ~now2 /\ ~call.aborted => call.due,
         call.stopped => call.due \/ now2
  PROVE  /\ Updating!Interrupted(call, now2) \in Call
         /\ SubmissionSound(Updating!Interrupted(call, now2))
         /\ ~Updating!Running(Updating!Interrupted(call, now2))
         /\ TellingSound(Updating!Interrupted(call, now2), now2)
<1> DEFINE code == IF now2 THEN "closed" ELSE IF call.aborted THEN "aborted" ELSE "timeout"
           end == Updating!Failure(call, code)
           k == Updating!Interrupted(call, now2)
<1>1. code \in Codes  BY DEF Codes
<1> HIDE DEF code
<1>2. /\ end \in Tellings /\ end.code = code /\ end.http = call.latest
      /\ end.submission = IF call.submitted THEN "unknown" ELSE "not-submitted"
  BY <1>1, FailureIs
<1>3. end # None  BY <1>2, TellingsAreSomething
<1>4. k = [call EXCEPT !.told = IF call.told = None THEN end ELSE call.told]
  BY DEF Updating!Interrupted, Updating!Tell, Call, code
<1> HIDE DEF end, k
<1>5. k \in Call  BY <1>2, <1>4 DEF Call
<1>6. SubmissionSound(k)  BY <1>4 DEF Call, SubmissionSound, Updating!NoCall, Updating!Mutates, Updating!IsLast
<1>7. ~Updating!Running(k)  BY <1>3, <1>4 DEF Call, Updating!Running
<1>8. TellingSound(k, now2)
  <2>1. CASE call.told # None
    <3>1. k = call  BY <1>4, <2>1 DEF Call
    <3> QED  BY <3>1, <2>1
  <2>2. CASE call.told = None
    <3>1. k = [call EXCEPT !.told = end]  BY <1>4, <2>2
    <3>2. /\ code = "timeout" => call.due
          /\ code = "aborted" => call.aborted
          /\ code = "closed" => now2
      BY DEF code, Call
    <3> QED
      BY <1>2, <1>3, <1>7, <2>2, <3>1, <3>2
      DEF Call, TellingSound, SubmissionSound, Updating!Stopped, Updating!Mutates, Updating!IsLast
  <2> QED  BY <2>1, <2>2
<1> QED  BY <1>5, <1>6, <1>7, <1>8 DEF k

\* The exchanges of a call that may not go on end, and its end is told.
LEMMA CheckedSound ==
  ASSUME closed \in BOOLEAN, NEW call, CallSound(call), Updating!Fails(call), call.at # "none"
  PROVE  CallSound(Updating!Checked(call))
<1> DEFINE stopping == [call EXCEPT !.stopped = call.stopped \/ call.due]
           k == Updating!Interrupted(stopping, closed)
<1>1. call \in Call /\ SubmissionSound(call) /\ TellingSound(call, closed)  BY DEF CallSound
<1>2. /\ stopping \in Call /\ stopping.told = call.told /\ stopping.at = call.at
      /\ stopping.stopped = (call.stopped \/ call.due)
      /\ stopping.due = call.due /\ stopping.aborted = call.aborted
      /\ stopping.kind = call.kind /\ stopping.step = call.step /\ stopping.wire = call.wire
      /\ stopping.submitted = call.submitted /\ stopping.latest = call.latest
  BY <1>1 DEF Call
<1> HIDE DEF stopping
<1>3. SubmissionSound(stopping)
  BY <1>1, <1>2 DEF SubmissionSound, Updating!Mutates, Updating!IsLast
<1>4. Updating!Stopped(stopping)
  BY <1>1, <1>2 DEF Updating!Fails, Updating!Stopped
<1>5. call.told # None => TellingSound(stopping, closed)
  <2>1. Updating!Mutates(stopping) <=> Updating!Mutates(call)
    BY <1>2 DEF Updating!Mutates, Updating!IsLast
  <2> QED  BY <1>1, <1>2, <1>4, <2>1 DEF TellingSound, Updating!Running
<1>6. /\ call.told = None => call.at # "over"
      /\ ~closed /\ ~call.aborted => call.due
      /\ stopping.stopped => call.due \/ closed
  BY <1>1, <1>2 DEF TellingSound, Updating!Fails, Updating!Stopped
<1>7. k \in Call /\ SubmissionSound(k) /\ TellingSound(k, closed) /\ ~Updating!Running(k) /\ k.at = call.at
  <2>1. k.at = stopping.at
    BY <1>2 DEF Call, Updating!Interrupted, Updating!Tell
  <2> QED  BY <1>2, <1>3, <1>4, <1>5, <1>6, <2>1, InterruptedSound
<1> HIDE DEF k
<1> DEFINE e == [k EXCEPT !.at = "over"]
<1>8. Updating!Checked(call) = e  BY DEF Updating!Checked, k, stopping
<1>9. k.told # None  BY <1>7 DEF Updating!Running
<1>10. e \in Call /\ SubmissionSound(e) /\ TellingSound(e, closed)
  BY <1>7, <1>9 DEF Call, SubmissionSound, TellingSound, Updating!Running, Updating!NoCall
<1> QED  BY <1>8, <1>10 DEF CallSound

LEMMA StartStep ==
  ASSUME UpdatesInv, NEW c \in Users, NEW kind \in SomeKinds, Updating!Start(c, kind)
  PROVE  UpdatesInv'
<1>1. closed \in BOOLEAN  BY DEF UpdatesInv
<1>2. PICK flag \in BOOLEAN :
        LET call == [Updating!NoCall EXCEPT !.kind = kind, !.aborted = flag]
            refused(code) ==
              Updating!Update(c, Updating!Ends(call, Updating!Told(code, "not-submitted", None)))
        IN
        \/ closed /\ refused("closed")
        \/ ~closed /\ flag /\ refused("aborted")
        \/ ~closed /\ refused("invalid-input")
        \/ ~closed /\ LET begun2 == [call EXCEPT !.at = "ready", !.step = 1, !.released = (kind # "next")] IN
             Updating!Update(c, IF flag THEN Updating!Interrupted(begun2, closed) ELSE begun2)
  BY DEF Updating!Start
<1>0. UNCHANGED closed  BY DEF Updating!Start
<1> DEFINE call == [Updating!NoCall EXCEPT !.kind = kind, !.aborted = flag]
           fresh == [call EXCEPT !.at = "ready", !.step = 1, !.released = (kind # "next")]
<1>3. /\ call \in Call /\ call.told = None /\ call.wire = FALSE /\ call.at = "none"
      /\ call.submitted = FALSE /\ call.aborted = flag /\ call.stopped = FALSE /\ call.step = 0
      /\ call.kind = kind
  <2> DEFINE none == Updating!NoCall
  <2>1. none \in Call  BY DEF Call, Updating!NoCall
  <2>2. /\ none.told = None /\ none.wire = FALSE /\ none.at = "none" /\ none.submitted = FALSE
        /\ none.stopped = FALSE /\ none.step = 0
    BY DEF Updating!NoCall
  <2>3. call = [none EXCEPT !.kind = kind, !.aborted = flag]  OBVIOUS
  <2> HIDE DEF call, none
  <2>4. call \in Call  BY <2>1, <2>3 DEF Call
  <2> QED  BY <2>1, <2>2, <2>3, <2>4 DEF Call
<1> HIDE DEF call
<1>4. /\ fresh \in Call /\ fresh.told = None /\ fresh.wire = FALSE /\ fresh.at = "ready"
      /\ fresh.submitted = FALSE /\ fresh.aborted = flag /\ fresh.stopped = FALSE
      /\ fresh.step = 1 /\ fresh.kind = kind
  <2> DEFINE begun1 == [call EXCEPT !.at = "ready"]
             begun2 == [begun1 EXCEPT !.step = 1]
  <2>1. begun1 \in Call /\ begun1.at = "ready"  BY <1>3 DEF Call
  <2>2. /\ begun1.told = None /\ begun1.wire = FALSE /\ begun1.submitted = FALSE
        /\ begun1.aborted = flag /\ begun1.stopped = FALSE /\ begun1.kind = kind
    BY <1>3 DEF Call
  <2> HIDE DEF begun1
  <2>3. begun2 \in Call /\ begun2.at = "ready" /\ begun2.step = 1  BY <2>1 DEF Call
  <2>4. /\ begun2.told = None /\ begun2.wire = FALSE /\ begun2.submitted = FALSE
        /\ begun2.aborted = flag /\ begun2.stopped = FALSE /\ begun2.kind = kind
    BY <2>1, <2>2 DEF Call
  <2>5. fresh = [begun2 EXCEPT !.released = (kind # "next")]
    <3> HIDE DEF call
    <3> QED  BY DEF begun1
  <2> HIDE DEF begun2, fresh
  <2> QED  BY <2>3, <2>4, <2>5 DEF Call
<1> HIDE DEF fresh
<1>5. SubmissionSound(fresh)
  BY <1>4, KindsKnown DEF SubmissionSound
<1>6. ASSUME NEW code \in {"closed", "aborted", "invalid-input"}, code = "closed" => closed,
             code = "aborted" => flag
      PROVE  CallSound(Updating!Ends(call, Updating!Told(code, "not-submitted", None)))
  <2> DEFINE end == Updating!Told(code, "not-submitted", None)
             k == Updating!Ends(call, end)
  <2>1. end \in Tellings /\ end.code = code /\ end.submission = "not-submitted"
    BY DEF Tellings, Codes, Updating!Told
  <2>2. end # None  BY <2>1, TellingsAreSomething
  <2> HIDE DEF end
  <2>3. k = [call EXCEPT !.told = end, !.at = "over"]
    BY <1>3 DEF Updating!Ends, Updating!Tell
  <2>4. k \in Call  BY <1>3, <2>1, <2>3 DEF Call
  <2>5. /\ k.at = "over" /\ k.told = end /\ k.wire = FALSE /\ k.submitted = FALSE
        /\ k.aborted = flag /\ k.stopped = FALSE
    BY <1>3, <2>3 DEF Call
  <2>6. SubmissionSound(k)  BY <2>5 DEF SubmissionSound
  <2>7. TellingSound(k, closed)
    BY <1>1, <1>6, <2>1, <2>2, <2>5 DEF TellingSound, Updating!Running
  <2> QED  BY <2>4, <2>6, <2>7 DEF end, CallSound
<1>7. ASSUME ~closed PROVE CallSound(IF flag THEN Updating!Interrupted(fresh, closed) ELSE fresh)
  <2>1. CASE flag
    <3>1. Updating!Stopped(fresh)  BY <1>4, <2>1 DEF Updating!Stopped
    <3> QED  BY <1>1, <1>4, <1>5, <1>7, <2>1, <3>1, InterruptedSound DEF CallSound
  <2>2. CASE ~flag
    <3>1. TellingSound(fresh, closed)  BY <1>4, <1>7 DEF TellingSound
    <3> QED  BY <1>4, <1>5, <2>2, <3>1 DEF CallSound
  <2> QED  BY <2>1, <2>2
<1>8. \E k : CallSound(k) /\ Updating!Update(c, k)
  BY <1>2, <1>6, <1>7 DEF call, fresh
<1> QED  BY <1>0, <1>8, OneCall

LEMMA SendStep ==
  ASSUME UpdatesInv, NEW c \in Users, Updating!Send(c)
  PROVE  UpdatesInv'
<1> DEFINE call == Updating!Fresh(calls[c])
           k == [call EXCEPT !.at = "waiting", !.submitted = call.submitted \/ Updating!Submits(call)]
<1>0. /\ UNCHANGED closed
      /\ Updating!Update(c, IF Updating!Fails(call) THEN Updating!Checked(call) ELSE k)
  BY DEF Updating!Send
<1>1. CallSound(calls[c]) /\ calls[c].at = "ready" /\ closed \in BOOLEAN
  BY CallOf DEF Updating!Send, UpdatesInv
<1>2. call = [calls[c] EXCEPT !.latest = None]  BY DEF Updating!Fresh
<1>3. call \in Call /\ call.at = "ready" /\ ~call.submitted /\ call.latest = None
  BY <1>1, <1>2 DEF CallSound, Call, SubmissionSound
<1>4. SubmissionSound(call)
  BY <1>1, <1>2 DEF CallSound, Call, SubmissionSound, Updating!Mutates, Updating!IsLast, Updating!NoCall
<1>5. TellingSound(call, closed)
  BY <1>1, <1>2 DEF CallSound, Call, TellingSound, Updating!Running, Updating!Stopped, Updating!Mutates, Updating!IsLast
<1> HIDE DEF call
<1>6. CASE Updating!Fails(call)
  <2>1. CallSound(Updating!Checked(call))
    BY <1>1, <1>3, <1>4, <1>5, <1>6, CheckedSound DEF CallSound
  <2> QED  BY <1>0, <2>1, <1>6, OneCall
<1>7. CASE ~Updating!Fails(call)
  <2>1. ~call.aborted /\ ~call.stopped /\ call.told = None
    BY <1>3, <1>5, <1>7 DEF Updating!Fails, Updating!Stopped, TellingSound, Call
  <2>2. /\ k \in Call /\ k.at = "waiting" /\ k.told = None /\ k.kind = call.kind /\ k.step = call.step
        /\ k.stopped = FALSE /\ k.aborted = FALSE /\ k.wire = call.wire /\ k.latest = None
        /\ k.submitted = Updating!Mutates(call)
    BY <1>3, <2>1 DEF Call, Updating!Submits, Updating!Mutates
  <2>3. Updating!Mutates(k) <=> Updating!Mutates(call)
    BY <2>2 DEF Updating!Mutates, Updating!IsLast
  <2>4. SubmissionSound(k)
    BY <1>3, <1>4, <2>2, <2>3, KindsKnown DEF SubmissionSound, Updating!Mutates, Updating!IsLast, Updating!Steps
  <2>5. TellingSound(k, closed)
    BY <1>3, <1>5, <2>1, <2>2 DEF TellingSound, Updating!Running
  <2>6. CallSound(k)  BY <2>2, <2>4, <2>5 DEF CallSound
  <2> QED  BY <1>0, <2>6, <1>7, OneCall
<1> QED  BY <1>6, <1>7

LEMMA TransmitStep ==
  ASSUME UpdatesInv, NEW c \in Users, Updating!Transmit(c)
  PROVE  UpdatesInv'
<1> DEFINE call == calls[c]
           k == [call EXCEPT !.wire = TRUE]
<1>1. CallSound(call) /\ call.at = "waiting" /\ Updating!Mutates(call) /\ UNCHANGED closed
  BY CallOf DEF Updating!Transmit
<1>2. Updating!Update(c, k)  BY DEF Updating!Transmit
<1> HIDE DEF call
<1>3. /\ k \in Call /\ k.at = "waiting" /\ k.told = call.told /\ k.kind = call.kind /\ k.step = call.step
      /\ k.stopped = call.stopped /\ k.aborted = call.aborted /\ k.latest = call.latest
      /\ k.submitted = call.submitted /\ k.due = call.due
  BY <1>1 DEF CallSound, Call
<1>4. SubmissionSound(k)
  BY <1>1, <1>3 DEF CallSound, SubmissionSound, Updating!Mutates, Updating!IsLast
<1>5. TellingSound(k, closed)
  BY <1>1, <1>3 DEF CallSound, TellingSound, Updating!Mutates, Updating!IsLast, Updating!Running,
    Updating!Stopped
<1> QED  BY <1>1, <1>2, <1>3, <1>4, <1>5, OneCall DEF CallSound

LEMMA RespondStep ==
  ASSUME UpdatesInv, NEW c \in Users, Updating!Respond(c)
  PROVE  UpdatesInv'
<1> DEFINE call == calls[c]
           answered == Updating!Received(call)
<1>0. UNCHANGED closed  BY DEF Updating!Respond
<1>1. CallSound(call) /\ call.at = "waiting" /\ closed \in BOOLEAN
  BY CallOf DEF Updating!Respond, UpdatesInv
<1>2. \/ Updating!Fails(call) /\ Updating!Update(c, Updating!Checked(call))
      \/ /\ ~Updating!Fails(call)
         /\ \/ \E end \in Updating!TransportError(call) :
                 Updating!Update(c, Updating!Ends(call, end))
            \/ /\ Updating!Mutates(call) => call.wire
               /\ \/ Updating!Update(c, Updating!Ends(answered, Updating!Failure(answered, "invalid-response")))
                  \/ Updating!Update(c, [answered EXCEPT !.at = "closing", !.kind = "problem"])
                  \/ Updating!Update(c, Updating!GoesOn(answered))
                  \/ Updating!Update(c, Updating!Ends(call, Updating!Told("invalid-input", Updating!Submission(call), None)))
  BY DEF Updating!Respond
<1> HIDE DEF call
<1>3. /\ call \in Call /\ SubmissionSound(call) /\ TellingSound(call, closed)
      /\ call.kind \in SomeKinds /\ call.step \in 1..4 /\ call.step \in 1..Updating!Steps[call.kind]
      /\ call.submitted => call.step = 4
      /\ call.wire => call.submitted
      /\ Updating!Submission(call) = IF call.submitted THEN "unknown" ELSE "not-submitted"
  BY <1>1, KindsKnown DEF CallSound, Call, SubmissionSound, Updating!Submission
<1>4. /\ answered \in Call /\ answered.told = call.told /\ answered.kind = call.kind
      /\ answered.step = call.step /\ answered.at = "waiting"
      /\ answered.stopped = call.stopped /\ answered.aborted = call.aborted
      /\ answered.latest = call.step /\ answered.wire = call.wire
      /\ answered.submitted = call.submitted /\ answered.due = call.due
  BY <1>1, <1>3 DEF Call, Updating!Received
<1> HIDE DEF answered
<1>5. SubmissionSound(answered)
  BY <1>3, <1>4, <1>1 DEF SubmissionSound, Updating!Mutates, Updating!IsLast
<1>6. TellingSound(answered, closed)
  BY <1>3, <1>4, <1>1 DEF TellingSound, Updating!Mutates, Updating!IsLast, Updating!Running,
    Updating!Stopped
<1>7. CASE Updating!Fails(call) /\ Updating!Update(c, Updating!Checked(call))
  BY <1>0, <1>1, <1>7, CheckedSound, OneCall
<1>8. ASSUME NEW end \in Updating!TransportError(call), Updating!Update(c, Updating!Ends(call, end))
      PROVE  UpdatesInv'
  <2>1. /\ end \in Tellings /\ end.code = "transport"
        /\ end.submission = "not-submitted" => ~call.wire
        /\ end.submission = "unknown" => end.http \in {None, 4}
    <3>1. \/ end = Updating!Told("transport", Updating!Submission(call), None)
          \/ \E http \in {None, call.step} :
               end = Updating!Told("transport", Updating!Submission(call), http)
          \/ \E http \in {None, call.step} :
               ~call.wire /\ end = Updating!Told("transport", "not-submitted", http)
      BY <1>3 DEF Updating!TransportError, Call
    <3> QED  BY <1>3, <3>1 DEF Updating!Told, Tellings, Codes
  <2>2. CallSound(Updating!Ends(call, end))
    BY <1>1, <1>3, <2>1, EndedSound
  <2> QED  BY <1>0, <1>8, <2>2, OneCall
<1>9. ASSUME Updating!Update(c, Updating!Ends(answered, Updating!Failure(answered, "invalid-response")))
      PROVE  UpdatesInv'
  <2> DEFINE end == Updating!Failure(answered, "invalid-response")
  <2>1. /\ end \in Tellings /\ end.code = "invalid-response" /\ end.http = answered.latest
        /\ end.submission = IF answered.submitted THEN "unknown" ELSE "not-submitted"
    BY <1>4, FailureIs DEF Codes
  <2> HIDE DEF end
  <2>2. /\ end.submission = "not-submitted" => ~answered.wire
        /\ end.submission = "unknown" => end.http \in {None, 4}
    BY <1>3, <1>4, <2>1
  <2>3. CallSound(Updating!Ends(answered, end))
    BY <1>1, <1>4, <1>5, <1>6, <2>1, <2>2, EndedSound
  <2> QED  BY <1>0, <1>9, <2>3, OneCall DEF end
<1>10. ASSUME ~Updating!Fails(call),
              Updating!Update(c, [answered EXCEPT !.at = "closing", !.kind = "problem"])
       PROVE  UpdatesInv'
  <2> DEFINE k == [answered EXCEPT !.at = "closing", !.kind = "problem"]
  <2>1. /\ k \in Call /\ k.at = "closing" /\ k.told = call.told /\ k.step = call.step
        /\ k.stopped = call.stopped /\ k.aborted = call.aborted /\ k.latest = call.step
        /\ k.wire = call.wire /\ k.submitted = call.submitted /\ k.due = call.due
    BY <1>4 DEF Call
  <2> HIDE DEF k
  <2>2. SubmissionSound(k)  BY <1>3, <2>1 DEF SubmissionSound
  <2>3. TellingSound(k, closed)
    BY <1>1, <1>3, <1>10, <2>1 DEF TellingSound, Updating!Running, Updating!Stopped, Updating!Fails
  <2> QED  BY <1>0, <1>10, <2>1, <2>2, <2>3, OneCall DEF CallSound, k
<1>11. ASSUME ~Updating!Fails(call), Updating!Update(c, Updating!GoesOn(answered))
       PROVE  UpdatesInv'
  <2> DEFINE k == Updating!GoesOn(answered)
  <2>1. /\ k \in Call /\ k.told = call.told /\ k.kind = call.kind
        /\ k.stopped = call.stopped /\ k.aborted = call.aborted /\ k.latest = call.step
        /\ k.wire = call.wire /\ k.submitted = call.submitted /\ k.due = call.due
        /\ \/ k.at = "closing" /\ k.step = call.step
           \/ k.at = "ready" /\ k.step = call.step + 1 /\ call.step # Updating!Steps[call.kind]
    <3>1. CASE Updating!IsLast(answered)
      <4>1. k = [answered EXCEPT !.at = "closing"]  BY <3>1 DEF Updating!GoesOn
      <4> QED  BY <1>4, <4>1 DEF Call
    <3>2. CASE ~Updating!IsLast(answered)
      <4>1. k = [answered EXCEPT !.at = "ready", !.step = answered.step + 1]
        BY <1>4, <3>2 DEF Updating!GoesOn, Call
      <4> DEFINE last == Updating!Steps[call.kind]
      <4>2. last \in 2..4  BY <1>3, KindsKnown
      <4>3. call.step # last  BY <1>4, <3>2 DEF Updating!IsLast
      <4>4. call.step \in 1..last  BY <1>3
      <4> HIDE DEF last
      <4>5. call.step + 1 \in 0..4  BY <4>2, <4>3, <4>4
      <4> DEFINE next == [answered EXCEPT !.at = "ready"]
      <4>6. /\ next \in Call /\ next.at = "ready" /\ next.told = call.told /\ next.kind = call.kind
            /\ next.stopped = call.stopped /\ next.aborted = call.aborted
            /\ next.latest = call.step /\ next.wire = call.wire
            /\ next.submitted = call.submitted /\ next.due = call.due /\ next.step = call.step
        BY <1>4 DEF Call
      <4>7. k = [next EXCEPT !.step = call.step + 1]  BY <1>4, <4>1
      <4> HIDE DEF k, next
      <4> QED  BY <4>3, <4>5, <4>6, <4>7 DEF Call, last
    <3> QED  BY <3>1, <3>2
  <2> HIDE DEF k
  <2>2. SubmissionSound(k)
    <3> DEFINE last == Updating!Steps[call.kind]
    <3>1. last \in 2..4 /\ call.step \in 1..last  BY <1>3, KindsKnown
    <3>2. k.at = "ready" => k.step \in 1..last /\ ~k.submitted
      <4> SUFFICES ASSUME k.at = "ready" PROVE k.step \in 1..last /\ ~k.submitted  OBVIOUS
      <4>1. k.step = call.step + 1 /\ call.step # last  BY <2>1
      <4> HIDE DEF last
      <4> QED  BY <1>3, <2>1, <3>1, <4>1
    <3>3. k.at \in {"closing", "ready"} /\ (k.at = "closing" => k.step = call.step)  BY <2>1
    <3> QED  BY <1>3, <2>1, <3>1, <3>2, <3>3 DEF SubmissionSound
  <2>3. TellingSound(k, closed)
    BY <1>1, <1>3, <1>11, <2>1 DEF TellingSound, Updating!Running, Updating!Stopped, Updating!Fails
  <2> QED  BY <1>0, <1>11, <2>1, <2>2, <2>3, OneCall DEF CallSound, k
<1>12. ASSUME Updating!Update(c, Updating!Ends(call, Updating!Told("invalid-input", Updating!Submission(call), None)))
       PROVE  UpdatesInv'
  <2> DEFINE end == Updating!Told("invalid-input", Updating!Submission(call), None)
  <2>1. /\ end \in Tellings /\ end.code = "invalid-input" /\ end.http = None
        /\ end.submission = IF call.submitted THEN "unknown" ELSE "not-submitted"
    BY <1>3 DEF Tellings, Codes, Updating!Told
  <2> HIDE DEF end
  <2>2. CallSound(Updating!Ends(call, end))
    BY <1>1, <1>3, <2>1, EndedSound
  <2> QED  BY <1>0, <1>12, <2>2, OneCall DEF end
<1> QED  BY <1>2, <1>7, <1>8, <1>9, <1>10, <1>11, <1>12

LEMMA FinalizeStep ==
  ASSUME UpdatesInv, NEW c \in Users, Updating!Finalize(c)
  PROVE  UpdatesInv'
<1> DEFINE call == calls[c]
           answer == Updating!Told("answer", Updating!Submission(call), call.latest)
           input == Updating!Told("invalid-input", Updating!Submission(call), None)
<1>0. UNCHANGED closed  BY DEF Updating!Finalize
<1>1. CallSound(call) /\ call.at = "closing" /\ closed \in BOOLEAN
  BY CallOf DEF Updating!Finalize, UpdatesInv
<1>2. \/ ~Updating!Finishes(call) /\ Updating!Update(c, Updating!Checked(call))
      \/ Updating!Update(c, Updating!Ends(call, answer))
      \/ Updating!Update(c, Updating!Ends(call, Updating!Failure(call, "invalid-response")))
      \/ Updating!Update(c, Updating!Ends(call, input))
  BY DEF Updating!Finalize
<1> HIDE DEF call
<1>3. /\ call \in Call /\ SubmissionSound(call) /\ TellingSound(call, closed)
      /\ call.submitted => call.latest \in {None, 4}
      /\ call.wire => call.submitted
      /\ Updating!Submission(call) = IF call.submitted THEN "unknown" ELSE "not-submitted"
      /\ call.latest \in {None} \cup (1..4)
  BY <1>1 DEF CallSound, Call, SubmissionSound, Updating!Submission
<1>4. CASE ~Updating!Finishes(call) /\ Updating!Update(c, Updating!Checked(call))
  <2>1. Updating!Fails(call)  BY <1>1, <1>4 DEF Updating!Finishes
  <2> QED  BY <1>0, <1>1, <1>4, <2>1, CheckedSound, OneCall
<1>5. ASSUME NEW end \in {answer, Updating!Failure(call, "invalid-response"), input}
      PROVE  CallSound(Updating!Ends(call, end))
  <2>1. /\ end \in Tellings /\ end.code \notin {"timeout", "aborted", "closed"}
        /\ end.submission = IF call.submitted THEN "unknown" ELSE "not-submitted"
        /\ end.http \in {None, call.latest}
    <3>1. Updating!Failure(call, "invalid-response")
            = Updating!Told("invalid-response", Updating!Submission(call), call.latest)
      BY DEF Updating!Failure
    <3>2. \E code \in {"answer", "invalid-response", "invalid-input"}, http \in {None, call.latest} :
            end = [code |-> code, submission |-> IF call.submitted THEN "unknown" ELSE "not-submitted",
                   http |-> http]
      BY <1>3, <3>1 DEF Updating!Told
    <3> QED  BY <1>3, <3>2 DEF Tellings, Codes
  <2>2. /\ end.submission = "not-submitted" => ~call.wire
        /\ end.submission = "unknown" => end.http \in {None, 4}
    BY <1>3, <2>1
  <2> QED  BY <1>1, <1>3, <2>1, <2>2, EndedSound
<1>6. CASE Updating!Update(c, Updating!Ends(call, answer))
  BY <1>0, <1>5, <1>6, OneCall
<1>7. CASE Updating!Update(c, Updating!Ends(call, Updating!Failure(call, "invalid-response")))
  BY <1>0, <1>5, <1>7, OneCall
<1>8. CASE Updating!Update(c, Updating!Ends(call, input))
  BY <1>0, <1>5, <1>8, OneCall
<1> QED  BY <1>2, <1>4, <1>6, <1>7, <1>8

LEMMA ReleaseStep ==
  ASSUME UpdatesInv, NEW c \in Users, Updating!Release(c)
  PROVE  UpdatesInv'
<1> DEFINE call == calls[c]
           k == [call EXCEPT !.released = TRUE]
<1>1. CallSound(call) /\ UNCHANGED closed /\ call.told # None
  BY CallOf DEF Updating!Release
<1>2. Updating!Update(c, k)  BY DEF Updating!Release
<1>3. call.at # "none"
  BY <1>1 DEF CallSound, SubmissionSound, Updating!NoCall
<1> HIDE DEF call
<1>4. /\ k \in Call /\ k.at = call.at /\ k.told = call.told /\ k.kind = call.kind
      /\ k.step = call.step /\ k.stopped = call.stopped /\ k.aborted = call.aborted
      /\ k.latest = call.latest /\ k.submitted = call.submitted /\ k.due = call.due
      /\ k.wire = call.wire
  BY <1>1 DEF CallSound, Call
<1> HIDE DEF k
<1>5. SubmissionSound(k)
  BY <1>1, <1>3, <1>4 DEF CallSound, SubmissionSound, Updating!Mutates, Updating!IsLast
<1>6. TellingSound(k, closed)
  BY <1>1, <1>4 DEF CallSound, TellingSound, Updating!Mutates, Updating!IsLast, Updating!Running,
    Updating!Stopped
<1> QED  BY <1>1, <1>2, <1>4, <1>5, <1>6, OneCall DEF CallSound

\* A call whose signals are set, and that is told then what ended it.
LEMMA StoppedCall ==
  ASSUME closed \in BOOLEAN, NEW call, CallSound(call), Updating!Running(call),
         NEW ended \in BOOLEAN, closed => ended,
         NEW k \in {[call EXCEPT !.aborted = TRUE], [call EXCEPT !.stopped = TRUE]},
         k = [call EXCEPT !.aborted = TRUE] \/ call.due \/ ended
  PROVE  /\ Updating!Interrupted(k, ended) \in Call
         /\ SubmissionSound(Updating!Interrupted(k, ended))
         /\ ~Updating!Running(Updating!Interrupted(k, ended))
         /\ TellingSound(Updating!Interrupted(k, ended), ended)
<1>1. /\ call \in Call /\ call.at # "none" /\ call.told = None /\ SubmissionSound(call)
      /\ call.at # "over" /\ (call.stopped => call.due \/ closed)
  BY DEF CallSound, Updating!Running, TellingSound
<1>2. /\ k \in Call /\ k.at = call.at /\ k.told = None /\ k.kind = call.kind
      /\ k.step = call.step /\ (k.aborted \/ k.stopped)
      /\ k.latest = call.latest /\ k.submitted = call.submitted /\ k.due = call.due
      /\ k.wire = call.wire
  <2>1. CASE k = [call EXCEPT !.aborted = TRUE]  BY <1>1, <2>1 DEF Call
  <2>2. CASE k = [call EXCEPT !.stopped = TRUE]  BY <1>1, <2>2 DEF Call
  <2> QED  BY <2>1, <2>2
<1>3. k.stopped => k.due \/ ended
  <2>1. CASE k = [call EXCEPT !.aborted = TRUE]  BY <1>1, <2>1 DEF Call
  <2>2. CASE call.due \/ ended  BY <1>2, <2>2
  <2> QED  BY <2>1, <2>2
<1>4. SubmissionSound(k)
  BY <1>1, <1>2 DEF SubmissionSound, Updating!Mutates, Updating!IsLast
<1>5. Updating!Stopped(k)  BY <1>2 DEF Updating!Stopped
<1>6. ~ended /\ ~k.aborted => k.due
  <2>1. CASE k = [call EXCEPT !.aborted = TRUE]  BY <1>1, <2>1 DEF Call
  <2>2. CASE call.due \/ ended  BY <1>2, <2>2
  <2> QED  BY <2>1, <2>2
<1> QED  BY <1>1, <1>2, <1>3, <1>4, <1>5, <1>6, InterruptedSound

LEMMA AbortStep ==
  ASSUME UpdatesInv, NEW c \in Users, Updating!Abort(c)
  PROVE  UpdatesInv'
<1> DEFINE k == [calls[c] EXCEPT !.aborted = TRUE]
<1>1. CallSound(calls[c]) /\ UNCHANGED closed /\ Updating!Running(calls[c]) /\ closed \in BOOLEAN
  BY CallOf DEF Updating!Abort, UpdatesInv
<1>2. Updating!Update(c, Updating!Interrupted(k, closed))  BY DEF Updating!Abort
<1>3. CallSound(Updating!Interrupted(k, closed))
  BY <1>1, StoppedCall DEF CallSound
<1> QED  BY <1>1, <1>2, <1>3, OneCall

LEMMA TimerStep ==
  ASSUME UpdatesInv, NEW c \in Users, Updating!Timer(c)
  PROVE  UpdatesInv'
<1> DEFINE k == [calls[c] EXCEPT !.stopped = TRUE]
<1>1. /\ CallSound(calls[c]) /\ UNCHANGED closed /\ Updating!Running(calls[c]) /\ closed \in BOOLEAN
      /\ calls[c].due
  BY CallOf DEF Updating!Timer, UpdatesInv
<1>2. Updating!Update(c, Updating!Interrupted(k, closed))  BY DEF Updating!Timer, Updating!Fired
<1>3. CallSound(Updating!Interrupted(k, closed))
  BY <1>1, StoppedCall DEF CallSound
<1> QED  BY <1>1, <1>2, <1>3, OneCall

LEMMA LateStep ==
  ASSUME UpdatesInv, NEW c \in Users, Updating!Late(c)
  PROVE  UpdatesInv'
<1> DEFINE call == calls[c]
           k == [call EXCEPT !.due = TRUE]
<1>1. CallSound(call) /\ UNCHANGED closed /\ Updating!Running(call)
  BY CallOf DEF Updating!Late
<1>2. Updating!Update(c, k)  BY DEF Updating!Late
<1> HIDE DEF call
<1>3. call.at # "none" /\ call.told = None  BY <1>1 DEF Updating!Running
<1>4. /\ k \in Call /\ k.at = call.at /\ k.told = call.told /\ k.kind = call.kind
      /\ k.step = call.step /\ k.stopped = call.stopped /\ k.aborted = call.aborted
      /\ k.latest = call.latest /\ k.submitted = call.submitted /\ k.due
      /\ k.wire = call.wire
  BY <1>1 DEF CallSound, Call
<1> HIDE DEF k
<1>5. SubmissionSound(k)
  BY <1>1, <1>3, <1>4 DEF CallSound, SubmissionSound, Updating!Mutates, Updating!IsLast
<1>6. TellingSound(k, closed)
  BY <1>1, <1>3, <1>4 DEF CallSound, TellingSound, Updating!Running
<1> QED  BY <1>1, <1>2, <1>4, <1>5, <1>6, OneCall DEF CallSound

LEMMA CloseStep ==
  ASSUME UpdatesInv, Updating!Close
  PROVE  UpdatesInv'
<1>1. /\ closed' = TRUE /\ ~closed /\ closed \in BOOLEAN
      /\ calls' = [c \in Users |-> Updating!ClosedCall(calls[c])]
  BY DEF UpdatesInv, Updating!Close
<1>2. ASSUME NEW c \in Users
      PROVE  /\ Updating!ClosedCall(calls[c]) \in Call
             /\ SubmissionSound(Updating!ClosedCall(calls[c]))
             /\ TellingSound(Updating!ClosedCall(calls[c]), TRUE)
  <2> DEFINE call == calls[c]
             k == [call EXCEPT !.stopped = TRUE]
             e == Updating!Interrupted(k, TRUE)
  <2>1. CallSound(call)  BY CallOf
  <2>2. CASE Updating!Running(call)
    <3>1. Updating!ClosedCall(call) = e  BY <2>2 DEF Updating!ClosedCall
    <3>2. e \in Call /\ SubmissionSound(e) /\ TellingSound(e, TRUE)
      BY <1>1, <2>1, <2>2, StoppedCall
    <3> QED  BY <3>1, <3>2
  <2>3. CASE ~Updating!Running(call)
    <3>1. Updating!ClosedCall(call) = call  BY <2>3 DEF Updating!ClosedCall
    <3> QED  BY <1>1, <2>1, <2>3, <3>1 DEF CallSound, TellingSound
  <2> QED  BY <2>2, <2>3
<1>3. calls' \in [Users -> Call]  BY <1>1, <1>2
<1> QED  BY <1>1, <1>2, <1>3 DEF UpdatesInv, SubmissionSound

LEMMA InitUpdates == Updating!Init => UpdatesInv
<1> SUFFICES ASSUME Updating!Init PROVE UpdatesInv  OBVIOUS
<1>1. closed = FALSE /\ calls = [c \in Users |-> Updating!NoCall]  BY DEF Updating!Init
<1>2. Updating!NoCall \in Call  BY DEF Call, Updating!NoCall
<1>3. SubmissionSound(Updating!NoCall) /\ TellingSound(Updating!NoCall, FALSE)
  BY DEF SubmissionSound, TellingSound, Updating!NoCall, Updating!Running
<1> QED  BY <1>1, <1>2, <1>3 DEF UpdatesInv

LEMMA UpdatesStep == UpdatesInv /\ Updating!Next => UpdatesInv'
<1> SUFFICES ASSUME UpdatesInv, Updating!Next PROVE UpdatesInv'  OBVIOUS
<1>1. CASE Updating!Close  BY <1>1, CloseStep
<1>2. ASSUME NEW c \in Users, NEW kind \in SomeKinds, Updating!Start(c, kind) PROVE UpdatesInv'
  BY <1>2, StartStep
<1>3. ASSUME NEW c \in Users,
             \/ Updating!Send(c) \/ Updating!Transmit(c) \/ Updating!Respond(c)
             \/ Updating!Finalize(c) \/ Updating!Release(c)
             \/ Updating!Abort(c) \/ Updating!Late(c) \/ Updating!Timer(c)
      PROVE  UpdatesInv'
  BY <1>3, SendStep, TransmitStep, RespondStep, FinalizeStep, ReleaseStep, AbortStep, LateStep,
     TimerStep
<1> QED  BY <1>1, <1>2, <1>3 DEF Updating!Next

LEMMA UpdatesTell ==
  ASSUME UpdatesInv
  PROVE  /\ Updating!NotSubmittedIsTrue /\ Updating!CauseIsTrue
         /\ Updating!ContextIsItsOwn /\ Updating!ClosedTellsAll
<1>1. Updating!NotSubmittedIsTrue
  BY DEF UpdatesInv, TellingSound, Updating!NotSubmittedIsTrue
<1>2. Updating!CauseIsTrue
  BY DEF UpdatesInv, TellingSound, Updating!CauseIsTrue
<1>3. Updating!ContextIsItsOwn
  BY DEF UpdatesInv, TellingSound, Updating!ContextIsItsOwn, Updating!Steps
<1>4. Updating!ClosedTellsAll
  BY DEF UpdatesInv, TellingSound, Updating!ClosedTellsAll
<1> QED  BY <1>1, <1>2, <1>3, <1>4
-----------------------------------------------------------------------------
(* The command line. *)

Stopping == {"known", "over"}

LEMMA MovedIs ==
  ASSUME RunsSound, NEW p \in DOMAIN runs, NEW where, Moved(p, where)
  PROVE  /\ DOMAIN runs' = DOMAIN runs
         /\ \A q \in DOMAIN runs :
              /\ runs'[q].write = runs[q].write /\ runs'[q].journal = runs[q].journal
              /\ runs'[q].retry = runs[q].retry
              /\ runs'[q].at = IF q = p THEN where ELSE runs[q].at
              /\ runs'[q] = [at |-> runs'[q].at, write |-> runs'[q].write,
                             journal |-> runs'[q].journal, retry |-> runs'[q].retry,
                             boundary |-> runs'[q].boundary]
<1>1. DOMAIN runs' = DOMAIN runs  BY DEF Moved
<1>2. ASSUME NEW q \in DOMAIN runs, q # p PROVE runs'[q] = runs[q]  BY <1>2 DEF Moved
<1>3. runs'[p] = [runs[p] EXCEPT !.at = where]  BY DEF Moved
<1>4. runs[p] = [at |-> runs[p].at, write |-> runs[p].write, journal |-> runs[p].journal,
                 retry |-> runs[p].retry, boundary |-> runs[p].boundary]
  BY DEF RunsSound
<1>5. /\ runs'[p].write = runs[p].write /\ runs'[p].journal = runs[p].journal
      /\ runs'[p].retry = runs[p].retry /\ runs'[p].at = where
      /\ runs'[p] = [at |-> runs'[p].at, write |-> runs'[p].write,
                     journal |-> runs'[p].journal, retry |-> runs'[p].retry,
                     boundary |-> runs'[p].boundary]
  BY <1>3, <1>4
<1> QED  BY <1>1, <1>2, <1>5 DEF RunsSound

\* A run stops, or knows its answer.
LEMMA StopStep ==
  ASSUME CommandInv, NEW p \in DOMAIN runs, NEW where \in Stopping, Moved(p, where),
         UNCHANGED <<disk, sent, answers, decided>>, runs[p].at # "over",
         where = "known" => p \in DOMAIN answers /\ answers[p] = "success" /\ runs[p].journal # None
  PROVE  /\ RunsSound' /\ JournalsSound' /\ PlacesSound' /\ SentSound'
         /\ \A r \in reports : ReportSound(r)'
<1> USE DEF CommandInv
<1>1. RunsSound' /\ DOMAIN runs' = DOMAIN runs
  <2>1. DOMAIN runs' = DOMAIN runs  BY MovedIs
  <2>2. \A q \in DOMAIN runs :
          /\ runs'[q].retry = runs[q].retry
          /\ runs'[q].at = IF q = p THEN where ELSE runs[q].at
          /\ runs'[q] = [at |-> runs'[q].at, write |-> runs'[q].write,
                         journal |-> runs'[q].journal, retry |-> runs'[q].retry,
                         boundary |-> runs'[q].boundary]
    BY MovedIs
  <2> QED  BY <2>1, <2>2 DEF RunsSound, Stopping
<1>2. \A q \in DOMAIN runs :
        /\ runs'[q].write = runs[q].write /\ runs'[q].journal = runs[q].journal
        /\ runs'[q].retry = runs[q].retry
        /\ runs'[q].at = IF q = p THEN where ELSE runs[q].at
  BY MovedIs
<1>3. JournalsSound'  BY <1>1, <1>2 DEF JournalsSound, Stopping
<1>4. PlacesSound'  BY <1>1, <1>2 DEF PlacesSound, Stopping, JournalsSound
<1>5. SentSound'  BY <1>1, <1>2 DEF SentSound
<1>6. \A r \in reports : ReportSound(r)'  BY <1>1, <1>2 DEF ReportsSound, ReportSound
<1> QED  BY <1>1, <1>3, <1>4, <1>5, <1>6

\* A run that ends tells what became of its request.
LEMMA EndStep ==
  ASSUME CommandInv, NEW p \in DOMAIN runs, runs[p].at # "over",
         NEW outcome \in {"success", "failure", "unknown"}, NEW op \in {None, "success"},
         Ends(p, outcome, op), UNCHANGED <<disk, sent, answers, decided>>,
         outcome = "success" \/ op = "success" => p \in DOMAIN answers /\ answers[p] = "success",
         outcome = "failure" /\ op = None /\ p \in DOMAIN sent =>
           p \in DOMAIN answers /\ answers[p] # "success",
         outcome = "unknown" => runs[p].journal # None
  PROVE  CommandInv'
<1>1. Moved(p, "over") /\ "over" \in Stopping  BY DEF Ends, Stopping
<1>2. /\ RunsSound' /\ JournalsSound' /\ PlacesSound' /\ SentSound'
      /\ \A r \in reports : ReportSound(r)'
  BY <1>1, StopStep
<1>3. ASSUME NEW r \in reports', r \notin reports PROVE ReportSound(r)'
  <2>1. r = [run |-> p, outcome |-> outcome, operation |-> op,
             recovery |-> IF outcome = "unknown" THEN runs[p].journal ELSE None]
    BY <1>3 DEF Ends, Recovery
  <2>2. /\ r.run = p /\ r.outcome = outcome /\ r.operation = op
        /\ outcome = "unknown" => r.recovery = runs[p].journal
    BY <2>1
  <2>3. p \in DOMAIN runs' /\ runs'[p].at = "over" /\ runs'[p].journal = runs[p].journal
    BY <1>1, MovedIs DEF CommandInv
  <2> QED  BY <2>2, <2>3 DEF ReportSound
<1> QED  BY <1>2, <1>3 DEF CommandInv, ReportsSound

LEMMA FailsStep ==
  ASSUME CommandInv, NEW p \in DOMAIN runs, runs[p].at # "over", NEW cause, Fails(p, cause),
         UNCHANGED <<disk, sent, answers, decided>>,
         ~LeavesUnknown(cause) /\ p \in DOMAIN sent => p \in DOMAIN answers /\ answers[p] # "success",
         LeavesUnknown(cause) => runs[p].journal # None
  PROVE  CommandInv'
<1> DEFINE outcome == IF LeavesUnknown(cause) THEN "unknown" ELSE "failure"
<1>1. Ends(p, outcome, None)  BY DEF Fails
<1>2. /\ outcome \in {"success", "failure", "unknown"} /\ outcome # "success"
      /\ outcome = "failure" /\ p \in DOMAIN sent => p \in DOMAIN answers /\ answers[p] # "success"
      /\ outcome = "unknown" => runs[p].journal # None
  OBVIOUS
<1> HIDE DEF outcome
<1> QED  BY <1>1, <1>2, EndStep, NoneIsNoAnswer

LEMMA EndingSteps ==
  ASSUME CommandInv, NEW p,
         FailEarly(p) \/ NotSent(p) \/ GiveUp(p) \/ Receive(p) \/ Show(p) \/ Kill(p)
  PROVE  CommandInv'
<1>0. p \in DOMAIN runs
  BY DEF FailEarly, NotSent, GiveUp, Receive, Show, Kill, At
<1>1. CASE FailEarly(p)
  <2>1. runs[p].at \in {"frozen", "saving"} /\ Fails(p, "local")
    BY <1>1 DEF FailEarly, At
  <2>2. p \notin DOMAIN sent  BY <1>0, <2>1 DEF CommandInv, PlacesSound
  <2>3. ~LeavesUnknown("local")  BY DEF LeavesUnknown
  <2> QED  BY <1>0, <1>1, <2>1, <2>2, <2>3, FailsStep DEF FailEarly
<1>2. CASE NotSent(p)
  <2>1. runs[p].at = "prepared" /\ Fails(p, "local")
    BY <1>2 DEF NotSent, At
  <2>2. p \notin DOMAIN sent  BY <1>0, <2>1 DEF CommandInv, PlacesSound
  <2>3. ~LeavesUnknown("local")  BY DEF LeavesUnknown
  <2> QED  BY <1>0, <1>2, <2>1, <2>2, <2>3, FailsStep DEF NotSent
<1>3. CASE GiveUp(p)
  <2>1. runs[p].at = "sent" /\ Fails(p, "lost")
    BY <1>3 DEF GiveUp, At
  <2>2. runs[p].journal # None  BY <1>0, <2>1 DEF CommandInv, PlacesSound
  <2>3. LeavesUnknown("lost")  BY DEF LeavesUnknown
  <2> QED  BY <1>0, <1>3, <2>1, <2>2, <2>3, FailsStep DEF GiveUp
<1>4. CASE Receive(p)
  <2>1. runs[p].at = "sent" /\ p \in DOMAIN answers /\ UNCHANGED <<disk, sent, answers, decided>>
    BY <1>4 DEF Receive, At
  <2>2. runs[p].journal # None  BY <1>0, <2>1 DEF CommandInv, PlacesSound
  <2>3. CASE answers[p] = "success"
    <3>1. Moved(p, "known") /\ UNCHANGED reports  BY <1>4, <2>3 DEF Receive
    <3>2. "known" \in Stopping  BY DEF Stopping
    <3>3. /\ RunsSound' /\ JournalsSound' /\ PlacesSound' /\ SentSound'
          /\ \A r \in reports : ReportSound(r)'
      BY <1>0, <2>1, <2>2, <2>3, <3>1, <3>2, StopStep
    <3> QED  BY <3>1, <3>3 DEF CommandInv, ReportsSound
  <2>4. CASE answers[p] # "success"
    <3>1. Fails(p, answers[p])  BY <1>4, <2>4 DEF Receive
    <3> QED  BY <1>0, <2>1, <2>2, <2>4, <3>1, FailsStep
  <2> QED  BY <2>3, <2>4
<1>5. CASE Show(p)
  <2>1. PICK outcome \in {"success", "failure"} : Ends(p, outcome, "success")
    BY <1>5 DEF Show
  <2>2. runs[p].at = "known" /\ UNCHANGED <<disk, sent, answers, decided>>
    BY <1>5 DEF Show, At
  <2>3. p \in DOMAIN answers /\ answers[p] = "success"
    BY <1>0, <2>2 DEF CommandInv, PlacesSound
  <2> QED  BY <1>0, <2>1, <2>2, <2>3, EndStep, NoneIsNoAnswer
<1>6. CASE Kill(p)
  <2>1. Moved(p, "over") /\ UNCHANGED <<disk, sent, answers, decided, reports>> /\ runs[p].at # "over"
    BY <1>6 DEF Kill, At
  <2>2. "over" \in Stopping  BY DEF Stopping
  <2>3. /\ RunsSound' /\ JournalsSound' /\ PlacesSound' /\ SentSound'
        /\ \A r \in reports : ReportSound(r)'
    BY <1>0, <2>1, <2>2, StopStep
  <2> QED  BY <2>1, <2>3 DEF CommandInv, ReportsSound
<1> QED  BY <1>1, <1>2, <1>3, <1>4, <1>5, <1>6

\* The number of a new run.
LEMMA NewRun ==
  ASSUME RunsSound
  PROVE  LET p == Cardinality(DOMAIN runs) + 1 IN
         /\ p \notin DOMAIN runs /\ p \in Nat
         /\ IsFiniteSet(DOMAIN runs \cup {p})
         /\ Cardinality(DOMAIN runs \cup {p}) = p /\ DOMAIN runs \cup {p} = 1..p
<1> DEFINE n == Cardinality(DOMAIN runs)
<1>1. n \in Nat /\ IsFiniteSet(DOMAIN runs)  BY FS_CardinalityType DEF RunsSound
<1>2. DOMAIN runs = 1..n  BY DEF RunsSound
<1>3. n + 1 \notin DOMAIN runs  BY <1>1, <1>2
<1>4. /\ IsFiniteSet(DOMAIN runs \cup {n + 1})
      /\ Cardinality(DOMAIN runs \cup {n + 1}) = n + 1
  BY <1>1, <1>3, FS_AddElement
<1>5. DOMAIN runs \cup {n + 1} = 1..(n + 1)
  <2> HIDE DEF n
  <2> QED  BY <1>1, <1>2
<1> QED  BY <1>1, <1>3, <1>4, <1>5

Fields(r) ==
  r = [at |-> r.at, write |-> r.write, journal |-> r.journal, retry |-> r.retry,
       boundary |-> r.boundary]

\* A new run leaves those before it as they are.
LEMMA AddedRun ==
  ASSUME CommandInv, NEW p, p = Cardinality(DOMAIN runs) + 1, NEW r, Fields(r), r.retry \in BOOLEAN,
         r.at \in {"frozen", "prepared", "over"},
         runs' = Put(runs, p, r), UNCHANGED <<disk, sent, answers, decided>>,
         r.at = "frozen" => ~r.retry /\ r.journal = None,
         r.at = "prepared" => r.journal # None,
         r.journal # None =>
           /\ r.journal \in DOMAIN disk /\ disk[r.journal].write = r.write
           /\ disk[r.journal].stage # "written" /\ r.retry
  PROVE  /\ RunsSound' /\ JournalsSound' /\ PlacesSound' /\ SentSound'
         /\ \A s \in reports : ReportSound(s)'
         /\ p \notin DOMAIN sent /\ p \in DOMAIN runs' /\ runs'[p] = r
<1> USE DEF CommandInv
<1>1. /\ p \notin DOMAIN runs /\ IsFiniteSet(DOMAIN runs \cup {p})
      /\ Cardinality(DOMAIN runs \cup {p}) = p /\ DOMAIN runs \cup {p} = 1..p
  BY NewRun
<1>2. /\ DOMAIN runs' = DOMAIN runs \cup {p} /\ runs'[p] = r
      /\ \A q \in DOMAIN runs : runs'[q] = runs[q]
  BY <1>1 DEF Put
<1>3. RunsSound'  BY <1>1, <1>2 DEF RunsSound, Fields
<1>4. JournalsSound'  BY <1>2 DEF JournalsSound
<1>5. p \notin DOMAIN sent /\ p \notin DOMAIN disk  BY <1>1 DEF SentSound, JournalsSound
<1>6. PlacesSound'  BY <1>1, <1>2, <1>5 DEF PlacesSound
<1>7. SentSound'  BY <1>2 DEF SentSound
<1>8. \A s \in reports : ReportSound(s)'  BY <1>2 DEF ReportsSound, ReportSound
<1> QED  BY <1>2, <1>3, <1>4, <1>5, <1>6, <1>7, <1>8

LEMMA StartRun ==
  ASSUME CommandInv, NEW command, NEW key, Start(command, key)
  PROVE  CommandInv'
<1> DEFINE p == Cardinality(DOMAIN runs) + 1
           r == [at |-> "frozen",
                 write |-> [command |-> command, key |-> IF key = None THEN p ELSE key],
                 journal |-> None, retry |-> FALSE, boundary |-> credential]
<1>1. runs' = Put(runs, p, r) /\ UNCHANGED <<disk, sent, answers, decided, reports>>
  BY DEF Start
<1>2. Fields(r) /\ r.at = "frozen" /\ r.journal = None /\ r.retry = FALSE  BY DEF Fields
<1> HIDE DEF p, r
<1>3. p = Cardinality(DOMAIN runs) + 1  BY DEF p
<1>4. /\ RunsSound' /\ JournalsSound' /\ PlacesSound' /\ SentSound'
      /\ \A s \in reports : ReportSound(s)'
  BY <1>1, <1>2, <1>3, AddedRun
<1> QED  BY <1>1, <1>4 DEF CommandInv, ReportsSound

LEMMA RetryRun ==
  ASSUME CommandInv, NEW f, Retry(f)
  PROVE  CommandInv'
<1> DEFINE p == Cardinality(DOMAIN runs) + 1
           changed == disk[f].boundary # credential
           r == [at |-> IF changed THEN "over" ELSE "prepared", write |-> Resent(p, f),
                 journal |-> IF changed THEN None ELSE f, retry |-> TRUE, boundary |-> credential]
<1>0. PICK said :
        said = [run |-> p, outcome |-> "failure", operation |-> None, recovery |-> None]
  OBVIOUS
<1>1. /\ runs' = Put(runs, p, r) /\ UNCHANGED <<disk, sent, answers, decided>>
      /\ f \in Named
      /\ reports' = IF changed THEN reports \cup {said} ELSE reports
  BY <1>0 DEF Retry
<1>2. Fields(r) /\ r.retry = TRUE /\ r.write = disk[f].write  BY DEF Fields, Resent
<1>3. /\ changed => r.at = "over" /\ r.journal = None
      /\ ~changed => r.at = "prepared" /\ r.journal = f
  OBVIOUS
<1>4. f \in DOMAIN disk /\ disk[f].stage # "written"  BY <1>1 DEF Named
<1>5. f # None
  <2>1. f \in DOMAIN runs  BY <1>4 DEF CommandInv, JournalsSound
  <2>2. Cardinality(DOMAIN runs) \in Nat  BY FS_CardinalityType DEF CommandInv, RunsSound
  <2>3. f \in Nat  BY <2>1, <2>2 DEF CommandInv, RunsSound
  <2> QED  BY <2>3, NoneIsNothing
<1> HIDE DEF p, r, changed
<1>6. p = Cardinality(DOMAIN runs) + 1  BY DEF p
<1>7. /\ RunsSound' /\ JournalsSound' /\ PlacesSound' /\ SentSound'
      /\ \A s \in reports : ReportSound(s)'
      /\ p \notin DOMAIN sent /\ p \in DOMAIN runs' /\ runs'[p] = r
  BY <1>1, <1>2, <1>3, <1>4, <1>5, <1>6, AddedRun
<1>8. ASSUME changed PROVE ReportSound(said)'
  <2>1. said.run = p /\ said.outcome = "failure" /\ said.operation = None  BY <1>0
  <2>2. p \in DOMAIN runs' /\ runs'[p].at = "over" /\ p \notin DOMAIN sent'
    BY <1>1, <1>3, <1>7, <1>8
  <2> QED  BY <2>1, <2>2, NoneIsNoAnswer DEF ReportSound
<1>9. \A s \in reports' : ReportSound(s)'
  BY <1>1, <1>7, <1>8
<1> QED  BY <1>7, <1>9 DEF CommandInv, ReportsSound

LEMMA SaveRun ==
  ASSUME CommandInv, NEW p, Save(p)
  PROVE  CommandInv'
<1> USE DEF CommandInv
<1>1. /\ p \in DOMAIN runs /\ runs[p].at \in {"frozen", "saving"}
      /\ UNCHANGED <<sent, answers, decided, reports>>
  BY DEF Save, At
<1>2. ~runs[p].retry /\ runs[p].journal = None /\ p \notin DOMAIN sent
  BY <1>1 DEF PlacesSound
<1>3. CASE p \notin DOMAIN disk
  <2> DEFINE d == [write |-> runs[p].write, boundary |-> runs[p].boundary, stage |-> "written"]
  <2>1. disk' = Put(disk, p, d) /\ Moved(p, "saving")  BY <1>3 DEF Save
  <2>2. /\ DOMAIN runs' = DOMAIN runs
        /\ \A q \in DOMAIN runs :
              /\ runs'[q].write = runs[q].write /\ runs'[q].journal = runs[q].journal
              /\ runs'[q].retry = runs[q].retry
              /\ runs'[q].at = IF q = p THEN "saving" ELSE runs[q].at
              /\ runs'[q] = [at |-> runs'[q].at, write |-> runs'[q].write,
                             journal |-> runs'[q].journal, retry |-> runs'[q].retry,
                             boundary |-> runs'[q].boundary]
    BY <1>1, <2>1, MovedIs
  <2>3. /\ d.write = runs[p].write /\ d.stage = "written"
        /\ d = [write |-> d.write, boundary |-> d.boundary, stage |-> d.stage]
    OBVIOUS
  <2> HIDE DEF d
  <2>4. /\ DOMAIN disk' = DOMAIN disk \cup {p} /\ disk'[p] = d
        /\ \A f \in DOMAIN disk : disk'[f] = disk[f]
    BY <1>3, <2>1 DEF Put
  <2>5. RunsSound'  BY <2>2 DEF RunsSound
  <2>6. JournalsSound'  BY <1>1, <1>2, <2>2, <2>3, <2>4 DEF JournalsSound
  <2>7. PlacesSound'  BY <1>1, <1>2, <2>2, <2>4 DEF PlacesSound
  <2>8. SentSound'  BY <1>1, <2>2 DEF SentSound
  <2>9. ReportsSound'  BY <1>1, <2>2 DEF ReportsSound, ReportSound
  <2> QED  BY <2>5, <2>6, <2>7, <2>8, <2>9
<1>4. CASE p \in DOMAIN disk
  <2>1. /\ UNCHANGED runs /\ disk[p].stage \in {"written", "synced", "renamed"}
        /\ disk' = [disk EXCEPT ![p].stage = NextStage[disk[p].stage]]
    BY <1>4 DEF Save, NextStage
  <2>2. NextStage[disk[p].stage] \in {"synced", "renamed", "saved"}
    BY <2>1 DEF NextStage
  <2>3. disk[p] = [write |-> disk[p].write, boundary |-> disk[p].boundary, stage |-> disk[p].stage]
    BY <1>4 DEF JournalsSound
  <2>4. disk'[p] = [disk[p] EXCEPT !.stage = NextStage[disk[p].stage]]  BY <1>4, <2>1
  <2>5. /\ disk'[p].write = disk[p].write /\ disk'[p].stage \in {"synced", "renamed", "saved"}
        /\ disk'[p] = [write |-> disk'[p].write, boundary |-> disk'[p].boundary,
                       stage |-> disk'[p].stage]
    BY <2>2, <2>3, <2>4
  <2>6. DOMAIN disk' = DOMAIN disk /\ \A f \in DOMAIN disk : f # p => disk'[f] = disk[f]
    BY <2>1
  <2>7. JournalsSound'  BY <2>1, <2>5, <2>6 DEF JournalsSound
  <2>8. disk[p].stage # "saved"  BY <2>1
  <2>9. PlacesSound'
    BY <1>1, <1>2, <2>1, <2>5, <2>6, <2>8 DEF PlacesSound
  <2>10. RunsSound' /\ SentSound' /\ ReportsSound'
    BY <1>1, <2>1 DEF RunsSound, SentSound, ReportsSound, ReportSound
  <2> QED  BY <2>7, <2>9, <2>10
<1> QED  BY <1>3, <1>4

LEMMA PreparedRun ==
  ASSUME CommandInv, NEW p, Prepared(p)
  PROVE  CommandInv'
<1> USE DEF CommandInv
<1>1. /\ p \in DOMAIN runs /\ runs[p].at = "saving" /\ p \in DOMAIN disk /\ disk[p].stage = "saved"
      /\ runs' = [runs EXCEPT ![p].at = "prepared", ![p].journal = p]
      /\ UNCHANGED <<disk, sent, answers, decided, reports>>
  BY DEF Prepared, At, Saved
<1>2. ~runs[p].retry /\ p \notin DOMAIN sent
  BY <1>1 DEF PlacesSound
<1>3. /\ DOMAIN runs' = DOMAIN runs
      /\ \A q \in DOMAIN runs : q # p => runs'[q] = runs[q]
  BY <1>1
<1>4. runs'[p] = [runs[p] EXCEPT !.at = "prepared", !.journal = p]
  BY <1>1
<1>5. runs[p] = [at |-> runs[p].at, write |-> runs[p].write, journal |-> runs[p].journal,
                 retry |-> runs[p].retry, boundary |-> runs[p].boundary]
  BY <1>1 DEF RunsSound
<1>6. /\ runs'[p].at = "prepared" /\ runs'[p].journal = p /\ runs'[p].retry = runs[p].retry
      /\ runs'[p].write = runs[p].write
      /\ runs'[p] = [at |-> runs'[p].at, write |-> runs'[p].write,
                     journal |-> runs'[p].journal, retry |-> runs'[p].retry,
                     boundary |-> runs'[p].boundary]
  BY <1>4, <1>5
<1>7. p # None
  <2>1. Cardinality(DOMAIN runs) \in Nat  BY FS_CardinalityType DEF RunsSound
  <2>2. p \in Nat  BY <1>1, <2>1 DEF RunsSound
  <2> QED  BY <2>2, NoneIsNothing
<1>8. disk[p].write = runs[p].write  BY <1>1 DEF JournalsSound
<1>9. RunsSound'  BY <1>2, <1>3, <1>6 DEF RunsSound
<1>10. JournalsSound'  BY <1>1, <1>3, <1>6 DEF JournalsSound
<1>11. PlacesSound'  BY <1>1, <1>2, <1>3, <1>6, <1>7, <1>8 DEF PlacesSound
<1>12. SentSound'  BY <1>1, <1>2, <1>3 DEF SentSound
<1>13. ReportsSound'  BY <1>1, <1>3 DEF ReportsSound, ReportSound
<1> QED  BY <1>9, <1>10, <1>11, <1>12, <1>13

LEMMA SendRun ==
  ASSUME CommandInv, NEW p, Send(p)
  PROVE  CommandInv'
<1> USE DEF CommandInv
<1>1. /\ p \in DOMAIN runs /\ runs[p].at = "prepared" /\ Moved(p, "sent")
      /\ sent' = Put(sent, p, runs[p].write)
      /\ UNCHANGED <<disk, answers, decided, reports>>
  BY DEF Send, At
<1>2. p \notin DOMAIN sent /\ runs[p].journal # None
  BY <1>1 DEF PlacesSound
<1>3. /\ DOMAIN runs' = DOMAIN runs
      /\ \A q \in DOMAIN runs :
            /\ runs'[q].write = runs[q].write /\ runs'[q].journal = runs[q].journal
            /\ runs'[q].retry = runs[q].retry
            /\ runs'[q].at = IF q = p THEN "sent" ELSE runs[q].at
            /\ runs'[q] = [at |-> runs'[q].at, write |-> runs'[q].write,
                           journal |-> runs'[q].journal, retry |-> runs'[q].retry,
                           boundary |-> runs'[q].boundary]
  BY <1>1, MovedIs
<1>4. /\ DOMAIN sent' = DOMAIN sent \cup {p} /\ sent'[p] = runs[p].write
      /\ \A q \in DOMAIN sent : sent'[q] = sent[q]
  BY <1>1, <1>2 DEF Put
<1>5. RunsSound'  BY <1>3 DEF RunsSound
<1>6. JournalsSound'  BY <1>1, <1>3 DEF JournalsSound
<1>7. PlacesSound'  BY <1>1, <1>2, <1>3, <1>4 DEF PlacesSound
<1>8. SentSound'
  <2>1. \A q \in DOMAIN sent' :
          q \in DOMAIN runs' /\ sent'[q] = runs'[q].write /\ runs'[q].journal # None
    BY <1>1, <1>2, <1>3, <1>4 DEF SentSound
  <2>2. \A q \in DOMAIN answers : q \in DOMAIN sent /\ q # p /\ sent'[q] = sent[q]
    BY <1>2, <1>4 DEF SentSound
  <2>3. \A q \in DOMAIN answers :
          /\ q \in DOMAIN sent'
          /\ answers[q] \in Decisions =>
               sent'[q].key \in DOMAIN decided /\ decided[sent'[q].key] = <<sent'[q], answers[q]>>
    BY <1>4, <2>2 DEF SentSound
  <2>4. \A k \in DOMAIN decided : \E q \in DOMAIN answers :
          answers[q] \in Decisions /\ sent'[q].key = k /\ decided[k] = <<sent'[q], answers[q]>>
    BY <2>2 DEF SentSound
  <2> QED  BY <1>1, <2>1, <2>3, <2>4 DEF SentSound
<1>9. ReportsSound'  BY <1>1, <1>3, <1>4 DEF ReportsSound, ReportSound
<1> QED  BY <1>5, <1>6, <1>7, <1>8, <1>9

LEMMA PowerIsLost ==
  ASSUME CommandInv, PowerLoss
  PROVE  CommandInv'
<1> USE DEF CommandInv
<1>1. /\ runs' = [p \in DOMAIN runs |-> [runs[p] EXCEPT !.at = "over"]]
      /\ UNCHANGED <<sent, answers, decided, reports>>
  BY DEF PowerLoss
<1>2. PICK lost \in SUBSET {f \in DOMAIN disk : disk[f].stage = "renamed"} :
        disk' = [f \in {f \in DOMAIN disk : disk[f].stage # "written"} |->
                   [disk[f] EXCEPT !.stage = IF f \in lost THEN "synced"
                                             ELSE IF disk[f].stage = "renamed" THEN "saved"
                                             ELSE disk[f].stage]]
  BY DEF PowerLoss
<1>3. DOMAIN runs' = DOMAIN runs  BY <1>1
<1>4. ASSUME NEW p \in DOMAIN runs
      PROVE  /\ runs'[p].write = runs[p].write /\ runs'[p].journal = runs[p].journal
             /\ runs'[p].retry = runs[p].retry /\ runs'[p].at = "over"
             /\ runs'[p] = [at |-> runs'[p].at, write |-> runs'[p].write,
                            journal |-> runs'[p].journal, retry |-> runs'[p].retry,
                            boundary |-> runs'[p].boundary]
  <2>1. runs'[p] = [runs[p] EXCEPT !.at = "over"]  BY <1>1
  <2>2. runs[p] = [at |-> runs[p].at, write |-> runs[p].write, journal |-> runs[p].journal,
                   retry |-> runs[p].retry, boundary |-> runs[p].boundary]
    BY DEF RunsSound
  <2> QED  BY <2>1, <2>2
<1>5. DOMAIN disk' = {f \in DOMAIN disk : disk[f].stage # "written"}  BY <1>2
<1>6. ASSUME NEW f \in DOMAIN disk'
      PROVE  /\ f \in DOMAIN disk /\ disk'[f].write = disk[f].write
             /\ disk'[f].stage \in {"synced", "renamed", "saved"}
             /\ disk[f].stage = "saved" => disk'[f].stage = "saved"
             /\ disk'[f] = [write |-> disk'[f].write, boundary |-> disk'[f].boundary,
                            stage |-> disk'[f].stage]
  <2> DEFINE stage == IF f \in lost THEN "synced"
                      ELSE IF disk[f].stage = "renamed" THEN "saved" ELSE disk[f].stage
  <2>1. f \in DOMAIN disk /\ disk[f].stage # "written"  BY <1>5
  <2>2. disk'[f] = [disk[f] EXCEPT !.stage = stage]  BY <1>2, <2>1
  <2>3. /\ disk[f] = [write |-> disk[f].write, boundary |-> disk[f].boundary, stage |-> disk[f].stage]
        /\ disk[f].stage \in {"synced", "renamed", "saved"}
    BY <2>1 DEF JournalsSound
  <2>4. stage \in {"synced", "renamed", "saved"}  BY <2>3
  <2>5. disk[f].stage = "saved" => stage = "saved"  OBVIOUS
  <2> HIDE DEF stage
  <2> QED  BY <2>1, <2>2, <2>3, <2>4, <2>5
<1>7. RunsSound'  BY <1>3, <1>4 DEF RunsSound
<1>8. JournalsSound'  BY <1>3, <1>4, <1>6 DEF JournalsSound
<1>9. PlacesSound'
  <2> SUFFICES ASSUME NEW p \in DOMAIN runs', runs'[p].journal # None
               PROVE  /\ runs'[p].journal \in DOMAIN disk'
                      /\ disk'[runs'[p].journal].write = runs'[p].write
                      /\ disk'[runs'[p].journal].stage # "written"
                      /\ ~runs'[p].retry => runs'[p].journal = p /\ disk'[p].stage = "saved"
    BY <1>3, <1>4 DEF PlacesSound
  <2> DEFINE f == runs[p].journal
  <2>1. runs'[p].journal = f /\ p \in DOMAIN runs /\ f # None  BY <1>3, <1>4
  <2>2. /\ f \in DOMAIN disk /\ disk[f].write = runs[p].write /\ disk[f].stage # "written"
        /\ ~runs[p].retry => f = p /\ disk[p].stage = "saved"
    BY <2>1 DEF PlacesSound
  <2>3. f \in DOMAIN disk'  BY <1>5, <2>2
  <2> HIDE DEF f
  <2> QED  BY <1>4, <1>6, <2>1, <2>2, <2>3
<1>10. SentSound'  BY <1>1, <1>3, <1>4 DEF SentSound
<1>11. ReportsSound'  BY <1>1, <1>3, <1>4 DEF ReportsSound, ReportSound
<1> QED  BY <1>7, <1>8, <1>9, <1>10, <1>11

\* The server decides a key once, for the request that it has.
LEMMA HandleStep ==
  ASSUME CommandInv, NEW p, Handle(p)
  PROVE  CommandInv'
<1> USE DEF CommandInv
<1>1. /\ UNCHANGED <<disk, runs, sent, reports>> /\ p \in DOMAIN sent /\ p \notin DOMAIN answers
      /\ DOMAIN decided \subseteq DOMAIN decided'
      /\ \A k \in DOMAIN decided : decided'[k] = decided[k]
  BY DEF Handle, Put
<1>2. PICK code :
        /\ answers' = Put(answers, p, code)
        /\ \/ decided' = decided /\ code \notin Decisions
           \/ /\ decided' = decided /\ sent[p].key \in DOMAIN decided
              /\ decided[sent[p].key][1] = sent[p] /\ code = decided[sent[p].key][2]
           \/ /\ sent[p].key \notin DOMAIN decided
              /\ code \in Decisions
              /\ decided' = Put(decided, sent[p].key, <<sent[p], code>>)
  <2>1. CASE \E code \in {"refused", "unavailable"} :
               answers' = Put(answers, p, code) /\ UNCHANGED decided
    BY <2>1 DEF Decisions
  <2>2. CASE /\ sent[p].key \in DOMAIN decided
             /\ answers' = Put(answers, p, IF decided[sent[p].key][1] = sent[p]
                                           THEN decided[sent[p].key][2] ELSE "conflict")
             /\ UNCHANGED decided
    <3>1. CASE decided[sent[p].key][1] = sent[p]  BY <2>2, <3>1
    <3>2. CASE decided[sent[p].key][1] # sent[p]
      <4>1. answers' = Put(answers, p, "conflict") /\ decided' = decided  BY <2>2, <3>2
      <4>2. "conflict" \notin Decisions  BY DEF Decisions
      <4> QED  BY <4>1, <4>2
    <3> QED  BY <3>1, <3>2
  <2>3. CASE /\ sent[p].key \notin DOMAIN decided
             /\ \E code \in Decisions :
                  /\ answers' = Put(answers, p, code)
                  /\ decided' = Put(decided, sent[p].key, <<sent[p], code>>)
    BY <2>3
  <2> QED  BY <2>1, <2>2, <2>3 DEF Handle
<1>3. /\ DOMAIN answers' = DOMAIN answers \cup {p} /\ answers'[p] = code
      /\ \A q \in DOMAIN answers : q # p /\ answers'[q] = answers[q]
  BY <1>1, <1>2 DEF Put
<1>4. RunsSound' /\ JournalsSound'  BY <1>1 DEF RunsSound, JournalsSound
<1>5. PlacesSound'  BY <1>1, <1>3 DEF PlacesSound
<1>6. ReportsSound'  BY <1>1, <1>3 DEF ReportsSound, ReportSound
<1>7. SentSound'
  <2>1. code \in Decisions =>
          sent[p].key \in DOMAIN decided' /\ decided'[sent[p].key] = <<sent[p], code>>
    <3>1. ASSUME NEW k \in DOMAIN decided, decided[k][1] = sent[p], code = decided[k][2]
          PROVE  decided[k] = <<sent[p], code>>
      <4>1. PICK q \in DOMAIN answers : decided[k] = <<sent[q], answers[q]>>
        BY DEF SentSound
      <4> QED  BY <3>1, <4>1
    <3> QED  BY <1>2, <3>1 DEF Put
  <2>2. ASSUME NEW q \in DOMAIN answers', answers'[q] \in Decisions
        PROVE  /\ q \in DOMAIN sent /\ sent[q].key \in DOMAIN decided'
               /\ decided'[sent[q].key] = <<sent[q], answers'[q]>>
    <3>1. CASE q = p  BY <1>1, <1>3, <2>1, <2>2, <3>1
    <3>2. CASE q # p
      <4>1. q \in DOMAIN answers /\ answers'[q] = answers[q]  BY <1>3, <3>2
      <4> QED  BY <1>1, <2>2, <4>1 DEF SentSound
    <3> QED  BY <3>1, <3>2
  <2>3. ASSUME NEW k \in DOMAIN decided'
        PROVE  \E q \in DOMAIN answers' :
                 answers'[q] \in Decisions /\ sent[q].key = k /\ decided'[k] = <<sent[q], answers'[q]>>
    <3>1. CASE k \in DOMAIN decided  BY <1>1, <1>3, <3>1 DEF SentSound
    <3>2. CASE k \notin DOMAIN decided
      <4>1. k = sent[p].key /\ code \in Decisions  BY <1>2, <3>2 DEF Put
      <4> QED  BY <1>3, <2>1, <4>1
    <3> QED  BY <3>1, <3>2
  <2>4. \A q \in DOMAIN answers' : q \in DOMAIN sent  BY <1>1, <1>3 DEF SentSound
  <2> QED  BY <1>1, <2>2, <2>3, <2>4 DEF SentSound
<1> QED  BY <1>4, <1>5, <1>6, <1>7

LEMMA InitCommand == Init => CommandInv
<1> SUFFICES ASSUME Init PROVE CommandInv  OBVIOUS
<1>1. /\ DOMAIN disk = {} /\ DOMAIN runs = {} /\ DOMAIN sent = {} /\ DOMAIN answers = {}
      /\ DOMAIN decided = {} /\ reports = {}
  BY DEF Init, Nothing
<1>2. IsFiniteSet({}) /\ Cardinality({}) = 0 /\ {} = 1..0  BY FS_EmptySet
<1> QED
  BY <1>1, <1>2 DEF CommandInv, RunsSound, JournalsSound, PlacesSound, SentSound, ReportsSound

LEMMA CommandStep == CommandInv /\ Next => CommandInv'
<1> SUFFICES ASSUME CommandInv, Next PROVE CommandInv'  OBVIOUS
<1>1. ASSUME NEW c \in Commands, NEW k \in SuppliedKeys \cup {None}, Start(c, k) PROVE CommandInv'
  BY <1>1, StartRun
<1>2. ASSUME NEW f \in DOMAIN disk, Retry(f) PROVE CommandInv'  BY <1>2, RetryRun
<1>3. ASSUME NEW p \in Runs,
             \/ FailEarly(p) \/ NotSent(p) \/ GiveUp(p) \/ Receive(p) \/ Show(p) \/ Kill(p)
      PROVE  CommandInv'
  BY <1>3, EndingSteps
<1>4. ASSUME NEW p \in Runs, Save(p) \/ Prepared(p) \/ Send(p) \/ Handle(p) PROVE CommandInv'
  BY <1>4, SaveRun, PreparedRun, SendRun, HandleStep
<1>5. CASE PowerLoss  BY <1>5, PowerIsLost
<1>6. CASE ChangeCredential
  BY <1>6 DEF ChangeCredential, CommandInv, RunsSound, JournalsSound, PlacesSound, SentSound,
    ReportsSound, ReportSound
<1> QED  BY <1>1, <1>2, <1>3, <1>4, <1>5, <1>6 DEF Next

\* What a journal was sent for is one decision, of the key that it has.
LEMMA OneDecision ==
  ASSUME CommandInv, NEW f \in DOMAIN disk
  PROVE  {k \in DOMAIN decided : decided[k][2] = "success" /\
            \E p \in DOMAIN sent : sent[p] = decided[k][1] /\ (p = f \/ runs[p].journal = f)}
         \subseteq {disk[f].write.key}
<1> USE DEF CommandInv
<1> SUFFICES ASSUME NEW k \in DOMAIN decided, NEW p \in DOMAIN sent,
                    sent[p] = decided[k][1], p = f \/ runs[p].journal = f
             PROVE  k = disk[f].write.key
  OBVIOUS
<1>1. PICK q \in DOMAIN answers : sent[q].key = k /\ decided[k] = <<sent[q], answers[q]>>
  BY DEF SentSound
<1>2. sent[p].key = k  BY <1>1
<1>3. p \in DOMAIN runs /\ sent[p] = runs[p].write /\ runs[p].journal # None  BY DEF SentSound
<1>4. runs[p].journal = f
  BY <1>3 DEF JournalsSound, PlacesSound
<1> QED  BY <1>2, <1>3, <1>4 DEF PlacesSound

LEMMA CommandTells ==
  ASSUME CommandInv
  PROVE  SentIsSaved /\ ReportsAreTrue /\ UnknownIsRecoverable /\ JournalAppliesOnce
<1> USE DEF CommandInv
<1>1. SentIsSaved  BY DEF SentIsSaved, SentSound, PlacesSound
<1>2. ReportsAreTrue
  <2>1. ASSUME NEW r \in reports, r.outcome = "success" \/ r.operation = "success"
        PROVE  Applied(runs[r.run].write)
    <3>1. r.run \in DOMAIN answers /\ answers[r.run] = "success"
      BY <2>1 DEF ReportsSound, ReportSound
    <3> QED  BY <3>1 DEF Applied, SentSound, Decisions
  <2>2. ASSUME NEW r \in reports, r.outcome = "failure", r.operation = None, Alone(r.run),
               Applied(runs[r.run].write)
        PROVE  FALSE
    <3> DEFINE w == runs[r.run].write
    <3>1. w.key \in DOMAIN decided /\ decided[w.key] = <<w, "success">>  BY <2>2 DEF Applied
    <3>2. PICK q \in DOMAIN answers :
            sent[q].key = w.key /\ decided[w.key] = <<sent[q], answers[q]>>
      BY <3>1 DEF SentSound
    <3>3. answers[q] = "success"  BY <3>1, <3>2
    <3>4. q \in DOMAIN runs /\ q \in DOMAIN sent /\ runs[q].write = sent[q]  BY DEF SentSound
    <3>5. q = r.run  BY <2>2, <3>2, <3>4 DEF Alone
    <3> QED  BY <2>2, <3>3, <3>4, <3>5 DEF ReportsSound, ReportSound
  <2> QED  BY <2>1, <2>2 DEF ReportsAreTrue
<1>3. UnknownIsRecoverable
  <2> SUFFICES ASSUME NEW r \in reports, r.outcome = "unknown"
               PROVE  /\ r.recovery \in DOMAIN disk
                      /\ disk[r.recovery].write = runs[r.run].write
                      /\ runs[r.recovery].journal # None => r.recovery \in Named
    BY DEF UnknownIsRecoverable
  <2>1. r.run \in DOMAIN runs /\ r.recovery # None /\ r.recovery = runs[r.run].journal
    BY DEF ReportsSound, ReportSound
  <2>2. r.recovery \in DOMAIN disk /\ disk[r.recovery].write = runs[r.run].write
    BY <2>1 DEF PlacesSound
  <2>3. r.recovery \in DOMAIN runs /\ ~runs[r.recovery].retry  BY <2>2 DEF JournalsSound
  <2>4. runs[r.recovery].journal # None => disk[r.recovery].stage = "saved"
    BY <2>3 DEF PlacesSound
  <2> QED  BY <2>2, <2>4 DEF Named
<1>4. JournalAppliesOnce
  <2> SUFFICES ASSUME NEW f \in DOMAIN disk
               PROVE  Cardinality({k \in DOMAIN decided : decided[k][2] = "success" /\
                        \E p \in DOMAIN sent :
                          sent[p] = decided[k][1] /\ (p = f \/ runs[p].journal = f)}) <= 1
    BY DEF JournalAppliesOnce
  <2> DEFINE K == {k \in DOMAIN decided : decided[k][2] = "success" /\
                     \E p \in DOMAIN sent :
                       sent[p] = decided[k][1] /\ (p = f \/ runs[p].journal = f)}
  <2>1. K \subseteq {disk[f].write.key}  BY OneDecision
  <2>2. IsFiniteSet({disk[f].write.key}) /\ Cardinality({disk[f].write.key}) = 1
    BY FS_Singleton
  <2> HIDE DEF K
  <2>3. Cardinality(K) <= 1  BY <2>1, <2>2, FS_Subset
  <2> QED  BY <2>3 DEF K
<1> QED  BY <1>1, <1>2, <1>3, <1>4
-----------------------------------------------------------------------------
(* One operation of the retained client: what aborts it. *)

LEMMA Times == OperationTime \in Nat \ {0} /\ ExchangeTime \in Nat \ {0} /\ CleanupTime \in Nat \ {0}
BY ClientsAssumption DEF Operation!TimesArePositive

LEMMA SignalsAre ==
  ASSUME NEW s \in Signals
  PROVE  /\ s \in Seq(Causes) /\ Len(s) \in Nat /\ DOMAIN s = 1..Len(s)
         /\ \A i \in 1..Len(s) : s[i] \in {"caller", "operation", "exchange"}
         /\ s = <<>> <=> Len(s) = 0
         /\ s # <<>> => 1 \in DOMAIN s
<1>1. s \in Seq(Causes)  BY DEF Signals
<1>2. Len(s) \in Nat /\ DOMAIN s = 1..Len(s) /\ \A i \in 1..Len(s) : s[i] \in Causes
  BY <1>1, LenProperties, ElementOfSeq
<1>3. s # <<>> => Len(s) \in Nat \ {0}  BY <1>1, EmptySeq
<1>4. s = <<>> => Len(s) = 0  OBVIOUS
<1> QED  BY <1>1, <1>2, <1>3, <1>4 DEF Causes

\* What aborted the operation itself, in the same order.
LEMMA OwnIs ==
  ASSUME NEW s \in Signals
  PROVE  /\ Operation!Own(s) \in Signals
         /\ \A j \in DOMAIN Operation!Own(s) : Operation!Own(s)[j] # "exchange"
         /\ Operation!Own(s) = <<>> => \A j \in DOMAIN s : s[j] = "exchange"
         /\ s # <<>> /\ s[1] # "exchange" =>
              Operation!Own(s) # <<>> /\ Operation!Own(s)[1] = s[1]
<1> DEFINE o == Operation!Own(s)
<1>1. /\ s \in Seq(Causes) /\ Len(s) \in Nat /\ DOMAIN s = 1..Len(s)
      /\ s = <<>> <=> Len(s) = 0
  BY SignalsAre
<1>2. CASE ~\E i \in DOMAIN s : s[i] = "exchange"
  <2>1. o = s  BY <1>2 DEF Operation!Own
  <2>2. Operation!Own(s) = <<>> => \A j \in DOMAIN s : s[j] = "exchange"  BY <1>1, <2>1
  <2> QED  BY <1>2, <2>1, <2>2
<1>3. CASE \E i \in DOMAIN s : s[i] = "exchange"
  <2> DEFINE i == CHOOSE i \in DOMAIN s : s[i] = "exchange"
             n == Len(s)
             a == SubSeq(s, 1, i - 1)
             b == SubSeq(s, i + 1, n)
  <2>1. i \in 1..n /\ s[i] = "exchange" /\ n \in Nat /\ DOMAIN s = 1..n  BY <1>1, <1>3
  <2>2. o = a \o b  BY <1>3 DEF Operation!Own
  <2>3. \A j \in 1..n : s[j] \in Causes  BY <1>1, ElementOfSeq
  <2> HIDE DEF i, o, n
  <2>4. /\ a \in Seq(Causes) /\ Len(a) = i - 1
        /\ \A j \in 1..(i - 1) : a[j] = s[j]
    <3>1. i - 1 \in Int /\ 1 \in Int /\ \A j \in 1..(i - 1) : s[j] \in Causes
      BY <2>1, <2>3
    <3>2. /\ a \in Seq(Causes)
          /\ Len(a) = IF 1 <= i - 1 THEN (i - 1) - 1 + 1 ELSE 0
          /\ \A j \in 1..((i - 1) - 1 + 1) : a[j] = s[1 + j - 1]
      BY <3>1, SubSeqProperties
    <3> QED  BY <2>1, <3>2
  <2>5. /\ b \in Seq(Causes) /\ Len(b) = n - i
        /\ \A j \in 1..(n - i) : b[j] = s[i + j]
    <3>1. i + 1 \in Int /\ n \in Int /\ \A j \in (i + 1)..n : s[j] \in Causes
      BY <2>1, <2>3
    <3>2. /\ b \in Seq(Causes)
          /\ Len(b) = IF i + 1 <= n THEN n - (i + 1) + 1 ELSE 0
          /\ \A j \in 1..(n - (i + 1) + 1) : b[j] = s[i + 1 + j - 1]
      BY <3>1, SubSeqProperties
    <3> HIDE DEF b
    <3>3. \A j \in 1..(n - i) : i + 1 + j - 1 = i + j  BY <2>1
    <3>4. n - (i + 1) + 1 = n - i /\ (i + 1 <= n \/ n - i = 0)  BY <2>1
    <3> QED  BY <3>2, <3>3, <3>4
  <2> HIDE DEF a, b
  <2>6. /\ o \in Seq(Causes) /\ Len(o) = n - 1
        /\ \A j \in 1..(n - 1) : o[j] = s[IF j < i THEN j ELSE j + 1]
    <3>1. /\ o \in Seq(Causes) /\ Len(o) = Len(a) + Len(b)
          /\ \A j \in 1..(Len(a) + Len(b)) : o[j] = IF j <= Len(a) THEN a[j] ELSE b[j - Len(a)]
      BY <2>2, <2>4, <2>5, ConcatProperties
    <3>2. Len(o) = n - 1  BY <2>1, <2>4, <2>5, <3>1
    <3>3. ASSUME NEW j \in 1..(n - 1) PROVE o[j] = s[IF j < i THEN j ELSE j + 1]
      <4>1. CASE j < i
        <5>1. j \in 1..(i - 1) /\ j <= Len(a) /\ j \in 1..(Len(a) + Len(b))
          BY <2>1, <2>4, <2>5, <4>1
        <5> QED  BY <2>4, <3>1, <4>1, <5>1
      <4>2. CASE ~(j < i)
        <5>1. /\ j \in 1..(Len(a) + Len(b)) /\ ~(j <= Len(a)) /\ j - Len(a) = j - (i - 1)
              /\ j - (i - 1) \in 1..(n - i) /\ i + (j - (i - 1)) = j + 1
          BY <2>1, <2>4, <2>5, <4>2
        <5>2. o[j] = b[j - (i - 1)]  BY <3>1, <5>1
        <5> QED  BY <2>5, <4>2, <5>1, <5>2
      <4> QED  BY <4>1, <4>2
    <3> QED  BY <3>1, <3>2, <3>3
  <2>7. DOMAIN o = 1..(n - 1)  BY <2>1, <2>6, LenProperties
  <2>8. \A j, k \in 1..n : s[j] = s[k] => j = k  BY <1>1 DEF Signals, n
  <2>9. o \in Signals
    <3>1. ASSUME NEW j \in 1..(n - 1), NEW k \in 1..(n - 1), o[j] = o[k] PROVE j = k
      BY <2>1, <2>6, <2>8, <3>1
    <3> QED  BY <2>6, <2>7, <3>1 DEF Signals
  <2>10. \A j \in DOMAIN o : o[j] # "exchange"  BY <2>1, <2>6, <2>7, <2>8
  <2>11. o = <<>> => \A j \in DOMAIN s : s[j] = "exchange"
    <3>1. o = <<>> => n - 1 = 0  BY <2>6
    <3> QED  BY <2>1, <3>1
  <2>12. s[1] # "exchange" => o # <<>> /\ o[1] = s[1]
    <3>1. ASSUME s[1] # "exchange" PROVE o # <<>> /\ o[1] = s[1]
      <4>1. 1 < i /\ 1 \in 1..(n - 1)  BY <2>1, <3>1
      <4> QED  BY <2>6, <4>1
    <3> QED  BY <3>1
  <2> QED  BY <2>9, <2>10, <2>11, <2>12 DEF o
<1> QED  BY <1>2, <1>3

\* A cause that is new comes last.
LEMMA AppendedIs ==
  ASSUME NEW s \in Signals, NEW cause \in Causes, ~In(cause, s)
  PROVE  /\ Append(s, cause) \in Signals
         /\ Append(s, cause) # <<>>
         /\ Append(s, cause)[1] = IF s = <<>> THEN cause ELSE s[1]
         /\ s = <<>> => Append(s, cause) = <<cause>>
         /\ \A c : In(c, Append(s, cause)) <=> In(c, s) \/ c = cause
<1>1. /\ s \in Seq(Causes) /\ Len(s) \in Nat /\ DOMAIN s = 1..Len(s)
      /\ s = <<>> <=> Len(s) = 0
  BY SignalsAre
<1> DEFINE a == Append(s, cause)
<1>2. /\ a \in Seq(Causes) /\ a # <<>> /\ Len(a) = Len(s) + 1
      /\ \A i \in 1..Len(s) : a[i] = s[i]
      /\ a[Len(s) + 1] = cause
  BY <1>1, AppendProperties
<1>3. s = <<>> => a = <<cause>>  OBVIOUS
<1> HIDE DEF a
<1>4. DOMAIN a = 1..(Len(s) + 1)  BY <1>1, <1>2, LenProperties
<1>5. \A i, j \in 1..Len(s) : s[i] = s[j] => i = j  BY <1>1 DEF Signals
<1>6. \A i \in 1..Len(s) : s[i] # cause  BY <1>1 DEF In
<1>7. a \in Signals
  <2>1. ASSUME NEW i \in 1..(Len(s) + 1), NEW j \in 1..(Len(s) + 1), a[i] = a[j] PROVE i = j
    BY <1>1, <1>2, <1>5, <1>6, <2>1
  <2> QED  BY <1>2, <1>4, <2>1 DEF Signals
<1>8. a[1] = IF s = <<>> THEN cause ELSE s[1]  BY <1>1, <1>2
<1>9. ASSUME NEW c PROVE In(c, a) <=> In(c, s) \/ c = cause
  <2>1. ASSUME NEW i \in 1..(Len(s) + 1), a[i] = c PROVE In(c, s) \/ c = cause
    BY <1>1, <1>2, <2>1 DEF In
  <2>2. ASSUME NEW i \in 1..Len(s), s[i] = c PROVE In(c, a)
    <3>1. i \in 1..(Len(s) + 1) /\ a[i] = c  BY <1>1, <1>2, <2>2
    <3> QED  BY <1>4, <3>1 DEF In
  <2>3. c = cause => In(c, a)
    <3>1. Len(s) + 1 \in 1..(Len(s) + 1)  BY <1>1
    <3> QED  BY <1>2, <1>4, <3>1 DEF In
  <2> QED  BY <1>1, <1>4, <2>1, <2>2, <2>3 DEF In
<1> QED  BY <1>2, <1>3, <1>7, <1>8, <1>9 DEF a

\* A signal that came before keeps its place.
LEMMA WithIs ==
  ASSUME signals \in Signals, NEW cause \in Causes
  PROVE  /\ Operation!With(cause) \in Signals
         /\ Operation!With(cause) # <<>>
         /\ Operation!With(cause)[1] = IF signals = <<>> THEN cause ELSE signals[1]
         /\ signals = <<>> => Operation!With(cause) = <<cause>>
<1>1. Operation!Has(cause) <=> In(cause, signals)  BY DEF Operation!Has, In
<1>2. CASE In(cause, signals)
  <2>1. Operation!With(cause) = signals  BY <1>1, <1>2 DEF Operation!With
  <2>2. signals # <<>>  BY <1>2, SignalsAre DEF In
  <2> QED  BY <2>1, <2>2
<1>3. CASE ~In(cause, signals)
  <2>1. Operation!With(cause) = Append(signals, cause)  BY <1>1, <1>3 DEF Operation!With
  <2> QED  BY <1>3, <2>1, AppendedIs
<1> QED  BY <1>2, <1>3

\* The deadline of an exchange is an end of its own when it comes first and alone.
LEMMA LabelIs ==
  ASSUME NEW s \in Signals, s # <<>>, s[1] = "exchange" => s = <<"exchange">>
  PROVE  /\ Operation!ExchangeLabel(s) \in {"aborted", "timeout"}
         /\ Causing(Operation!ExchangeLabel(s), s)
<1>1. Operation!ExchangeLabel(s) = IF \E i \in DOMAIN s : s[i] # "exchange" THEN "aborted" ELSE "timeout"
  BY DEF Operation!ExchangeLabel
<1>2. CASE s[1] # "exchange"
  <2>1. 1 \in DOMAIN s  BY SignalsAre
  <2>2. Operation!ExchangeLabel(s) = "aborted"  BY <1>1, <1>2, <2>1
  <2> QED  BY <1>2, <2>2 DEF Causing
<1>3. CASE s = <<"exchange">>
  <2>1. ~\E i \in DOMAIN s : s[i] # "exchange"  BY <1>3
  <2>2. Operation!ExchangeLabel(s) = "timeout"  BY <1>1, <2>1
  <2> QED  BY <1>3, <2>2 DEF Causing
<1> QED  BY <1>2, <1>3

LEMMA LabelInSet ==
  ASSUME NEW s
  PROVE  Operation!ExchangeLabel(s) \in {"aborted", "timeout"}
BY DEF Operation!ExchangeLabel

\* What a check finds.
LEMMA CheckIs ==
  ASSUME signals \in Signals, exchange \in Exchanges, NEW t \in Nat
  PROVE  /\ Operation!Checked(t) \in Signals
         /\ Operation!Checked(t) = <<>> => signals = <<>> /\ t < exchange.started + ExchangeTime
         /\ Operation!Checked(t) # <<>> /\ signals \in {<<>>, <<"caller">>} =>
              Causing(Operation!ExchangeLabel(Operation!Checked(t)), Operation!Checked(t))
<1> DEFINE c == Operation!Checked(t)
<1>1. exchange.started \in Nat /\ ExchangeTime \in Nat  BY Times DEF Exchanges
<1>2. CASE exchange.started + ExchangeTime <= t
  <2>1. c = Operation!With("exchange")  BY <1>2 DEF Operation!Checked
  <2>2. "exchange" \in Causes  BY DEF Causes
  <2>3. /\ c \in Signals /\ c # <<>>
        /\ c[1] = IF signals = <<>> THEN "exchange" ELSE signals[1]
        /\ signals = <<>> => c = <<"exchange">>
    BY <2>1, <2>2, WithIs
  <2> HIDE DEF c
  <2>4. signals \in {<<>>, <<"caller">>} => (c[1] = "exchange" => c = <<"exchange">>)
    BY <2>3
  <2>5. signals \in {<<>>, <<"caller">>} => Causing(Operation!ExchangeLabel(c), c)
    BY <2>3, <2>4, LabelIs
  <2> QED  BY <2>3, <2>5 DEF c
<1>3. CASE ~(exchange.started + ExchangeTime <= t)
  <2>1. c = signals  BY <1>3 DEF Operation!Checked
  <2> HIDE DEF c
  <2>2. signals = <<"caller">> => signals # <<>> /\ signals[1] # "exchange"  OBVIOUS
  <2>3. signals = <<"caller">> => Causing(Operation!ExchangeLabel(c), c)
    BY <2>1, <2>2, LabelIs
  <2> QED  BY <1>1, <1>3, <2>1, <2>3 DEF c
<1> QED  BY <1>2, <1>3

LEMMA CheckOperationIs ==
  ASSUME signals \in Signals, now \in Nat
  PROVE  /\ Operation!CheckedOperation \in Signals
         /\ Operation!CheckedOperation = <<>> => now < OperationTime
         /\ Operation!CheckedOperation # <<>> /\ signals \in {<<>>, <<"caller">>} =>
              Operation!CheckedOperation[1] # "exchange"
<1>1. "operation" \in Causes /\ OperationTime \in Nat  BY Times DEF Causes
<1>2. CASE OperationTime <= now
  <2>1. Operation!CheckedOperation = Operation!With("operation")
    BY <1>2 DEF Operation!CheckedOperation
  <2>2. signals = <<"caller">> => signals[1] # "exchange"  OBVIOUS
  <2> QED  BY <1>1, <2>1, <2>2, WithIs
<1>3. CASE ~(OperationTime <= now)
  <2>1. Operation!CheckedOperation = signals  BY <1>3 DEF Operation!CheckedOperation
  <2>2. signals = <<"caller">> => signals[1] # "exchange"  OBVIOUS
  <2> QED  BY <1>1, <1>3, <2>1, <2>2
<1> QED  BY <1>2, <1>3

\* The operation names the first of its two signals.
LEMMA NamedIs ==
  ASSUME NEW code, NEW causes \in Signals, Causing(code, causes), plan[1] # "probe",
         Operation!Label(code, causes) \in {"aborted", "timeout"}
  PROVE  causes # <<>> /\ (Operation!Label(code, causes) = "aborted" <=> causes[1] = "caller")
<1> DEFINE label == Operation!Label(code, causes)
           own == Operation!Own(causes)
<1>1. label = IF code = "aborted" /\ own # <<>> /\ Head(own) = "operation" THEN "timeout" ELSE code
  BY DEF Operation!Label
<1>2. code \in {"aborted", "timeout"}  BY <1>1
<1>3. causes # <<>> /\ (code = "aborted" <=> causes[1] # "exchange")  BY <1>2 DEF Causing
<1>4. causes[1] \in {"caller", "operation", "exchange"}  BY <1>3, SignalsAre
<1>5. CASE code = "timeout"  BY <1>1, <1>3, <1>4, <1>5
<1>6. CASE code = "aborted"
  <2>1. own \in Signals /\ own # <<>> /\ own[1] = causes[1]  BY <1>3, <1>6, OwnIs
  <2>2. Head(own) = causes[1]
    <3> HIDE DEF own
    <3> QED  BY <2>1, SignalsAre
  <2>3. label = IF causes[1] = "operation" THEN "timeout" ELSE "aborted"
    BY <1>1, <1>6, <2>1, <2>2
  <2> QED  BY <1>3, <1>4, <1>6, <2>3
<1> QED  BY <1>2, <1>5, <1>6
-----------------------------------------------------------------------------
(* One operation of the retained client: its steps. *)

LEMMA NoneIsNoEnd == None \notin Nat /\ None \notin Failures /\ None \notin {"settled", "cap-exceeded"}
BY NoneIsNothing DEF Failures, Words

LEMMA ResultsAreSomething == ASSUME NEW r \in Results PROVE r # None
<1>1. r \in [code : Words, submission : Words, settlement : Words \cup {None}, body : Words]
  BY DEF Results, Failures, Words
<1> QED  BY <1>1, NoneIsNothing

\* An end that is so.
LEMMA OperationEnds ==
  ASSUME OperationInv, NEW code \in {"answer", "invalid-input", "network"} \cup Failures,
         NEW causes \in Signals, NEW e \in Exchanges,
         NEW settlement \in {None, "settled", "cap-exceeded"},
         Operation!Ends(code, causes, e, settlement),
         e.body # "open", e.submitted => plan[1] = "submit", dispatched # 0 => e.submitted,
         settlement = "settled" => e.fetch # "running" /\ e.body # "pending",
         code = "answer" => now < OperationTime, Causing(code, causes)
  PROVE  OperationInv'
<1> DEFINE label == Operation!Label(code, causes)
           submission == IF e.submitted THEN "unknown" ELSE "not-submitted"
<1>1. /\ at' = "over" /\ signals' = causes /\ exchange' = [e EXCEPT !.window = None]
      /\ plan' = plan /\ now' = now /\ dispatched' = dispatched
      /\ result' = [code |-> label, submission |-> submission, settlement |-> settlement,
                    body |-> e.body]
  BY DEF Operation!Ends, Operation!Submission
<1>2. label = code \/ (label = "timeout" /\ code = "aborted")  BY DEF Operation!Label
<1>3. plan[1] # "probe" /\ label \in {"aborted", "timeout"} =>
        causes # <<>> /\ (label = "aborted" <=> causes[1] = "caller")
  BY NamedIs
<1> HIDE DEF label
<1>4. /\ exchange' \in Exchanges /\ exchange'.submitted = e.submitted /\ exchange'.body = e.body
      /\ exchange'.fetch = e.fetch
  BY <1>1 DEF Exchanges
<1>5. OperationTypes'  BY <1>1, <1>4 DEF OperationInv, OperationTypes
<1>6. PlanSound'  BY <1>1 DEF OperationInv, PlanSound
<1>7. DispatchSound'  BY <1>1, <1>4 DEF DispatchSound
<1>8. SignalsSound' /\ FailureSound'  BY <1>1 DEF SignalsSound, FailureSound
<1>9. ClockSound'  BY <1>1 DEF ClockSound, Cleaning
<1>10. ResultSound'
  <2>1. label \in {"answer", "invalid-input", "network"} \cup Failures  BY <1>2 DEF Failures
  <2>2. e.body \in {"none", "null", "pending", "completed", "failed", "read"}  BY DEF Exchanges
  <2>3. result' \in Results  BY <1>1, <2>1, <2>2 DEF Results
  <2>4. /\ result'.code = label /\ result'.submission = submission
        /\ result'.settlement = settlement /\ result'.body = e.body
    BY <1>1
  <2>5. submission = "not-submitted" => ~e.submitted  OBVIOUS
  <2> HIDE DEF submission
  <2> QED  BY <1>1, <1>2, <1>3, <1>4, <2>3, <2>4, <2>5 DEF ResultSound
<1> QED  BY <1>5, <1>6, <1>7, <1>8, <1>9, <1>10 DEF OperationInv

\* A cleanup begins in time.
LEMMA OperationCleans ==
  ASSUME OperationInv, at \notin {"between", "over"}, NEW where \in Cleaning,
         NEW code \in Failures \cup {None}, NEW causes \in Signals, NEW e \in Exchanges, NEW t \in Nat,
         Operation!Cleans(where, code, causes, e, t), now <= t,
         e.started = exchange.started, e.submitted = exchange.submitted,
         e.fetch = "running" => where = "settling",
         where = "probing" => plan[1] = "probe",
         where # "probing" => code # None /\ Causing(code, causes),
         where = "settling" => code \in {"aborted", "timeout"},
         where = "cancelling" => code # "redirect",
         code = "broken" => e.body = "failed" /\ causes \in {<<>>, <<"caller">>},
         t <= e.started + ExchangeTime + IF where = "closing" THEN CleanupTime ELSE 0,
         code = "redirect" /\ plan[1] = "follow" => t <= OperationTime \/ In("operation", causes)
  PROVE  OperationInv'
<1> DEFINE body == IF e.body = "open" THEN "pending" ELSE e.body
           window == t + CleanupTime
<1>1. /\ at' = where /\ signals' = causes /\ now' = t
      /\ exchange' = [e EXCEPT !.body = body, !.failure = code, !.window = window]
      /\ plan' = plan /\ dispatched' = dispatched /\ result' = result
  BY DEF Operation!Cleans, Operation!Cancelled, Exchanges
<1>2. /\ body \in {"none", "null", "pending", "completed", "failed", "read"}
      /\ e.body = "failed" => body = "failed"
  BY DEF Exchanges
<1>3. /\ window \in Nat /\ t <= window /\ now \in Nat /\ exchange.started \in Nat
      /\ e.started \in Nat /\ ExchangeTime \in Nat /\ CleanupTime \in Nat /\ OperationTime \in Nat
      /\ window = t + CleanupTime
  BY Times DEF OperationInv, OperationTypes, Exchanges
<1> HIDE DEF body, window
<1>4. /\ exchange' \in Exchanges /\ exchange'.submitted = e.submitted /\ exchange'.body = body
      /\ exchange'.fetch = e.fetch /\ exchange'.failure = code /\ exchange'.window = window
      /\ exchange'.started = e.started
  BY <1>1, <1>2, <1>3 DEF Exchanges
<1>5. where \in {"probing", "settling", "cancelling", "closing"}  BY DEF Cleaning
<1>6. OperationTypes'  BY <1>1, <1>4 DEF OperationInv, OperationTypes
<1>7. PlanSound'  BY <1>1 DEF OperationInv, PlanSound
<1>8. DispatchSound'  BY <1>1, <1>2, <1>4, <1>5 DEF OperationInv, DispatchSound
<1>9. SignalsSound'  BY <1>1, <1>5 DEF SignalsSound
<1>10. FailureSound'
  <2>1. where # "probing" => Causing(exchange.failure, signals)'
    BY <1>1, <1>4 DEF Causing
  <2> QED  BY <1>1, <1>2, <1>4, <1>5, <2>1 DEF FailureSound
<1>11. Began'  BY <1>1, <1>3, <1>4 DEF OperationInv, ClockSound, Began
<1>12. ClockSound'
  <2>1. /\ at' \in Cleaning /\ exchange'.window \in Nat /\ now' <= exchange'.window
        /\ where # "closing" => exchange'.window <= exchange'.started + ExchangeTime + CleanupTime
        /\ exchange'.window <= exchange'.started + ExchangeTime + 2 * CleanupTime
    BY <1>1, <1>3, <1>4
  <2>2. exchange'.failure = "redirect" /\ plan'[1] = "follow" =>
          now' <= OperationTime \/ In("operation", signals')
    BY <1>1, <1>4
  <2>3. In("operation", signals)' <=> In("operation", signals')  BY DEF In
  <2> QED  BY <1>1, <1>5, <1>11, <2>1, <2>2, <2>3 DEF ClockSound, Cleaning
<1>13. ResultSound'  BY <1>1, <1>5 DEF OperationInv, ResultSound
<1> QED  BY <1>6, <1>7, <1>8, <1>9, <1>10, <1>12, <1>13 DEF OperationInv

LEMMA OperationFacts ==
  ASSUME OperationInv
  PROVE  /\ now \in Nat /\ exchange \in Exchanges /\ exchange.started \in Nat /\ signals \in Signals
         /\ <<>> \in Signals
         /\ plan \in Seq({"probe", "read", "follow", "submit", "alias"}) /\ plan # <<>>
         /\ Operation!Kind = plan[1] /\ 1 \in DOMAIN plan /\ Len(plan) \in Nat
         /\ DOMAIN plan = 1..Len(plan)
         /\ at \notin {"reading"} => exchange.body # "open"
         /\ at \notin {"fetching", "settling", "over"} => exchange.fetch # "running"
         /\ exchange.submitted => plan[1] = "submit"
         /\ dispatched # 0 => exchange.submitted
<1> USE DEF OperationInv
<1>1. /\ now \in Nat /\ exchange \in Exchanges /\ signals \in Signals  BY DEF OperationTypes
<1>2. exchange.started \in Nat  BY <1>1 DEF Exchanges
<1>3. <<>> \in Signals  BY DEF Signals
<1>4. /\ plan \in Seq({"probe", "read", "follow", "submit", "alias"}) /\ plan # <<>>  BY DEF PlanSound
<1>5. /\ Len(plan) \in Nat \ {0} /\ DOMAIN plan = 1..Len(plan)
  BY <1>4, EmptySeq, LenProperties
<1>6. Operation!Kind = plan[1] /\ 1 \in DOMAIN plan  BY <1>4, <1>5 DEF Operation!Kind
<1> QED  BY <1>1, <1>2, <1>3, <1>4, <1>5, <1>6 DEF DispatchSound

\* What names no abort needs no cause.
LEMMA NotCausing ==
  ASSUME NEW code, code \notin {"aborted", "timeout"}, NEW causes
  PROVE  Causing(code, causes)
BY DEF Causing

\* The next exchange comes in time.
LEMMA RespondedStep ==
  ASSUME OperationInv, at \in {"complete", "probing"}, signals \in {<<>>, <<"caller">>},
         now < exchange.started + ExchangeTime, Operation!Responded
  PROVE  OperationInv'
<1> DEFINE causes == Operation!CheckedOperation
<1>1. /\ causes \in Signals
      /\ causes = <<>> => now < OperationTime
      /\ causes # <<>> => causes[1] # "exchange"
  BY OperationFacts, CheckOperationIs
<1>2. /\ exchange \in Exchanges /\ exchange.body # "open" /\ exchange.fetch # "running"
      /\ exchange.submitted => plan[1] = "submit"
      /\ dispatched # 0 => exchange.submitted
      /\ now \in Nat /\ Operation!Kind = plan[1]
  BY OperationFacts
<1>3. CASE causes # <<>> /\ Operation!Ends("aborted", causes, exchange, None)
  <2>1. Causing("aborted", causes)  BY <1>1, <1>3 DEF Causing
  <2>2. "aborted" \in Failures  BY DEF Failures
  <2> HIDE DEF causes
  <2> QED  BY <1>1, <1>2, <1>3, <2>1, <2>2, OperationEnds, NoneIsNoEnd
<1>4. CASE \E code \in {"answer", "invalid-response"} :
             causes = <<>> /\ Operation!Ends(code, causes, exchange, None)
  <2>1. PICK code \in {"answer", "invalid-response"} :
          causes = <<>> /\ Operation!Ends(code, causes, exchange, None)
    BY <1>4
  <2>2. Causing(code, causes)  BY NotCausing
  <2>3. "invalid-response" \in Failures  BY DEF Failures
  <2> HIDE DEF causes
  <2> QED  BY <1>1, <1>2, <2>1, <2>2, <2>3, OperationEnds, NoneIsNoEnd
<1>5. CASE /\ Len(plan) > 1 /\ (causes = <<>> \/ Operation!Kind = "alias")
           /\ at' = "between" /\ plan' = Tail(plan) /\ exchange' = [exchange EXCEPT !.window = None]
           /\ UNCHANGED <<now, signals, result, dispatched>>
  <2>1. /\ plan' \in Seq({"probe", "read", "follow", "submit", "alias"})
        /\ Len(plan') = Len(plan) - 1
        /\ \A i \in 1..Len(plan') : plan'[i] = plan[i + 1]
    BY <1>5, OperationFacts, HeadTailProperties
  <2>2. /\ Len(plan) \in Nat /\ Len(plan) > 1 /\ DOMAIN plan = 1..Len(plan)
        /\ DOMAIN plan' = 1..Len(plan') /\ plan' # <<>>
    <3>1. Len(plan) \in Nat /\ Len(plan) > 1 /\ DOMAIN plan = 1..Len(plan)
      BY <1>5, OperationFacts
    <3>2. DOMAIN plan' = 1..Len(plan')  BY <2>1, LenProperties
    <3>3. plan' # <<>>  BY <2>1, <3>1
    <3> QED  BY <3>1, <3>2, <3>3
  <2>3. /\ \A i \in 1..Len(plan) : plan[i] = "submit" => i = Len(plan)
        /\ \A i \in 1..Len(plan) : plan[i] = "alias" => i = 1 /\ plan[2] = "read"
        /\ plan[1] # "submit" /\ (plan[1] = "alias" => plan[2] = "read")
    <3>1. \A i \in DOMAIN plan : plan[i] = "submit" => i = Len(plan)
      BY DEF OperationInv, PlanSound
    <3>2. \A i \in DOMAIN plan : plan[i] = "alias" => i = 1 /\ plan[2] = "read"
      BY DEF OperationInv, PlanSound
    <3>3. 1 \in DOMAIN plan /\ 1 # Len(plan)  BY <1>5, OperationFacts
    <3>4. DOMAIN plan = 1..Len(plan)  BY <2>2
    <3> QED  BY <3>1, <3>2, <3>3, <3>4
  <2>4. PlanSound'
    <3>1. ASSUME NEW i \in 1..Len(plan')
          PROVE  plan'[i] # "alias" /\ (plan'[i] = "submit" => i = Len(plan'))
      <4>1. i + 1 \in 1..Len(plan) /\ plan'[i] = plan[i + 1] /\ i + 1 # 1  BY <2>1, <2>2
      <4> QED  BY <2>1, <2>2, <2>3, <4>1
    <3> QED  BY <2>1, <2>2, <3>1 DEF PlanSound
  <2>5. ~exchange.submitted  BY <1>2, <2>3
  <2>6. /\ exchange' \in Exchanges /\ exchange'.submitted = exchange.submitted
        /\ exchange'.body = exchange.body /\ exchange'.fetch = exchange.fetch
        /\ exchange'.started = exchange.started
    BY <1>2, <1>5 DEF Exchanges
  <2>7. OperationTypes'  BY <1>5, <2>6 DEF OperationInv, OperationTypes
  <2>8. DispatchSound'  BY <1>2, <1>5, <2>5, <2>6 DEF DispatchSound
  <2>9. SignalsSound' /\ FailureSound'  BY <1>5 DEF SignalsSound, FailureSound
  <2>10. ResultSound'  BY <1>5 DEF OperationInv, ResultSound
  <2>11. ClockSound'
    <3>1. Began  BY DEF OperationInv, ClockSound
    <3>2. plan'[1] = plan[2] /\ 2 \in 1..Len(plan)  BY <2>1, <2>2
    <3>3. /\ exchange.started \in Nat /\ OperationTime \in Nat /\ ExchangeTime \in Nat
          /\ CleanupTime \in Nat
      BY OperationFacts, Times
    <3> HIDE DEF causes
    <3>4. now <= OperationTime + ExchangeTime
      BY <1>1, <1>2, <1>5, <3>1, <3>3 DEF Began
    <3>5. plan'[1] \in {"alias", "follow"} => now <= OperationTime
      <4>1. plan[1] = "alias" => plan[2] = "read"  BY <2>3
      <4> QED  BY <1>1, <1>2, <1>5, <3>2, <3>3, <4>1
    <3>6. Begins'  BY <1>5, <3>4, <3>5 DEF Begins
    <3>7. /\ now <= exchange.started + ExchangeTime + 2 * CleanupTime
          /\ exchange.started <= OperationTime + ExchangeTime
      BY <1>2, <3>1, <3>3 DEF Began
    <3> QED  BY <1>5, <2>6, <3>6, <3>7 DEF ClockSound, Cleaning
  <2> QED  BY <2>4, <2>7, <2>8, <2>9, <2>10, <2>11 DEF OperationInv
<1> QED  BY <1>3, <1>4, <1>5 DEF Operation!Responded

LEMMA BeginExchange ==
  ASSUME OperationInv, Operation!Begin
  PROVE  OperationInv'
<1> DEFINE causes == Operation!Own(signals)
           e == Operation!NewExchange
<1>1. /\ now \in Nat /\ signals \in Signals /\ exchange \in Exchanges /\ <<>> \in Signals
      /\ at = "between"
  BY OperationFacts DEF Operation!Begin
<1>2. /\ causes \in Signals
      /\ causes = <<>> => \A j \in DOMAIN signals : signals[j] = "exchange"
      /\ causes # <<>> => causes[1] # "exchange"
  <2>1. causes \in Signals /\ \A j \in DOMAIN causes : causes[j] # "exchange"
    BY <1>1, OwnIs
  <2>2. causes = <<>> => \A j \in DOMAIN signals : signals[j] = "exchange"
    BY <1>1, OwnIs
  <2>3. causes # <<>> => 1 \in DOMAIN causes  BY <2>1, SignalsAre
  <2> QED  BY <2>1, <2>2, <2>3
<1>3. /\ e \in Exchanges /\ e.body = "none" /\ e.fetch = "none" /\ ~e.submitted /\ e.started = now
  BY <1>1 DEF Operation!NewExchange, Exchanges
<1>4. dispatched = 0  BY <1>1 DEF OperationInv, DispatchSound
<1>5. CASE causes # <<>> /\ Operation!Ends("aborted", causes, e, None)
  <2>1. Causing("aborted", causes)  BY <1>2, <1>5 DEF Causing
  <2>2. "aborted" \in Failures  BY DEF Failures
  <2> HIDE DEF causes, e
  <2> QED  BY <1>2, <1>3, <1>4, <1>5, <2>1, <2>2, OperationEnds, NoneIsNoEnd
<1>6. CASE causes = <<>> /\ Operation!Ends("invalid-input", causes, e, None)
  <2>1. Causing("invalid-input", causes)  BY NotCausing
  <2> HIDE DEF causes, e
  <2> QED  BY <1>2, <1>3, <1>4, <1>6, <2>1, OperationEnds, NoneIsNoEnd
<1>7. CASE /\ causes = <<>> /\ at' = "credential" /\ exchange' = e /\ signals' = causes
           /\ UNCHANGED <<plan, now, result, dispatched>>
  <2>1. ~\E i \in DOMAIN signals : signals[i] # "exchange"  BY <1>2, <1>7
  <2>2. Begins  BY <1>1, <2>1 DEF OperationInv, ClockSound
  <2>3. now \in Nat /\ ExchangeTime \in Nat /\ OperationTime \in Nat  BY <1>1, Times
  <2> HIDE DEF causes, e
  <2>4. OperationTypes'  BY <1>1, <1>3, <1>7 DEF OperationInv, OperationTypes
  <2>5. PlanSound'  BY <1>7 DEF OperationInv, PlanSound
  <2>6. DispatchSound'  BY <1>3, <1>4, <1>7 DEF DispatchSound
  <2>7. SignalsSound' /\ FailureSound'  BY <1>7 DEF SignalsSound, FailureSound
  <2>8. ClockSound'
    <3>1. Began'  BY <1>3, <1>7, <2>2, <2>3 DEF Began, Begins
    <3> QED  BY <1>3, <1>7, <2>2, <2>3, <3>1 DEF ClockSound, Cleaning, Begins
  <2>9. ResultSound'  BY <1>1, <1>7 DEF OperationInv, ResultSound
  <2> QED  BY <2>4, <2>5, <2>6, <2>7, <2>8, <2>9 DEF OperationInv
<1> QED  BY <1>5, <1>6, <1>7 DEF Operation!Begin

LEMMA CredentialStep ==
  ASSUME OperationInv, Operation!Credential
  PROVE  OperationInv'
<1> DEFINE causes == Operation!Checked(now)
<1>1. at = "credential" /\ signals = <<>>
  BY DEF Operation!Credential, OperationInv, SignalsSound
<1>2. /\ now \in Nat /\ signals \in Signals /\ exchange \in Exchanges
      /\ exchange.body # "open"
      /\ exchange.submitted => plan[1] = "submit"
      /\ dispatched # 0 => exchange.submitted
  BY <1>1, OperationFacts
<1>3. /\ causes \in Signals
      /\ causes # <<>> => Causing(Operation!ExchangeLabel(causes), causes)
  BY <1>1, <1>2, CheckIs
<1>4. CASE Operation!Ends("invalid-input", signals, exchange, None)
  <2>1. Causing("invalid-input", signals)  BY NotCausing
  <2> QED  BY <1>2, <1>4, <2>1, OperationEnds, NoneIsNoEnd
<1>5. CASE causes # <<>> /\ Operation!Ends(Operation!ExchangeLabel(causes), causes, exchange, None)
  <2> HIDE DEF causes
  <2>1. Operation!ExchangeLabel(causes) \in {"aborted", "timeout"}  BY LabelInSet
  <2>2. Operation!ExchangeLabel(causes) \in Failures /\ Operation!ExchangeLabel(causes) # "answer"
    BY <2>1 DEF Failures
  <2> QED  BY <1>2, <1>3, <1>5, <2>2, OperationEnds, NoneIsNoEnd
<1>6. CASE at' = "dispatching" /\ UNCHANGED <<plan, now, signals, exchange, result, dispatched>>
  <2>1. OperationTypes' /\ PlanSound'  BY <1>6 DEF OperationInv, OperationTypes, PlanSound
  <2>2. DispatchSound'  BY <1>1, <1>6 DEF OperationInv, DispatchSound
  <2>3. SignalsSound' /\ FailureSound'  BY <1>1, <1>6 DEF SignalsSound, FailureSound
  <2>4. ClockSound'
    <3>1. Began' <=> Began  BY <1>6 DEF Began
    <3> QED  BY <1>1, <1>6, <3>1 DEF OperationInv, ClockSound, Cleaning
  <2>5. ResultSound'  BY <1>1, <1>6 DEF OperationInv, ResultSound
  <2> QED  BY <2>1, <2>2, <2>3, <2>4, <2>5 DEF OperationInv
<1> QED  BY <1>4, <1>5, <1>6 DEF Operation!Credential

LEMMA DispatchStep ==
  ASSUME OperationInv, Operation!Dispatch
  PROVE  OperationInv'
<1> DEFINE causes == Operation!Checked(now)
<1>1. at = "dispatching" /\ signals \in {<<>>, <<"caller">>}
  BY DEF Operation!Dispatch, OperationInv, SignalsSound
<1>2. /\ now \in Nat /\ signals \in Signals /\ exchange \in Exchanges /\ <<>> \in Signals
      /\ exchange.body = "none" /\ exchange.fetch = "none"
      /\ exchange.submitted => plan[1] = "submit"
      /\ dispatched # 0 => exchange.submitted
      /\ Operation!Kind = plan[1] /\ exchange.started \in Nat
  BY <1>1, OperationFacts DEF OperationInv, DispatchSound
<1>3. /\ causes \in Signals
      /\ causes = <<>> => signals = <<>>
      /\ causes # <<>> => Causing(Operation!ExchangeLabel(causes), causes)
  BY <1>1, <1>2, CheckIs
<1>4. CASE causes # <<>>
  <2>1. Operation!Ends(Operation!ExchangeLabel(causes), causes, exchange, "settled")
    BY <1>4 DEF Operation!Dispatch
  <2> HIDE DEF causes
  <2>2. Operation!ExchangeLabel(causes) \in {"aborted", "timeout"}  BY LabelInSet
  <2>3. Operation!ExchangeLabel(causes) \in Failures /\ Operation!ExchangeLabel(causes) # "answer"
    BY <2>2 DEF Failures
  <2> QED  BY <1>2, <1>3, <1>4, <2>1, <2>3, OperationEnds
<1>5. CASE causes = <<>>
  <2>1. /\ at' = "fetching" /\ UNCHANGED <<plan, now, signals, result>>
        /\ exchange' = [exchange EXCEPT !.submitted = Operation!Kind = "submit", !.fetch = "running"]
        /\ dispatched' = dispatched + IF Operation!Kind = "submit" THEN 1 ELSE 0
    BY <1>5 DEF Operation!Dispatch
  <2>2. signals = <<>>  BY <1>3, <1>5
  <2> HIDE DEF causes
  <2>3. dispatched \in Nat  BY DEF OperationInv, OperationTypes
  <2>4. (plan[1] = "submit") \in BOOLEAN  OBVIOUS
  <2> DEFINE submits == plan[1] = "submit"
  <2>5. exchange' = [exchange EXCEPT !.submitted = submits, !.fetch = "running"] /\ submits \in BOOLEAN
    BY <1>2, <2>1
  <2>6. (submits <=> plan[1] = "submit") /\ (dispatched' # 0 => submits) /\ dispatched' \in Nat
    BY <1>2, <2>1, <2>3
  <2> HIDE DEF submits
  <2>7. /\ exchange' \in Exchanges /\ exchange'.submitted = submits /\ exchange'.fetch = "running"
        /\ exchange'.body = "none" /\ exchange'.started = exchange.started
    BY <1>2, <2>5 DEF Exchanges
  <2>8. OperationTypes'  BY <2>1, <2>6, <2>7 DEF OperationInv, OperationTypes
  <2>9. PlanSound'  BY <2>1 DEF OperationInv, PlanSound
  <2>10. DispatchSound'  BY <2>1, <2>6, <2>7 DEF DispatchSound
  <2>11. SignalsSound' /\ FailureSound'  BY <2>1, <2>2 DEF SignalsSound, FailureSound
  <2>12. ClockSound'
    <3>1. Began' <=> Began  BY <2>1, <2>7 DEF Began
    <3> QED  BY <1>1, <2>1, <2>7, <3>1 DEF OperationInv, ClockSound, Cleaning
  <2>13. ResultSound'  BY <1>1, <2>1 DEF OperationInv, ResultSound
  <2> QED  BY <2>8, <2>9, <2>10, <2>11, <2>12, <2>13 DEF OperationInv
<1> QED  BY <1>4, <1>5

\* What goes on behind an operation.
LEMMA BehindStep ==
  ASSUME OperationInv, at \notin {"credential", "dispatching", "fetching"}, NEW e \in Exchanges,
         exchange' = e, UNCHANGED <<plan, at, now, signals, result, dispatched>>,
         e.started = exchange.started, e.submitted = exchange.submitted,
         e.failure = exchange.failure, e.window = exchange.window, e.body # "open",
         e.fetch = "running" => exchange.fetch = "running",
         at \in {"cancelling", "closing"} /\ exchange.body = "failed" => e.body = "failed"
  PROVE  OperationInv'
<1>1. OperationTypes' /\ PlanSound'  BY DEF OperationInv, OperationTypes, PlanSound
<1>2. DispatchSound'  BY DEF OperationInv, DispatchSound
<1>3. SignalsSound'  BY DEF OperationInv, SignalsSound
<1>4. FailureSound'
  <2>1. Causing(exchange.failure, signals)' <=> Causing(exchange.failure, signals)  BY DEF Causing
  <2> QED  BY <2>1 DEF OperationInv, FailureSound
<1>5. ClockSound'
  <2>1. (Began' <=> Began) /\ (Begins' <=> Begins)  BY DEF Began, Begins
  <2>2. In("operation", signals)' <=> In("operation", signals)  BY DEF In
  <2> QED  BY <2>1, <2>2 DEF OperationInv, ClockSound
<1>6. ResultSound'  BY DEF OperationInv, ResultSound
<1> QED  BY <1>1, <1>2, <1>3, <1>4, <1>5, <1>6 DEF OperationInv

LEMMA CancelStep ==
  ASSUME OperationInv, Operation!CancelEnds
  PROVE  OperationInv'
<1>1. PICK how \in {"completed", "failed"} : exchange' = [exchange EXCEPT !.body = how]
  BY DEF Operation!CancelEnds
<1>2. /\ exchange.body = "pending" /\ UNCHANGED <<plan, at, now, signals, result, dispatched>>
      /\ exchange \in Exchanges
  BY OperationFacts DEF Operation!CancelEnds
<1>3. at \notin {"credential", "dispatching", "fetching"}  BY <1>2 DEF OperationInv, DispatchSound
<1> DEFINE e == [exchange EXCEPT !.body = how]
<1>4. /\ e \in Exchanges /\ e.started = exchange.started /\ e.submitted = exchange.submitted
      /\ e.failure = exchange.failure /\ e.window = exchange.window /\ e.body = how
      /\ e.fetch = exchange.fetch
  BY <1>2 DEF Exchanges
<1>5. exchange' = e  BY <1>1
<1> HIDE DEF e
<1> QED  BY <1>2, <1>3, <1>4, <1>5, BehindStep

LEMMA FetchFailsStep ==
  ASSUME OperationInv, Operation!FetchFails
  PROVE  OperationInv'
<1> DEFINE e == [exchange EXCEPT !.fetch = "failed"]
<1>1. exchange \in Exchanges /\ exchange.fetch = "running" /\ signals \in Signals
  BY OperationFacts DEF Operation!FetchFails
<1>2. /\ exchange.submitted => plan[1] = "submit"
      /\ dispatched # 0 => exchange.submitted
      /\ exchange.body # "open" /\ at \in {"fetching", "settling", "over"}
  BY <1>1 DEF OperationInv, DispatchSound
<1>3. /\ e \in Exchanges /\ e.started = exchange.started /\ e.submitted = exchange.submitted
      /\ e.failure = exchange.failure /\ e.window = exchange.window /\ e.body = exchange.body
      /\ e.fetch = "failed"
  BY <1>1 DEF Exchanges
<1>4. CASE at = "fetching"
  <2>1. Operation!Ends("network", signals, e, None)  BY <1>4 DEF Operation!FetchFails
  <2>2. Causing("network", signals)  BY NotCausing
  <2> HIDE DEF e
  <2> QED  BY <1>1, <1>2, <1>3, <2>1, <2>2, OperationEnds, NoneIsNoEnd
<1>5. CASE at # "fetching"
  <2>1. exchange' = e /\ UNCHANGED <<plan, at, now, signals, result, dispatched>>
    BY <1>5 DEF Operation!FetchFails
  <2> HIDE DEF e
  <2> QED  BY <1>2, <1>3, <1>5, <2>1, BehindStep
<1> QED  BY <1>4, <1>5

LEMMA FetchAnswersStep ==
  ASSUME OperationInv, Operation!FetchAnswers
  PROVE  OperationInv'
<1> DEFINE causes == Operation!Checked(now)
           answered(b) == [exchange EXCEPT !.fetch = "answered", !.body = b]
<1>1. PICK b \in {"null", "open"} :
        IF at = "fetching" /\ causes = <<>> THEN Operation!Accept(answered(b))
        ELSE IF at = "fetching"
        THEN Operation!Cleans("settling", Operation!ExchangeLabel(causes), causes, answered(b), now)
        ELSE /\ exchange' = Operation!Late(answered(b))
             /\ UNCHANGED <<plan, at, now, signals, result, dispatched>>
  BY DEF Operation!FetchAnswers
<1> DEFINE e == answered(b)
<1>2. exchange \in Exchanges /\ exchange.fetch = "running" /\ signals \in Signals /\ now \in Nat
  BY OperationFacts DEF Operation!FetchAnswers
<1>3. /\ at \in {"fetching", "settling", "over"}
      /\ at = "fetching" => signals = <<>> /\ now <= exchange.started + ExchangeTime
      /\ at = "fetching" /\ plan[1] = "follow" => now <= OperationTime
  BY <1>2 DEF OperationInv, DispatchSound, SignalsSound, ClockSound
<1>4. /\ e \in Exchanges /\ e.started = exchange.started /\ e.submitted = exchange.submitted
      /\ e.failure = exchange.failure /\ e.window = exchange.window /\ e.body = b
      /\ e.fetch = "answered" /\ e.started \in Nat
  BY <1>2 DEF Exchanges
<1>5. exchange.started \in Nat /\ ExchangeTime \in Nat /\ CleanupTime \in Nat /\ OperationTime \in Nat
  BY <1>2, Times DEF Exchanges
<1>6. /\ causes \in Signals
      /\ causes = <<>> => signals = <<>>
      /\ causes # <<>> /\ at = "fetching" => Causing(Operation!ExchangeLabel(causes), causes)
  BY <1>2, <1>3, CheckIs
<1> HIDE DEF causes, answered
<1>7. CASE at = "fetching" /\ causes = <<>>
  <2>1. Operation!Accept(e)  BY <1>1, <1>7
  <2>2. CASE Operation!Kind = "probe" /\ Operation!Cleans("probing", None, signals, e, now)
    <3>1. plan[1] = "probe"  BY <2>2, OperationFacts
    <3>2. "probing" \in Cleaning  BY DEF Cleaning
    <3> HIDE DEF e
    <3> QED  BY <1>2, <1>3, <1>4, <1>5, <1>7, <2>2, <3>1, <3>2, OperationCleans, NoneIsNoEnd DEF Failures
  <2>3. CASE \E code \in {"invalid-response", "redirect"} :
               Operation!Cleans("closing", code, signals, e, now)
    <3>1. PICK code \in {"invalid-response", "redirect"} :
            Operation!Cleans("closing", code, signals, e, now)
      BY <2>3
    <3>2. "closing" \in Cleaning /\ code \in Failures  BY DEF Cleaning, Failures
    <3>3. Causing(code, signals)  BY NotCausing
    <3> HIDE DEF e
    <3>4. now <= e.started + ExchangeTime + CleanupTime  BY <1>2, <1>3, <1>4, <1>5, <1>7
    <3> QED  BY <1>2, <1>3, <1>4, <1>7, <3>1, <3>2, <3>3, <3>4, OperationCleans, NoneIsNoEnd
  <2>4. CASE /\ Operation!Kind # "probe" /\ at' = "reading" /\ exchange' = e
             /\ UNCHANGED <<plan, now, signals, result, dispatched>>
    <3> HIDE DEF e
    <3>1. OperationTypes' /\ PlanSound'  BY <1>4, <2>4 DEF OperationInv, OperationTypes, PlanSound
    <3>2. DispatchSound'  BY <1>4, <2>4 DEF OperationInv, DispatchSound
    <3>3. SignalsSound' /\ FailureSound'  BY <1>3, <1>7, <2>4 DEF SignalsSound, FailureSound
    <3>4. ClockSound'
      <4>1. Began' <=> Began  BY <1>4, <2>4 DEF Began
      <4> QED  BY <1>3, <1>4, <1>7, <2>4, <4>1 DEF OperationInv, ClockSound, Cleaning
    <3>5. ResultSound'  BY <1>7, <2>4 DEF OperationInv, ResultSound
    <3> QED  BY <3>1, <3>2, <3>3, <3>4, <3>5 DEF OperationInv
  <2> QED  BY <2>1, <2>2, <2>3, <2>4 DEF Operation!Accept
<1>8. CASE at = "fetching" /\ causes # <<>>
  <2>1. Operation!Cleans("settling", Operation!ExchangeLabel(causes), causes, e, now)
    BY <1>1, <1>8
  <2>2. Operation!ExchangeLabel(causes) \in {"aborted", "timeout"}  BY LabelInSet
  <2>3. "settling" \in Cleaning /\ Operation!ExchangeLabel(causes) \in Failures
    BY <2>2 DEF Cleaning, Failures
  <2> HIDE DEF e
  <2> QED  BY <1>2, <1>3, <1>4, <1>5, <1>6, <1>8, <2>1, <2>2, <2>3, OperationCleans, NoneIsNoEnd
<1>9. CASE at # "fetching"
  <2> DEFINE late2 == Operation!Late(e)
  <2>1. exchange' = late2 /\ UNCHANGED <<plan, at, now, signals, result, dispatched>>
    BY <1>1, <1>9
  <2>2. late2 = [e EXCEPT !.body = IF e.body = "open" THEN "pending" ELSE e.body]
    BY <1>4 DEF Operation!Late, Operation!Cancelled, Exchanges
  <2> HIDE DEF e, late2
  <2>3. /\ late2 \in Exchanges /\ late2.started = exchange.started
        /\ late2.submitted = exchange.submitted /\ late2.failure = exchange.failure
        /\ late2.window = exchange.window /\ late2.body \in {"null", "pending"}
        /\ late2.fetch = "answered"
    BY <1>4, <2>2 DEF Exchanges
  <2> QED  BY <1>3, <1>9, <2>1, <2>3, BehindStep
<1> QED  BY <1>7, <1>8, <1>9

LEMMA SettleStep ==
  ASSUME OperationInv, Operation!Settle
  PROVE  OperationInv'
<1>1. at = "settling"  BY DEF Operation!Settle
<1>2. PICK settlement \in {"settled", "cap-exceeded"} :
        /\ Operation!Ends(exchange.failure, signals, exchange, settlement)
        /\ settlement = "settled" => exchange.fetch # "running" /\ exchange.body # "pending"
  <2>1. CASE /\ \/ exchange.fetch = "failed"
                \/ exchange.fetch = "answered" /\ (exchange.body # "pending" \/ exchange.window <= now)
             /\ Operation!Ends(exchange.failure, signals, exchange, Operation!Settlement("settled"))
    <3>1. Operation!Settlement("settled")
            = IF exchange.body # "pending" THEN "settled" ELSE "cap-exceeded"
      BY DEF Operation!Settlement
    <3> QED  BY <2>1, <3>1
  <2>2. CASE Operation!Ends(exchange.failure, signals, exchange, Operation!Settlement("cap-exceeded"))
    <3>1. Operation!Settlement("cap-exceeded") = "cap-exceeded"  BY DEF Operation!Settlement
    <3> QED  BY <2>2, <3>1
  <2> QED  BY <2>1, <2>2 DEF Operation!Settle
<1>3. /\ exchange.failure \in {"aborted", "timeout"} /\ Causing(exchange.failure, signals)
  BY <1>1 DEF OperationInv, FailureSound
<1>4. exchange.failure \in Failures /\ exchange.failure # "answer"  BY <1>3 DEF Failures
<1>5. /\ exchange \in Exchanges /\ signals \in Signals /\ exchange.body # "open"
      /\ exchange.submitted => plan[1] = "submit"
      /\ dispatched # 0 => exchange.submitted
  BY <1>1, OperationFacts
<1> QED  BY <1>2, <1>3, <1>4, <1>5, OperationEnds

\* A reader is not yet late.
LEMMA ReadingFacts ==
  ASSUME OperationInv, at = "reading"
  PROVE  /\ signals = <<>> /\ signals \in Signals /\ now \in Nat /\ exchange \in Exchanges
         /\ exchange.started \in Nat /\ ExchangeTime \in Nat /\ CleanupTime \in Nat
         /\ now <= exchange.started + ExchangeTime /\ exchange.fetch # "running"
         /\ Began /\ result = None /\ at \notin {"between", "over"}
<1>1. signals = <<>> /\ result = None  BY DEF OperationInv, SignalsSound, ResultSound
<1>2. now <= exchange.started + ExchangeTime /\ Began  BY DEF OperationInv, ClockSound
<1> QED  BY <1>1, <1>2, OperationFacts, Times

LEMMA ChunkStep ==
  ASSUME OperationInv, Operation!Chunk
  PROVE  OperationInv'
<1>1. at = "reading"  BY DEF Operation!Chunk
<1>2. CASE \E t \in {now, now + 1} :
             /\ Operation!Checked(t) # <<>>
             /\ t = now \/ Operation!Checked(now) = <<>>
             /\ Operation!Cleans("cancelling", Operation!ExchangeLabel(Operation!Checked(t)),
                                 Operation!Checked(t), exchange, t)
  <2>1. PICK t \in {now, now + 1} :
          /\ Operation!Checked(t) # <<>>
          /\ t = now \/ Operation!Checked(now) = <<>>
          /\ Operation!Cleans("cancelling", Operation!ExchangeLabel(Operation!Checked(t)),
                              Operation!Checked(t), exchange, t)
    BY <1>2
  <2>2. t \in Nat /\ now <= t  BY <1>1, ReadingFacts
  <2> DEFINE causes == Operation!Checked(t)
  <2>3. causes \in Signals /\ Causing(Operation!ExchangeLabel(causes), causes)
    BY <1>1, <2>1, <2>2, ReadingFacts, CheckIs
  <2>4. t <= exchange.started + ExchangeTime
    <3>1. Operation!Checked(now) = <<>> => now < exchange.started + ExchangeTime
      BY <1>1, ReadingFacts, CheckIs
    <3> QED  BY <1>1, <2>1, <3>1, ReadingFacts
  <2>5. Operation!Cleans("cancelling", Operation!ExchangeLabel(causes), causes, exchange, t)
    BY <2>1
  <2> HIDE DEF causes
  <2>6. Operation!ExchangeLabel(causes) \in {"aborted", "timeout"}  BY LabelInSet
  <2>7. "cancelling" \in Cleaning /\ Operation!ExchangeLabel(causes) \in Failures
    BY <2>6 DEF Cleaning, Failures
  <2> DEFINE code == Operation!ExchangeLabel(causes)
  <2> HIDE DEF code
  <2>8. /\ code \in Failures /\ code \in {"aborted", "timeout"} /\ code # None
        /\ Causing(code, causes) /\ Operation!Cleans("cancelling", code, causes, exchange, t)
    BY <2>3, <2>5, <2>6, <2>7, NoneIsNoEnd DEF code
  <2>9. t <= exchange.started + ExchangeTime + IF "cancelling" = "closing" THEN CleanupTime ELSE 0
    BY <1>1, <2>2, <2>4, ReadingFacts
  <2> QED  BY <1>1, <2>2, <2>3, <2>7, <2>8, <2>9, ReadingFacts, OperationCleans
<1>3. CASE /\ Operation!Checked(now + 1) = <<>> /\ now' = now + 1
           /\ UNCHANGED <<plan, at, signals, exchange, result, dispatched>>
  <2>1. now + 1 \in Nat /\ now + 1 < exchange.started + ExchangeTime
    <3>1. now + 1 \in Nat  BY <1>1, ReadingFacts
    <3> QED  BY <1>1, <1>3, <3>1, ReadingFacts, CheckIs
  <2>2. OperationTypes' /\ PlanSound'
    BY <1>3, <2>1 DEF OperationInv, OperationTypes, PlanSound
  <2>3. DispatchSound' /\ SignalsSound' /\ ResultSound'
    BY <1>1, <1>3 DEF OperationInv, DispatchSound, SignalsSound, ResultSound
  <2>4. FailureSound'  BY <1>1, <1>3 DEF FailureSound
  <2>5. ClockSound'
    <3>1. Began'  BY <1>1, <1>3, ReadingFacts DEF Began
    <3> QED  BY <1>1, <1>3, <2>1, <3>1, ReadingFacts DEF ClockSound, Cleaning
  <2> QED  BY <2>2, <2>3, <2>4, <2>5 DEF OperationInv
<1> QED  BY <1>2, <1>3 DEF Operation!Chunk

LEMMA ReadFailsStep ==
  ASSUME OperationInv, Operation!ReadFails
  PROVE  OperationInv'
<1>1. at = "reading"  BY DEF Operation!ReadFails
<1>2. /\ "cancelling" \in Cleaning /\ {"invalid-response", "broken"} \subseteq Failures
      /\ Causing("invalid-response", signals) /\ Causing("broken", signals)
  BY NotCausing DEF Cleaning, Failures
<1>3. CASE Operation!Cleans("cancelling", "invalid-response", signals, exchange, now)
  BY <1>1, <1>2, <1>3, ReadingFacts, OperationCleans, NoneIsNoEnd
<1>4. CASE Operation!Cleans("cancelling", "broken", signals, [exchange EXCEPT !.body = "failed"], now)
  <2> DEFINE e == [exchange EXCEPT !.body = "failed"]
  <2>1. /\ e \in Exchanges /\ e.started = exchange.started /\ e.submitted = exchange.submitted
        /\ e.body = "failed" /\ e.fetch = exchange.fetch
    BY <1>1, ReadingFacts DEF Exchanges
  <2>2. Operation!Cleans("cancelling", "broken", signals, e, now)  BY <1>4
  <2> HIDE DEF e
  <2> QED  BY <1>1, <1>2, <2>1, <2>2, ReadingFacts, OperationCleans, NoneIsNoEnd
<1> QED  BY <1>3, <1>4 DEF Operation!ReadFails

LEMMA CompleteStep ==
  ASSUME OperationInv, Operation!Complete
  PROVE  OperationInv'
<1> DEFINE causes == Operation!Checked(now)
           body == IF exchange.body = "open" THEN "read" ELSE exchange.body
           e == [exchange EXCEPT !.body = body]
<1>1. at = "reading"  BY DEF Operation!Complete
<1>2. /\ causes \in Signals
      /\ causes = <<>> => now < exchange.started + ExchangeTime
      /\ causes # <<>> => Causing(Operation!ExchangeLabel(causes), causes)
  BY <1>1, ReadingFacts, CheckIs
<1>3. body \in {"none", "null", "pending", "completed", "failed", "read"}
  BY <1>1, ReadingFacts DEF Exchanges
<1>4. IF causes # <<>>
      THEN Operation!Cleans("closing", Operation!ExchangeLabel(causes), causes, e, now)
      ELSE \/ Operation!Cleans("closing", "invalid-response", causes, e, now)
           \/ /\ at' = "complete" /\ exchange' = e
              /\ UNCHANGED <<plan, now, signals, result, dispatched>>
  BY DEF Operation!Complete
<1> HIDE DEF body
<1>5. /\ e \in Exchanges /\ e.started = exchange.started /\ e.submitted = exchange.submitted
      /\ e.body = body /\ e.fetch = exchange.fetch
  BY <1>1, <1>3, ReadingFacts DEF Exchanges
<1> HIDE DEF e, causes
<1>6. now <= e.started + ExchangeTime + CleanupTime  BY <1>1, <1>5, ReadingFacts
<1>7. "closing" \in Cleaning /\ "invalid-response" \in Failures  BY DEF Cleaning, Failures
<1>8. CASE causes # <<>>
  <2>1. Operation!Cleans("closing", Operation!ExchangeLabel(causes), causes, e, now)  BY <1>4, <1>8
  <2>2. Operation!ExchangeLabel(causes) \in {"aborted", "timeout"}  BY LabelInSet
  <2>3. Operation!ExchangeLabel(causes) \in Failures  BY <2>2 DEF Failures
  <2> QED
    BY <1>1, <1>2, <1>5, <1>6, <1>7, <1>8, <2>1, <2>2, <2>3, ReadingFacts, OperationCleans, NoneIsNoEnd
<1>9. CASE causes = <<>> /\ Operation!Cleans("closing", "invalid-response", causes, e, now)
  <2>1. Causing("invalid-response", causes)  BY NotCausing
  <2> QED
    BY <1>1, <1>2, <1>5, <1>6, <1>7, <1>9, <2>1, ReadingFacts, OperationCleans, NoneIsNoEnd
<1>10. CASE /\ causes = <<>> /\ at' = "complete" /\ exchange' = e
            /\ UNCHANGED <<plan, now, signals, result, dispatched>>
  <2>1. OperationTypes' /\ PlanSound'  BY <1>5, <1>10 DEF OperationInv, OperationTypes, PlanSound
  <2>2. DispatchSound'
    BY <1>1, <1>3, <1>5, <1>10, ReadingFacts DEF OperationInv, DispatchSound
  <2>3. SignalsSound' /\ FailureSound'
    BY <1>1, <1>10, ReadingFacts DEF SignalsSound, FailureSound
  <2>4. ClockSound'
    <3>1. Began' <=> Began  BY <1>5, <1>10 DEF Began
    <3> QED  BY <1>1, <1>2, <1>5, <1>10, <3>1, ReadingFacts DEF ClockSound, Cleaning
  <2>5. ResultSound'  BY <1>1, <1>10 DEF OperationInv, ResultSound
  <2> QED  BY <2>1, <2>2, <2>3, <2>4, <2>5 DEF OperationInv
<1> QED  BY <1>4, <1>8, <1>9, <1>10

LEMMA AnswerStep ==
  ASSUME OperationInv, Operation!Respond
  PROVE  OperationInv'
<1>1. at = "complete" /\ Operation!Responded  BY DEF Operation!Respond
<1>2. signals \in {<<>>, <<"caller">>} /\ now < exchange.started + ExchangeTime
  BY <1>1 DEF OperationInv, SignalsSound, ClockSound
<1> QED  BY <1>1, <1>2, RespondedStep

\* What is cleaned up is still within its window.
LEMMA CleaningFacts ==
  ASSUME OperationInv, at \in Cleaning
  PROVE  /\ signals \in Signals /\ now \in Nat /\ exchange \in Exchanges /\ exchange.body # "open"
         /\ exchange.started \in Nat /\ ExchangeTime \in Nat /\ CleanupTime \in Nat
         /\ exchange.window \in Nat /\ now <= exchange.window /\ at \notin {"between", "over"}
         /\ at # "closing" => exchange.window <= exchange.started + ExchangeTime + CleanupTime
         /\ exchange.window <= exchange.started + ExchangeTime + 2 * CleanupTime
         /\ Began /\ result = None
<1>1. at \in {"probing", "settling", "cancelling", "closing"}  BY DEF Cleaning
<1>2. /\ signals \in Signals /\ now \in Nat /\ exchange \in Exchanges /\ exchange.body # "open"
      /\ exchange.started \in Nat
  BY <1>1, OperationFacts
<1>3. /\ exchange.window \in Nat /\ now <= exchange.window /\ Began
      /\ at # "closing" => exchange.window <= exchange.started + ExchangeTime + CleanupTime
      /\ at = "closing" => exchange.window <= exchange.started + ExchangeTime + 2 * CleanupTime
  BY <1>1 DEF OperationInv, ClockSound, Cleaning
<1>4. ExchangeTime \in Nat /\ CleanupTime \in Nat  BY Times
<1>5. exchange.window <= exchange.started + ExchangeTime + 2 * CleanupTime
  BY <1>2, <1>3, <1>4
<1>6. result = None  BY <1>1 DEF OperationInv, ResultSound
<1> QED  BY <1>1, <1>2, <1>3, <1>4, <1>5, <1>6

LEMMA ProbedStep ==
  ASSUME OperationInv, Operation!Probed
  PROVE  OperationInv'
<1> DEFINE causes == Operation!Checked(now)
<1>1. at = "probing" /\ at \in Cleaning /\ plan[1] = "probe"
  BY DEF Operation!Probed, Cleaning, OperationInv, DispatchSound
<1>2. exchange.fetch # "running"  BY <1>1, OperationFacts
<1>3. /\ causes \in Signals
      /\ causes = <<>> => signals = <<>> /\ now < exchange.started + ExchangeTime
  BY <1>1, CleaningFacts, CheckIs
<1>4. CASE causes # <<>>
  <2>1. Operation!Cleans("closing", Operation!ExchangeLabel(causes), causes, exchange, now)
    BY <1>4 DEF Operation!Probed
  <2> HIDE DEF causes
  <2>2. Operation!ExchangeLabel(causes) \in {"aborted", "timeout"}  BY LabelInSet
  <2>3. Operation!ExchangeLabel(causes) \in Failures /\ "closing" \in Cleaning
    BY <2>2 DEF Failures, Cleaning
  <2>4. Causing(Operation!ExchangeLabel(causes), causes)  BY <1>1 DEF Causing
  <2>5. now <= exchange.started + ExchangeTime + CleanupTime  BY <1>1, CleaningFacts
  <2> QED
    BY <1>1, <1>2, <1>3, <2>1, <2>2, <2>3, <2>4, <2>5, CleaningFacts, OperationCleans, NoneIsNoEnd
<1>5. CASE causes = <<>>
  <2>1. Operation!Responded  BY <1>5 DEF Operation!Probed
  <2> QED  BY <1>1, <1>3, <1>5, <2>1, RespondedStep
<1> QED  BY <1>4, <1>5

LEMMA ReaderCancelledStep ==
  ASSUME OperationInv, Operation!ReaderCancelled
  PROVE  OperationInv'
<1>1. /\ at = "cancelling" /\ at \in Cleaning
      /\ Operation!Cleans("closing", exchange.failure, signals, exchange, now)
  BY DEF Operation!ReaderCancelled, Cleaning
<1>2. /\ exchange.failure # None /\ Causing(exchange.failure, signals)
      /\ exchange.failure # "redirect"
      /\ exchange.failure = "broken" => exchange.body = "failed" /\ signals \in {<<>>, <<"caller">>}
  BY <1>1 DEF OperationInv, FailureSound
<1>3. exchange.failure \in Failures \cup {None}  BY <1>1, CleaningFacts DEF Exchanges
<1>4. exchange.fetch # "running" /\ "closing" \in Cleaning  BY <1>1, OperationFacts DEF Cleaning
<1>5. now <= exchange.started + ExchangeTime + CleanupTime  BY <1>1, CleaningFacts
<1> QED  BY <1>1, <1>2, <1>3, <1>4, <1>5, CleaningFacts, OperationCleans

\* A redirect becomes an alias and a read of its target.
LEMMA ClosedStep ==
  ASSUME OperationInv, Operation!Closed
  PROVE  OperationInv'
<1>1. at = "closing" /\ at \in Cleaning  BY DEF Operation!Closed, Cleaning
<1>2. /\ exchange.failure # None /\ Causing(exchange.failure, signals)
      /\ exchange.failure = "broken" => exchange.body = "failed" /\ signals \in {<<>>, <<"caller">>}
  BY <1>1 DEF OperationInv, FailureSound
<1>3. /\ exchange.fetch # "running" /\ Operation!Kind = plan[1]
      /\ exchange.submitted => plan[1] = "submit"
      /\ dispatched # 0 => exchange.submitted
  BY <1>1, OperationFacts
<1>4. exchange.failure \in Failures  BY <1>1, <1>2, CleaningFacts DEF Exchanges
<1>5. CASE exchange.failure = "redirect" /\ Operation!Kind = "follow"
  <2>1. /\ at' = "between" /\ plan' = <<"alias", "read">> \o Tail(plan)
        /\ exchange' = [exchange EXCEPT !.failure = None, !.window = None]
        /\ UNCHANGED <<now, signals, result, dispatched>>
    BY <1>5 DEF Operation!Closed
  <2>2. plan[1] = "follow"  BY <1>3, <1>5
  <2>3. /\ exchange' \in Exchanges /\ exchange'.submitted = exchange.submitted
        /\ exchange'.body = exchange.body /\ exchange'.fetch = exchange.fetch
        /\ exchange'.started = exchange.started
    BY <1>1, <2>1, CleaningFacts DEF Exchanges
  <2> DEFINE Kinds2 == {"probe", "read", "follow", "submit", "alias"}
  <2>4. /\ plan \in Seq(Kinds2) /\ Len(plan) \in Nat \ {0} /\ DOMAIN plan = 1..Len(plan)
    <3>1. plan \in Seq(Kinds2) /\ plan # <<>> /\ DOMAIN plan = 1..Len(plan)  BY OperationFacts
    <3> QED  BY <3>1, EmptySeq
  <2>5. /\ Tail(plan) \in Seq(Kinds2) /\ Len(Tail(plan)) = Len(plan) - 1
        /\ \A i \in 1..(Len(plan) - 1) : Tail(plan)[i] = plan[i + 1]
    BY <2>4, HeadTailProperties, OperationFacts
  <2> DEFINE rest == Tail(plan)
             start == <<"alias", "read">>
             n == Len(plan)
  <2>6. start \in Seq(Kinds2) /\ Len(start) = 2 /\ start[1] = "alias" /\ start[2] = "read"
    OBVIOUS
  <2>7. plan' = start \o rest  BY <2>1
  <2>8. n \in Nat \ {0} /\ rest \in Seq(Kinds2) /\ Len(rest) = n - 1
        /\ \A i \in 1..(n - 1) : rest[i] = plan[i + 1]
    BY <2>4, <2>5
  <2>9. /\ \A i \in 1..n : plan[i] = "submit" => i = n
        /\ \A i \in 1..n : plan[i] = "alias" => i = 1
    BY <2>4 DEF OperationInv, PlanSound
  <2> HIDE DEF rest, start, Kinds2, n
  <2>10. /\ plan' \in Seq(Kinds2) /\ Len(plan') = n + 1
         /\ \A i \in 1..(n + 1) : plan'[i] = IF i <= 2 THEN start[i] ELSE rest[i - 2]
    <3>1. /\ plan' \in Seq(Kinds2) /\ Len(plan') = Len(start) + Len(rest)
          /\ \A i \in 1..(Len(start) + Len(rest)) :
               plan'[i] = IF i <= Len(start) THEN start[i] ELSE rest[i - Len(start)]
      BY <2>6, <2>7, <2>8, ConcatProperties
    <3>2. Len(start) = 2 /\ Len(start) + Len(rest) = n + 1  BY <2>6, <2>8
    <3> QED  BY <3>1, <3>2
  <2>11. DOMAIN plan' = 1..(n + 1)  BY <2>8, <2>10, LenProperties
  <2>12. plan'[1] = "alias" /\ plan'[2] = "read"
    <3>1. 1 \in 1..(n + 1) /\ 2 \in 1..(n + 1)  BY <2>8
    <3> QED  BY <2>6, <2>10, <3>1
  <2>13. PlanSound'
    <3>1. ASSUME NEW i \in 1..(n + 1)
          PROVE  /\ plan'[i] = "submit" => i = n + 1
                 /\ plan'[i] = "alias" => i = 1
      <4>1. CASE i <= 2
        <5>1. i = 1 \/ i = 2  BY <2>8, <4>1
        <5> QED  BY <2>12, <5>1
      <4>2. CASE ~(i <= 2)
        <5>1. /\ i - 2 \in 1..(n - 1) /\ (i - 2) + 1 = i - 1 /\ i - 1 \in 1..n /\ i - 1 # 1
          BY <2>8, <4>2
        <5>2. plan'[i] = plan[i - 1]  BY <2>8, <2>10, <4>2, <5>1
        <5>3. plan[i - 1] # "alias"  BY <2>9, <5>1
        <5>4. plan[i - 1] = "submit" => i - 1 = n  BY <2>9, <5>1
        <5> QED  BY <2>8, <5>2, <5>3, <5>4
      <4> QED  BY <4>1, <4>2
    <3>2. plan' \in Seq({"probe", "read", "follow", "submit", "alias"})  BY <2>10 DEF Kinds2
    <3>3. Len(plan') > 1 /\ plan' # <<>>
      <4>1. Len(plan') > 1  BY <2>8, <2>10
      <4> QED  BY <4>1
    <3>4. \A i \in DOMAIN plan' : plan'[i] = "submit" => i = Len(plan')
      BY <2>10, <2>11, <3>1
    <3>5. \A i \in DOMAIN plan' : plan'[i] = "alias" => i = 1  BY <2>11, <3>1
    <3> QED  BY <2>12, <3>2, <3>3, <3>4, <3>5 DEF PlanSound
  <2>14. OperationTypes'  BY <2>1, <2>3 DEF OperationInv, OperationTypes
  <2>15. DispatchSound'
    <3>1. ~exchange.submitted /\ exchange.body # "open"  BY <1>1, <1>3, <2>2, CleaningFacts
    <3> QED  BY <1>3, <2>1, <2>3, <3>1 DEF DispatchSound
  <2>16. SignalsSound' /\ FailureSound'  BY <2>1 DEF SignalsSound, FailureSound
  <2>17. ResultSound'  BY <1>1, <2>1 DEF OperationInv, ResultSound
  <2>18. ClockSound'
    <3>1. now <= OperationTime \/ In("operation", signals)
      BY <1>1, <1>5, <2>2 DEF OperationInv, ClockSound
    <3>2. ~(\E i \in DOMAIN signals : signals[i] # "exchange") => now <= OperationTime
      BY <3>1 DEF In
    <3>3. /\ now <= exchange.started + ExchangeTime + 2 * CleanupTime
          /\ exchange.started <= OperationTime + ExchangeTime
          /\ OperationTime \in Nat /\ ExchangeTime \in Nat /\ now \in Nat
      BY <1>1, CleaningFacts, Times DEF Began
    <3>4. ~(\E i \in DOMAIN signals : signals[i] # "exchange") => Begins'
      BY <2>1, <3>2, <3>3 DEF Begins
    <3> QED  BY <2>1, <2>3, <3>3, <3>4 DEF ClockSound, Cleaning
  <2> QED  BY <2>13, <2>14, <2>15, <2>16, <2>17, <2>18 DEF OperationInv
<1>6. CASE ~(exchange.failure = "redirect" /\ Operation!Kind = "follow")
  <2> DEFINE code == IF exchange.failure # "broken" THEN exchange.failure
                     ELSE IF signals # <<>> THEN Operation!ExchangeLabel(signals)
                     ELSE "invalid-response"
  <2>1. Operation!Ends(code, signals, exchange, None)  BY <1>6 DEF Operation!Closed
  <2>2. code \in Failures
    <3>1. Operation!ExchangeLabel(signals) \in {"aborted", "timeout"}  BY LabelInSet
    <3> QED  BY <1>4, <3>1 DEF Failures
  <2>3. Causing(code, signals)
    <3>1. CASE exchange.failure # "broken"  BY <1>2, <3>1
    <3>2. CASE exchange.failure = "broken" /\ signals = <<>>  BY <3>2, NotCausing
    <3>3. CASE exchange.failure = "broken" /\ signals # <<>>
      <4>1. signals = <<"caller">> /\ signals \in Signals  BY <1>1, <1>2, <3>3, CleaningFacts
      <4>2. signals[1] # "exchange"  BY <4>1
      <4>3. Causing(Operation!ExchangeLabel(signals), signals)  BY <3>3, <4>1, <4>2, LabelIs
      <4> QED  BY <3>3, <4>3
    <3> QED  BY <3>1, <3>2, <3>3
  <2> HIDE DEF code
  <2>4. code # "answer"  BY <2>2 DEF Failures
  <2> QED  BY <1>1, <1>3, <2>1, <2>2, <2>3, <2>4, CleaningFacts, OperationEnds, NoneIsNoEnd
<1> QED  BY <1>5, <1>6

\* An abort interrupts who waits; elsewhere it is one more signal.
LEMMA AbortsStep ==
  ASSUME OperationInv, NEW cause \in Causes, Operation!Aborts(cause),
         at \in {"dispatching", "complete"} => cause = "caller",
         at \in {"cancelling", "closing"} /\ exchange.body = "failed" => cause = "caller"
  PROVE  OperationInv'
<1> DEFINE causes == Operation!With(cause)
           label == Operation!ExchangeLabel(causes)
<1>1. /\ now \in Nat /\ exchange \in Exchanges /\ exchange.started \in Nat /\ signals \in Signals
      /\ exchange.submitted => plan[1] = "submit"
      /\ dispatched # 0 => exchange.submitted
      /\ at # "reading" => exchange.body # "open"
  BY OperationFacts
<1>2. at # "over" /\ ~In(cause, signals)  BY DEF Operation!Aborts, Operation!Has, In
<1>3. causes = Append(signals, cause)
  BY <1>2 DEF Operation!With, Operation!Has, In
<1>4. /\ causes \in Signals /\ causes # <<>>
      /\ causes[1] = IF signals = <<>> THEN cause ELSE signals[1]
      /\ signals = <<>> => causes = <<cause>>
      /\ \A c : In(c, causes) <=> In(c, signals) \/ c = cause
  BY <1>1, <1>2, <1>3, AppendedIs
<1> HIDE DEF causes
<1>5. label \in {"aborted", "timeout"}  BY LabelInSet
<1>6. signals = <<>> => Causing(label, causes)
  <2>1. signals = <<>> => (causes[1] = "exchange" => causes = <<"exchange">>)  BY <1>4
  <2> QED  BY <1>4, <2>1, LabelIs
<1> HIDE DEF label
<1>7. label \in Failures /\ label \notin {"redirect", "broken", "answer"} /\ label # None
  BY <1>5, NoneIsNoEnd DEF Failures
<1>8. ExchangeTime \in Nat /\ CleanupTime \in Nat  BY Times
<1>9. CASE at = "credential"
  <2>1. Operation!Ends(label, causes, exchange, None)
    BY <1>9 DEF Operation!Aborts, label, causes
  <2>2. signals = <<>> /\ exchange.body # "open"
    BY <1>1, <1>9 DEF OperationInv, SignalsSound
  <2> QED  BY <1>1, <1>4, <1>6, <1>7, <2>1, <2>2, OperationEnds, NoneIsNoEnd
<1>10. CASE at \in {"fetching", "reading"}
  <2>1. /\ signals = <<>> /\ now <= exchange.started + ExchangeTime
        /\ exchange.fetch = "running" => at = "fetching"
    BY <1>10 DEF OperationInv, SignalsSound, ClockSound, DispatchSound
  <2>2. "settling" \in Cleaning /\ "cancelling" \in Cleaning  BY DEF Cleaning
  <2>3. CASE at = "fetching"
    <3>1. Operation!Cleans("settling", label, causes, exchange, now)
      BY <2>3 DEF Operation!Aborts, label, causes
    <3> QED
      BY <1>1, <1>4, <1>5, <1>6, <1>7, <1>8, <2>1, <2>2, <2>3, <3>1, OperationCleans
  <2>4. CASE at = "reading"
    <3>1. Operation!Cleans("cancelling", label, causes, exchange, now)
      BY <2>4 DEF Operation!Aborts, label, causes
    <3> QED
      BY <1>1, <1>4, <1>5, <1>6, <1>7, <1>8, <2>1, <2>2, <2>4, <3>1, OperationCleans
  <2> QED  BY <1>10, <2>3, <2>4
<1>11. CASE at \notin {"credential", "fetching", "reading"}
  <2>1. signals' = causes /\ UNCHANGED <<plan, at, now, exchange, result, dispatched>>
    BY <1>11 DEF Operation!Aborts, causes
  <2>2. OperationTypes' /\ PlanSound'
    BY <1>4, <2>1 DEF OperationInv, OperationTypes, PlanSound
  <2>3. DispatchSound'  BY <2>1 DEF OperationInv, DispatchSound
  <2>4. SignalsSound'
    <3>1. ASSUME at \in {"dispatching", "complete"} PROVE causes = <<"caller">>
      <4>1. cause = "caller" /\ signals \in {<<>>, <<"caller">>}
        BY <3>1 DEF OperationInv, SignalsSound
      <4>2. signals # <<"caller">>
        <5>1. ASSUME signals = <<"caller">> PROVE FALSE
          <6>1. 1 \in DOMAIN signals /\ signals[1] = "caller"  BY <5>1
          <6> QED  BY <1>2, <4>1, <6>1 DEF In
        <5> QED  BY <5>1
      <4> QED  BY <1>4, <4>1, <4>2
    <3> QED  BY <1>11, <2>1, <3>1 DEF SignalsSound
  <2>5. FailureSound'
    <3>1. ASSUME at \in {"settling", "cancelling", "closing"}
          PROVE  Causing(exchange.failure, signals)'
      <4>1. Causing(exchange.failure, signals)  BY <3>1 DEF OperationInv, FailureSound
      <4> QED  BY <1>4, <2>1, <4>1 DEF Causing
    <3>2. ASSUME at \in {"cancelling", "closing"}, exchange.failure = "broken"
          PROVE  exchange.body = "failed" /\ causes \in {<<>>, <<"caller">>}
      <4>1. exchange.body = "failed" /\ signals \in {<<>>, <<"caller">>} /\ cause = "caller"
        BY <3>2 DEF OperationInv, FailureSound
      <4>2. signals # <<"caller">>
        <5>1. ASSUME signals = <<"caller">> PROVE FALSE
          <6>1. 1 \in DOMAIN signals /\ signals[1] = "caller"  BY <5>1
          <6> QED  BY <1>2, <4>1, <6>1 DEF In
        <5> QED  BY <5>1
      <4> QED  BY <1>4, <4>1, <4>2
    <3> QED  BY <2>1, <3>1, <3>2 DEF OperationInv, FailureSound
  <2>6. ClockSound'
    <3>1. (Began' <=> Began) /\ (Begins' <=> Begins)  BY <2>1 DEF Began, Begins
    <3>2. In("operation", signals) => In("operation", signals)'
      <4>1. In("operation", signals) => In("operation", causes)  BY <1>4
      <4> QED  BY <2>1, <4>1 DEF In
    <3>3. ~(\E i \in DOMAIN signals' : signals'[i] # "exchange") =>
            ~(\E i \in DOMAIN signals : signals[i] # "exchange")
      <4>1. ASSUME NEW i \in DOMAIN signals, signals[i] # "exchange"
            PROVE  \E j \in DOMAIN causes : causes[j] # "exchange"
        <5>1. In(signals[i], signals)  BY DEF In
        <5>2. In(signals[i], causes)  BY <1>4, <5>1
        <5> QED  BY <4>1, <5>2 DEF In
      <4> QED  BY <2>1, <4>1
    <3> QED  BY <2>1, <3>1, <3>2, <3>3 DEF OperationInv, ClockSound
  <2>7. ResultSound'  BY <1>2, <2>1 DEF OperationInv, ResultSound
  <2> QED  BY <2>2, <2>3, <2>4, <2>5, <2>6, <2>7 DEF OperationInv
<1> QED  BY <1>9, <1>10, <1>11

LEMMA SignalSteps ==
  ASSUME OperationInv,
         Operation!CallerAborts \/ Operation!OperationTimer \/ Operation!ExchangeTimer
  PROVE  OperationInv'
<1>1. {"caller", "operation", "exchange"} \subseteq Causes  BY DEF Causes
<1>2. CASE Operation!CallerAborts
  BY <1>1, <1>2, AbortsStep DEF Operation!CallerAborts
<1>3. CASE Operation!OperationTimer \/ Operation!ExchangeTimer
  <2>1. ~Operation!Immediate  BY <1>3 DEF Operation!OperationTimer, Operation!ExchangeTimer
  <2>2. /\ at \notin {"dispatching", "complete"}
        /\ ~(at \in {"cancelling", "closing"} /\ exchange.body = "failed")
    BY <2>1 DEF Operation!Immediate
  <2> QED
    BY <1>1, <1>3, <2>2, AbortsStep DEF Operation!OperationTimer, Operation!ExchangeTimer
<1> QED  BY <1>2, <1>3

\* Time passes only where nothing is due.
LEMMA TickStep ==
  ASSUME OperationInv, Operation!Tick
  PROVE  OperationInv'
<1>1. /\ at # "over" /\ ~Operation!Immediate /\ ~Operation!Due /\ now' = now + 1
      /\ UNCHANGED <<plan, at, signals, exchange, result, dispatched>>
  BY DEF Operation!Tick
<1>2. /\ now \in Nat /\ exchange \in Exchanges /\ exchange.started \in Nat
      /\ OperationTime \in Nat /\ ExchangeTime \in Nat /\ CleanupTime \in Nat
  BY OperationFacts, Times
<1>3. at \in {"credential", "fetching", "reading"} \cup Cleaning
  BY <1>1 DEF Operation!Immediate, OperationInv, OperationTypes
<1>4. /\ OperationTime <= now => In("operation", signals)
      /\ exchange.started + ExchangeTime <= now => In("exchange", signals)
  BY <1>1 DEF Operation!Due, Operation!Has, In
<1>5. at \in Cleaning => exchange.window \in Nat /\ now < exchange.window
  <2>1. at \in Cleaning => exchange.window \in Nat /\ now <= exchange.window
    BY DEF OperationInv, ClockSound
  <2>2. exchange.window \in Nat /\ exchange.window <= now => FALSE
    <3>1. exchange.window \in Nat => exchange.window # None  BY NoneIsNoEnd
    <3> QED  BY <1>1, <3>1 DEF Operation!Due, Operation!CleanedUp
  <2> QED  BY <1>2, <2>1, <2>2
<1>6. at \in {"credential", "fetching", "reading"} =>
        now < OperationTime /\ now < exchange.started + ExchangeTime
  <2>1. at \in {"credential", "fetching", "reading"} => signals = <<>>
    BY DEF OperationInv, SignalsSound
  <2>2. signals = <<>> => ~In("operation", signals) /\ ~In("exchange", signals)  BY DEF In
  <2> QED  BY <1>2, <1>4, <2>1, <2>2
<1>7. OperationTypes' /\ PlanSound'  BY <1>1, <1>2 DEF OperationInv, OperationTypes, PlanSound
<1>8. DispatchSound'  BY <1>1 DEF OperationInv, DispatchSound
<1>9. SignalsSound'  BY <1>1 DEF OperationInv, SignalsSound
<1>10. FailureSound'
  <2>1. Causing(exchange.failure, signals)' <=> Causing(exchange.failure, signals)
    BY <1>1 DEF Causing
  <2> QED  BY <1>1, <2>1 DEF OperationInv, FailureSound
<1>11. Began'
  <2>1. Began  BY <1>1, <1>3 DEF OperationInv, ClockSound, Cleaning
  <2> QED  BY <1>1, <1>2, <2>1 DEF Began
<1>12. ClockSound'
  <2>1. In("operation", signals)' <=> In("operation", signals)  BY <1>1 DEF In
  <2>2. CASE at \in {"credential", "fetching", "reading"}
    BY <1>1, <1>2, <1>6, <1>11, <2>2 DEF ClockSound, Cleaning
  <2>3. CASE at \in Cleaning
    <3>1. at \in {"probing", "settling", "cancelling", "closing"}  BY <2>3 DEF Cleaning
    <3>2. exchange.window \in Nat /\ now + 1 <= exchange.window  BY <1>2, <1>5, <2>3
    <3>3. now + 1 <= OperationTime \/ In("operation", signals)  BY <1>2, <1>4
    <3>4. /\ at # "closing" => exchange.window <= exchange.started + ExchangeTime + CleanupTime
          /\ at = "closing" => exchange.window <= exchange.started + ExchangeTime + 2 * CleanupTime
      BY <2>3, <3>1 DEF OperationInv, ClockSound
    <3> QED  BY <1>1, <1>11, <2>1, <2>3, <3>1, <3>2, <3>3, <3>4 DEF ClockSound
  <2> QED  BY <1>3, <2>2, <2>3
<1>13. ResultSound'  BY <1>1 DEF OperationInv, ResultSound
<1> QED  BY <1>7, <1>8, <1>9, <1>10, <1>12, <1>13 DEF OperationInv

LEMMA InitOperation == Operation!Init => OperationInv
<1> SUFFICES ASSUME Operation!Init PROVE OperationInv  OBVIOUS
<1>1. /\ plan \in SomePlans /\ at = "between" /\ now = 0 /\ signals = <<>>
      /\ exchange = Operation!NewExchange /\ result = None /\ dispatched = 0
  BY DEF Operation!Init
<1>2. /\ exchange \in Exchanges /\ exchange.body = "none" /\ exchange.fetch = "none"
      /\ ~exchange.submitted /\ exchange.started = 0
  BY <1>1 DEF Operation!NewExchange, Exchanges
<1>3. OperationTypes  BY <1>1, <1>2 DEF OperationTypes, Signals
<1>4. PlanSound
  <2>1. /\ plan \in Seq({"probe", "read", "follow", "submit"}) /\ plan # <<>>
        /\ \A i \in DOMAIN plan : plan[i] = "submit" => i = Len(plan)
    BY <1>1, ClientsAssumption DEF Operation!PlansAreSound
  <2>2. /\ DOMAIN plan = 1..Len(plan) /\ Len(plan) \in Nat
        /\ \A i \in 1..Len(plan) : plan[i] \in {"probe", "read", "follow", "submit"}
    BY <2>1, LenProperties, ElementOfSeq
  <2>3. plan \in Seq({"probe", "read", "follow", "submit", "alias"})
    BY <2>1
  <2>4. \A i \in DOMAIN plan : plan[i] # "alias"  BY <2>2
  <2> QED  BY <2>1, <2>3, <2>4 DEF PlanSound
<1>5. DispatchSound  BY <1>1, <1>2 DEF DispatchSound
<1>6. SignalsSound /\ FailureSound  BY <1>1 DEF SignalsSound, FailureSound
<1>7. ClockSound  BY <1>1, <1>2, Times DEF ClockSound, Begins, Cleaning
<1>8. ResultSound  BY <1>1 DEF ResultSound
<1> QED  BY <1>3, <1>4, <1>5, <1>6, <1>7, <1>8 DEF OperationInv

LEMMA OperationStep == OperationInv /\ Operation!Next => OperationInv'
<1> SUFFICES ASSUME OperationInv, Operation!Next PROVE OperationInv'  OBVIOUS
<1>1. CASE \/ Operation!Begin \/ Operation!Credential \/ Operation!Dispatch
           \/ Operation!FetchAnswers \/ Operation!FetchFails \/ Operation!CancelEnds
  BY <1>1, BeginExchange, CredentialStep, DispatchStep, FetchAnswersStep, FetchFailsStep, CancelStep
<1>2. CASE \/ Operation!Settle \/ Operation!Chunk \/ Operation!ReadFails \/ Operation!Complete
           \/ Operation!Respond
  BY <1>2, SettleStep, ChunkStep, ReadFailsStep, CompleteStep, AnswerStep
<1>3. CASE Operation!Probed \/ Operation!ReaderCancelled \/ Operation!Closed
  BY <1>3, ProbedStep, ReaderCancelledStep, ClosedStep
<1>4. CASE \/ Operation!CallerAborts \/ Operation!OperationTimer \/ Operation!ExchangeTimer
           \/ Operation!Tick
  BY <1>4, SignalSteps, TickStep
<1> QED  BY <1>1, <1>2, <1>3, <1>4 DEF Operation!Next

LEMMA OperationTells ==
  ASSUME OperationInv
  PROVE  /\ Operation!NotSubmittedIsTrue /\ Operation!SettlementIsTrue
         /\ Operation!EndsInTime /\ Operation!AnswersAreInTime
         /\ Operation!NothingStaysOpen /\ Operation!FirstCauseIsKept
<1>1. result # None <=> at = "over"
  <2>1. at # "over" => result = None  BY DEF OperationInv, ResultSound
  <2>2. at = "over" => result \in Results  BY DEF OperationInv, ResultSound
  <2> QED  BY <2>1, <2>2, ResultsAreSomething
<1>2. Operation!NotSubmittedIsTrue /\ Operation!SettlementIsTrue /\ Operation!AnswersAreInTime
  BY <1>1 DEF OperationInv, ResultSound, Operation!NotSubmittedIsTrue, Operation!SettlementIsTrue,
     Operation!AnswersAreInTime, Operation!Ended
<1>3. Operation!NothingStaysOpen
  BY <1>1 DEF OperationInv, DispatchSound, Operation!NothingStaysOpen, Operation!Ended
<1>4. Operation!FirstCauseIsKept
  <2> SUFFICES ASSUME at = "over", plan[1] # "probe", result.code \in {"aborted", "timeout"}
               PROVE  result.code = "aborted" <=> Head(signals) = "caller"
    BY <1>1, OperationFacts DEF Operation!FirstCauseIsKept, Operation!Ended
  <2>1. signals # <<>> /\ (result.code = "aborted" <=> signals[1] = "caller")
    BY DEF OperationInv, ResultSound
  <2>2. signals \in Seq(Causes)  BY OperationFacts, SignalsAre
  <2>3. Head(signals) = signals[1]  BY <2>1, <2>2
  <2> QED  BY <2>1, <2>3
<1>5. Operation!EndsInTime
  <2> SUFFICES ASSUME at # "over"
               PROVE  /\ now <= exchange.started + ExchangeTime + 2 * CleanupTime
                      /\ exchange.started <= OperationTime + ExchangeTime
    BY <1>1 DEF Operation!EndsInTime, Operation!Ended
  <2>1. /\ now \in Nat /\ exchange.started \in Nat /\ OperationTime \in Nat
        /\ ExchangeTime \in Nat /\ CleanupTime \in Nat
    BY OperationFacts, Times
  <2>2. CASE at = "between"  BY <2>2 DEF OperationInv, ClockSound
  <2>3. CASE at \in Cleaning  BY <2>1, <2>3, CleaningFacts DEF Began
  <2>4. CASE at \in {"credential", "dispatching", "fetching", "reading", "complete"}
    BY <2>1, <2>4 DEF OperationInv, ClockSound, Began
  <2> QED  BY <2>2, <2>3, <2>4 DEF OperationInv, OperationTypes
<1> QED  BY <1>2, <1>3, <1>4, <1>5
-----------------------------------------------------------------------------
(* The clients side by side. *)

LEMMA CommandStays == CommandInv /\ UNCHANGED vars => CommandInv'
BY DEF vars, CommandInv, RunsSound, JournalsSound, PlacesSound, SentSound, ReportsSound, ReportSound

LEMMA UpdatesStays == UpdatesInv /\ UNCHANGED updates => UpdatesInv'
BY DEF updates, UpdatesInv, SubmissionSound, TellingSound

LEMMA OperationStays == OperationInv /\ UNCHANGED operation => OperationInv'
<1> SUFFICES ASSUME OperationInv, UNCHANGED operation PROVE OperationInv'  OBVIOUS
<1>1. UNCHANGED <<plan, at, now, signals, exchange, result, dispatched>>  BY DEF operation
<1>2. OperationTypes' /\ PlanSound' /\ DispatchSound' /\ SignalsSound'
  BY <1>1 DEF OperationInv, OperationTypes, PlanSound, DispatchSound, SignalsSound
<1>3. FailureSound'
  <2>1. Causing(exchange.failure, signals)' <=> Causing(exchange.failure, signals)
    BY <1>1 DEF Causing
  <2> QED  BY <1>1, <2>1 DEF OperationInv, FailureSound
<1>4. ClockSound'
  <2>1. (Began' <=> Began) /\ (Begins' <=> Begins)  BY <1>1 DEF Began, Begins
  <2>2. In("operation", signals)' <=> In("operation", signals)  BY <1>1 DEF In
  <2> QED  BY <1>1, <2>1, <2>2 DEF OperationInv, ClockSound
<1>5. ResultSound'  BY <1>1 DEF OperationInv, ResultSound
<1> QED  BY <1>2, <1>3, <1>4, <1>5 DEF OperationInv

LEMMA InitClients == ClientsInit => ClientsInv
BY InitCommand, InitUpdates, InitOperation DEF ClientsInit, ClientsInv

LEMMA ClientsStep ==
  ClientsInv /\ [ClientsNext]_<<part, vars, listing, operation, session, updates>> => ClientsInv'
<1> SUFFICES ASSUME ClientsInv, [ClientsNext]_<<part, vars, listing, operation, session, updates>>
             PROVE  ClientsInv'
  OBVIOUS
<1>1. CASE Command /\ UNCHANGED <<part, listing, operation, session, updates>>
  <2>1. Next /\ Commanding  BY <1>1 DEF Command
  <2>2. CommandInv' /\ UpdatesInv'  BY <1>1, <2>1, CommandStep, UpdatesStays DEF ClientsInv
  <2>3. part' # "operation"  BY <1>1, <2>1 DEF Commanding
  <2> QED  BY <2>2, <2>3 DEF ClientsInv
<1>2. CASE part = "operation" /\ Operation!Next /\ UNCHANGED <<part, vars, listing, session, updates>>
  BY <1>2, OperationStep, CommandStays, UpdatesStays DEF ClientsInv
<1>3. CASE part = "updates" /\ Updating!Next /\ UNCHANGED <<part, vars, listing, operation, session>>
  BY <1>3, UpdatesStep, CommandStays, OperationStays DEF ClientsInv
<1>4. CASE UNCHANGED <<part, vars, operation, updates>>
  BY <1>4, CommandStays, OperationStays, UpdatesStays DEF ClientsInv
<1> QED  BY <1>1, <1>2, <1>3, <1>4 DEF ClientsNext

LEMMA ClientsTell == ClientsInv => EndsAreTrue
BY CommandTells, OperationTells, UpdatesTell DEF ClientsInv, EndsAreTrue

\* What the command line has on disk, sent and told, the exchange of an operation and
\* the calls of a client go together at every step, for every number of runs and
\* callers, every plan and all times (canonical-runtime.ts, canonical-io.ts,
\* bounded-http-transport.ts, retained-read.ts #run, read-update.ts run).
THEOREM ClientsAreSound == ClientsSpec => []ClientsInv
<1>1. ClientsInit => ClientsInv  BY InitClients
<1>2. ClientsInv /\ [ClientsNext]_<<part, vars, listing, operation, session, updates>> => ClientsInv'
  BY ClientsStep
<1> QED  BY <1>1, <1>2, PTL DEF ClientsSpec

\* Whatever answers, keeps silent, is late or is killed, what clients say of what
\* they did is true: what was not submitted is not submitted, what failed had no
\* effect, what is unknown can be sent again, and ends come in time with the cause
\* that they tell (runCanonicalInvocation, RetainedTransportError, read-update.ts run).
THEOREM ClientsTellTheTruth == ClientsSpec => []EndsAreTrue
<1>1. ClientsSpec => []ClientsInv  BY ClientsAreSound
<1>2. ClientsInv => EndsAreTrue  BY ClientsTell
<1> QED  BY <1>1, <1>2, PTL
=============================================================================
