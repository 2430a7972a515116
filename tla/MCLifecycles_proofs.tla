-------------------------- MODULE MCLifecycles_proofs --------------------------
(***************************************************************************)
(* Theorems about what has to end (MCLifecycles): the Read server, the     *)
(* development server, the coordinator of owner and read plane and one     *)
(* read of that plane, and the matrix and the raw exchanges of the         *)
(* conformance runner, for every set of requests, reads, plans and streams *)
(* and for every limit.  Each part has its inductive invariant, and a step *)
(* of the composition is a step of one part.                               *)
(***************************************************************************)
EXTENDS MCLifecycles, SequenceTheorems, TLAPS

OrNone(S) == S \cup {None}
-----------------------------------------------------------------------------
(* The Read server. *)

ServerResults == {"answer", "problem", "error", "aborted", "unavailable"}

ServerOp ==
  [kind : OrNone(Kinds), at : {"none", "identity", "port", "settled"}, own : BOOLEAN,
   result : OrNone(ServerResults)]

ServerTypes ==
  /\ ops \in [Requests -> ServerOp]
  /\ conn \in [Requests -> {"none", "open", "closed"}]
  /\ drain \in {"none", "grace", "timeout", "over"}
  /\ state = CASE drain = "none" -> "open" [] drain = "over" -> "closed" [] OTHER -> "closing"
  /\ engine \in BOOLEAN /\ (engine <=> drain # "over")
  /\ draining \subseteq Requests
  /\ failed \in BOOLEAN

\* How far the end of the process is, that of the listener and that of the server.
StagesAgree ==
  /\ serve \in {"binding", "serving", "stopping", "cleanup", "ended"}
  /\ serve \in {"binding", "serving", "stopping"} <=> drain = "none"
  /\ serve = "binding" => listener = "none"
  /\ serve \in {"serving", "stopping"} => listener \in {"listening", "closed"}
  /\ serve = "cleanup" => listener \in {"closing", "closed"}
  /\ serve = "ended" => listener = "closed" /\ drain = "over"

\* What an operation tells, and when.
Runs(op) == op.at \in {"identity", "port"}

OperationSound(op, r) ==
  /\ op.at = "none" => op = NoOp
  /\ Runs(op) => op.result \in {None, "aborted"}
  /\ op.at = "settled" => op.result # None
  /\ op.own = TRUE => op.result = "aborted"
  /\ op.result = "aborted" => op.own = TRUE \/ drain \in {"timeout", "over"}
  /\ Runs(op) /\ drain = "grace" => r \in draining
  /\ Runs(op) /\ drain \in {"timeout", "over"} => op.result = "aborted"

ServerInv ==
  /\ ServerTypes /\ StagesAgree
  /\ \A r \in Requests : OperationSound(ops[r], r)
  /\ listener \in {"none", "closed"} /\ ~failed => \A r \in Requests : conn[r] # "open"
  /\ ~late
-----------------------------------------------------------------------------
(* The development server. *)

DevelopmentTypes ==
  /\ start \in {"listening", "opening", "viewing", "serving", "cleanup", "failed"}
  /\ port \in {"none", "open", "closing", "closed", "faulty"}
  /\ store \in {"none", "open", "closing", "closed", "faulty"}
  /\ requests \in [Users -> {"none", "reading", "inside", "done"}]
  /\ closing \in BOOLEAN
  /\ stage \in {"none", "listener", "requests", "owner"}
  /\ callers \in [Users -> {"none", "waiting", "closed", "failed"}]

\* What a start has opened.
StartSound ==
  /\ start = "listening" => port = "none"
  /\ start \in {"opening", "viewing"} => port = "open"
  /\ start \in {"listening", "opening"} => store = "none"
  /\ start = "viewing" => store = "open"
  /\ start = "serving" => store # "none" /\ (store = "open" \/ closing)
  /\ start = "cleanup" => port \in {"none", "open"} /\ store \in {"none", "open"}
  /\ start = "failed" => port \in {"none", "closed", "faulty"} /\ store \in {"none", "closed", "faulty"}

\* What is pending was admitted before the close, which waits for it.
CloseSound ==
  /\ start # "serving" => Development!Pending = {} /\ ~closing
  /\ stage # "none" => closing
  /\ stage = "requests" => Development!Pending \subseteq waited
  /\ stage = "owner" => store # "open"
  /\ store \in {"closing", "closed", "faulty"} => Development!Pending = {}
  /\ \A c \in Users : callers[c] # "none" => closing
  /\ \A c \in Users : callers[c] = "closed" => port = "closed" /\ store = "closed"

DevelopmentInv == DevelopmentTypes /\ StartSound /\ CloseSound
-----------------------------------------------------------------------------
(* The delivery of one read. *)

DeliveryInv ==
  /\ active \in OrNone(Reads) /\ (busy <=> active # None) /\ (inside = "idle" <=> active = None)
  /\ inside \in {"idle", "options", "enter", "inside", "finish", "settle"}
  /\ promise = [c \in Reads |-> promise[c]]
  /\ failure \in {None, "aborted", "fault", "refused-entry"}
  /\ captured \in {None, "refused", "body", "page"}
  /\ entered \in {0, 1, 2}
  /\ pages = "closed" => stopped /\ active = None
  /\ inside \in {"options", "enter"} => entered = 0 /\ captured = None
  /\ inside \in {"options", "enter", "inside", "finish"} => failure = None
  /\ inside = "inside" => entered # 0
  /\ inside = "finish" => entered = 1 /\ captured = "page"
  /\ inside = "settle" /\ failure = None =>
       \/ captured = "body" /\ entered = 1
       \/ captured = "refused" /\ entered \in {0, 1}
-----------------------------------------------------------------------------
(* One raw exchange. *)

ExchangeEnds ==
  {"response", "body-limit", "invalid-body", "disconnect", "network", "configuration",
   "timeout", "abort"}

Evidence == [end : ExchangeEnds, state : {"not-started", "started", "complete"}]

\* Nothing is written before the socket is connected, and nothing after the end.
ExchangeTypes ==
  /\ pieces \in {1, 2} /\ stream \in ServerStreams /\ received \in 0..Len(stream)
  /\ point \in {"checking", "exchanging", "checked", "over"}
  /\ socket \in {"none", "connecting", "connected", "ended", "destroyed"}
  /\ writes \in {"not-started", "started", "complete"}
  /\ written \in 0..pieces /\ flushed \in 0..written

WritesSound ==
  /\ point = "checking" \/ (point = "exchanging" /\ socket = "connecting") =>
       writes = "not-started"
  /\ writes = "not-started" => written = 0
  /\ writes = "complete" => flushed = pieces

EvidenceSound ==
  /\ point \in {"checking", "exchanging"} => evidence = None
  /\ point \in {"checked", "over"} => evidence \in Evidence /\ evidence.state = writes
  /\ point = "over" /\ evidence.end = "response" =>
       Exchange!Parsed(Exchange!Raw(received)) = "response"
  /\ point \in {"checked", "over"} /\ evidence.end = "response" /\ writes = "complete" => fin = TRUE

ExchangeInv == ExchangeTypes /\ WritesSound /\ EvidenceSound
-----------------------------------------------------------------------------
(* The matrix of scenarios. *)

States == {"pass", "fail", "unsupported-profile", "harness-error", "not-applicable"}

Categories ==
  {"deadline", "aborted", "not-implemented", "out-of-scope-target", "exact-configuration",
   "exact-observation", "observation-limit", "wire-unavailable", "not-run", "cleanup"}

Reasons ==
  {"deadline", "containment", "exact-configuration", "exact-observation", "observation-limit",
   "none"}

Left == {"skipped", "exhausted", "failed", "timeout"}

Report ==
  [state : States, category : OrNone(Categories), recheck : OrNone(Reasons),
   cleanup : OrNone(Left), by : {"operation", "matrix", "timeout", "abort"}]

InScenario == {"preparing", "between", "acting", "collecting", "ending", "cleaning"}

MatrixTypes ==
  /\ results \in Seq(Report) /\ Len(results) <= Count
  /\ place \in InScenario \cup {"matrix", "done"}
  /\ budget \in {"whole", "started", "over"}
  /\ place \in {"ending", "cleaning"} => verdict \in Report /\ verdict.cleanup = None

\* Nothing but the operations of the scenario runs, and each is behind it where the
\* next one begins.
RunningSound ==
  /\ place = "matrix" /\ (results = <<>> \/ results[Len(results)].cleanup = None) =>
       running = {}
  /\ place = "preparing" => running \subseteq {Matrix!Operation("prepare")}
  /\ place = "between" => running = {}
  /\ place \in {"acting", "collecting"} => running \subseteq {Matrix!Operation("action")}
  /\ place = "ending" =>
       running \subseteq {Matrix!Operation("prepare"), Matrix!Operation("action")}
  /\ place = "cleaning" => running \subseteq {Matrix!Operation("cleanup")}

\* A pass names the passes before it that it rests on.
PassesRest ==
  \A i \in DOMAIN results : results[i].state = "pass" =>
    /\ i \in cleaned
    /\ \A k \in DOMAIN plans[i] : plans[i][k].recheck # 0 =>
         plans[i][k].recheck \in 1..(i - 1) /\ results[plans[i][k].recheck].state = "pass"

\* A report that leaves something behind is the last one of a scenario that ran.
ReportsSound ==
  /\ \A i \in DOMAIN results :
       results[i].by # "matrix" /\ i \notin cleaned =>
         /\ results[i].cleanup # None
         /\ \/ i = Len(results) /\ place = "matrix"
            \/ place = "done" /\ \A j \in DOMAIN results : j > i => results[j].by = "matrix"
  /\ PassesRest /\ Matrix!BlameIsTheTargets

\* What a scenario is found to be before its cleanup.
VerdictSound ==
  /\ place \in InScenario =>
       Len(results) < Count /\ plans[Matrix!Current] # None /\ ~Matrix!Unmet(Matrix!Current)
  /\ place \in {"preparing", "between", "acting"} => budget = "whole"
  /\ place \in {"ending", "cleaning"} =>
       /\ verdict.state = "fail" => verdict.by = "operation"
       /\ verdict.state = "pass" => budget = "whole" /\ ~Matrix!Unsettled

MatrixInv == MatrixTypes /\ RunningSound /\ ReportsSound /\ VerdictSound
-----------------------------------------------------------------------------
(* The coordinator. *)

\* A frame runs alone, or is a callback of a read.
StackSound ==
  \/ stack = <<>> /\ phase \in {"none", "accepting", "construction-cleanup", "draining", "closed"}
  \/ /\ Len(stack) = 1
     /\ LET frame == stack[1] IN
        \/ frame.kind = "constructing" /\ phase = "constructing" /\ frame.saved = None
        \/ /\ frame.kind \in {"submitting", "binding-read", "reading"}
           /\ phase = frame.kind /\ frame.saved = "accepting"
        \/ frame.kind = "read-callback" /\ phase = "read-callback" /\ frame.saved = "accepting"
        \/ /\ frame.kind \in {"turn", "maintenance"} /\ frame.saved = None
           /\ phase \in {"none", "accepting", "construction-cleanup", "draining", "closed"}
        \/ frame.kind \in {"closing", "disposing"} /\ phase = "closing" /\ frame.saved = None
  \/ /\ Len(stack) = 2 /\ phase = "reading"
     /\ stack[1].kind = "reading" /\ stack[1].saved = "accepting"
     /\ stack[2].kind = "read-callback" /\ stack[2].saved = None

\* The plane and the factory follow the phase.
PhaseSound ==
  /\ phase \in {"none", "constructing", "construction-cleanup"} =>
       plane.state = "none" /\ joint = "pending" /\ factory \in {"pending", "caller"}
  /\ phase \in {"accepting", "submitting", "binding-read", "reading", "read-callback",
                "closing"} =>
       plane.state = "open" /\ joint = "pending" /\ factory = "resolved"
  /\ phase = "draining" =>
       plane.state \in {"closed", "failed"} /\ joint = "pending" /\ factory = "resolved"
  /\ phase = "closed" =>
       /\ owner.state = "closed" /\ joint \in {"resolved", "rejected"}
       /\ factory = "coordinator" \/ (factory = "resolved" /\ plane.state \in {"closed", "failed"})
       /\ plane.state # "open"
  /\ joint = "resolved" => ~owner.failed /\ plane.state = "closed"

\* What has ended has no attempts and runs nothing.
OwnerSound ==
  /\ owner.state = "closed" => owner.work = <<>>
  /\ stack # <<>> /\ stack[1].kind = "turn" => owner.work # <<>>
  /\ stack # <<>> /\ stack[1].kind = "maintenance" => owner.state = "accepting"

FrameKinds ==
  {"constructing", "submitting", "binding-read", "reading", "read-callback", "turn",
   "maintenance", "closing", "disposing"}

Owners == [state : {"accepting", "draining", "closed"}, work : Seq(Nat), failed : BOOLEAN]

Planes == [state : {"none", "open", "closed", "failed"}, facet : BOOLEAN]

Frames == [kind : FrameKinds, saved : {None, "accepting"}]

\* Neither component was entered when it was told to close.
ToldBoth == [owner |-> FALSE, plane |-> FALSE]

CoordinatorTypes ==
  /\ stack \in Seq(Frames)
  /\ owner \in Owners /\ plane \in Planes
  /\ told \in {None, ToldBoth}
  /\ phase = "closing" => told = ToldBoth

CoordinatorInv == CoordinatorTypes /\ StackSound /\ PhaseSound /\ OwnerSound
-----------------------------------------------------------------------------
\* The inductive invariant of the composition.
LifecyclesInv ==
  /\ part \in Parts
  /\ part = "server" => ServerInv
  /\ part = "development" => DevelopmentInv
  /\ part = "coordinator" => CoordinatorInv
  /\ part = "delivery" => DeliveryInv
  /\ part = "matrix" => MatrixInv
  /\ part = "exchange" => ExchangeInv
-----------------------------------------------------------------------------
(* The Read server. *)

LEMMA InitServer == Init => ServerInv
<1> SUFFICES ASSUME Init PROVE ServerInv
  OBVIOUS
<1>1. NoOp \in ServerOp
  BY DEF NoOp, ServerOp, OrNone
<1>2. ServerTypes
  BY <1>1 DEF Init, ServerTypes
<1>3. \A r \in Requests : OperationSound(ops[r], r)
  BY NoneIsNothing DEF Words, Init, OperationSound, Runs, NoOp
<1>4. StagesAgree
  BY DEF Init, StagesAgree
<1>5. \A r \in Requests : conn[r] # "open"
  BY DEF Init
<1> QED  BY <1>2, <1>3, <1>4, <1>5 DEF Init, ServerInv

\* An operation that is told its result keeps the one it has.
LEMMA TellOnce ==
  ASSUME NEW op \in ServerOp, NEW result \in ServerResults
  PROVE  /\ Tell(op, result) \in ServerOp
         /\ Tell(op, result).result = IF op.result = None THEN result ELSE op.result
         /\ Tell(op, result).at = op.at /\ Tell(op, result).own = op.own
         /\ Tell(op, result).kind = op.kind
BY DEF Tell, ServerOp, OrNone

LEMMA SettledShape ==
  ASSUME NEW heard \in ServerOp, NEW x, x = [heard EXCEPT !.at = "settled", !.kind = None]
  PROVE  x \in ServerOp /\ x.at = "settled" /\ x.own = heard.own /\ x.result = heard.result
<1>1. None \in OrNone(Kinds)
  BY DEF OrNone
<1>2. x \in ServerOp
  BY <1>1 DEF ServerOp
<1>3. x.at = "settled" /\ x.own = heard.own /\ x.result = heard.result
  BY DEF ServerOp
<1> QED  BY <1>2, <1>3

\* An operation that settles is sound: it was aborted, or tells its own result.
LEMMA SettledIsSound ==
  ASSUME NEW r, NEW op \in ServerOp, OperationSound(op, r), Runs(op),
         NEW result \in ServerResults, result = "aborted" <=> IsAborted(op),
         NEW x, x = [Tell(op, result) EXCEPT !.at = "settled", !.kind = None]
  PROVE  x \in ServerOp /\ OperationSound(x, r)
<1> DEFINE heard == Tell(op, result)
<1>1. /\ heard \in ServerOp /\ heard.own = op.own
      /\ heard.result = IF op.result = None THEN result ELSE op.result
  BY TellOnce
<1>2. x \in ServerOp /\ x.at = "settled" /\ x.own = heard.own /\ x.result = heard.result
  BY <1>1, SettledShape
<1> HIDE DEF heard
<1>3. heard.result # None /\ (heard.result = "aborted" => op.result = "aborted")
  BY <1>1, NoneIsNothing DEF Words, OperationSound, IsAborted, ServerResults
<1>4. op.own = TRUE => op.result = "aborted"
  BY DEF OperationSound
<1>5. OperationSound(x, r)
  <2>1. x.result # None /\ ~Runs(x) /\ x.at # "none"
    BY <1>2, <1>3 DEF Runs
  <2>2. x.own = TRUE => x.result = "aborted"
    BY <1>1, <1>2, <1>4, NoneIsNothing DEF Words
  <2>3. x.result = "aborted" => x.own = TRUE \/ drain \in {"timeout", "over"}
    BY <1>1, <1>2, <1>3 DEF OperationSound
  <2> QED  BY <2>1, <2>2, <2>3 DEF OperationSound
<1> QED  BY <1>2, <1>5

\* What is admitted while the server is open is not aborted, and what comes later
\* is over.
LEMMA AdmittedIsSound ==
  ASSUME ServerTypes, NEW r, NEW kind \in Kinds
  PROVE  Admitted(kind) \in ServerOp /\ OperationSound(Admitted(kind), r)
<1>1. CASE state = "open"
  <2>1. Admitted(kind) = [kind |-> kind, at |-> "identity", own |-> FALSE, result |-> None]
    BY <1>1 DEF Admitted, NoOp
  <2>2. drain = "none"
    BY <1>1 DEF ServerTypes
  <2>3. Admitted(kind) \in ServerOp
    BY <2>1 DEF ServerOp, OrNone
  <2>4. /\ Admitted(kind).at = "identity" /\ Admitted(kind).own = FALSE
        /\ Admitted(kind).result = None
    BY <2>1
  <2>5. OperationSound(Admitted(kind), r)
    BY <2>2, <2>4, NoneIsNothing DEF Words, OperationSound, Runs
  <2> QED  BY <2>3, <2>5
<1>2. CASE state # "open"
  <2>1. Admitted(kind) = [kind |-> None, at |-> "settled", own |-> FALSE, result |-> "unavailable"]
    BY <1>2 DEF Admitted, NoOp
  <2>2. Admitted(kind) \in ServerOp
    BY <2>1 DEF ServerOp, OrNone, ServerResults
  <2>3. /\ Admitted(kind).at = "settled" /\ Admitted(kind).own = FALSE
        /\ Admitted(kind).result = "unavailable"
    BY <2>1
  <2>4. OperationSound(Admitted(kind), r)
    BY <2>3, NoneIsNothing DEF Words, OperationSound, Runs
  <2> QED  BY <2>2, <2>4
<1> QED  BY <1>1, <1>2

\* The operation of a client that leaves is aborted.
LEMMA GoneIsSound ==
  ASSUME NEW r, NEW op \in ServerOp, OperationSound(op, r)
  PROVE  Gone(op) \in ServerOp /\ OperationSound(Gone(op), r)
<1>1. CASE Runs(op)
  <2> DEFINE heard == Tell(op, "aborted")
  <2>1. heard \in ServerOp /\ heard.at = op.at /\ heard.result = "aborted"
    BY <1>1, TellOnce, NoneIsNothing DEF Words, ServerResults, OperationSound
  <2>2. Gone(op) = [heard EXCEPT !.own = TRUE]
    BY <1>1 DEF Gone, Runs
  <2> HIDE DEF heard
  <2>3. Gone(op) \in ServerOp /\ Gone(op).at = op.at /\ Gone(op).own /\ Gone(op).result = "aborted"
    BY <2>1, <2>2 DEF ServerOp
  <2> QED  BY <1>1, <2>3, NoneIsNothing DEF Words, OperationSound, Runs
<1> QED  BY <1>1 DEF Gone, Runs

\* A step of one operation leaves the others as they are.
LEMMA OneOperation ==
  ASSUME ServerInv, NEW r \in Requests, NEW x \in ServerOp, OperationSound(x, r),
         ops' = [ops EXCEPT ![r] = x], UNCHANGED <<drain, draining>>
  PROVE  /\ ops' \in [Requests -> ServerOp]
         /\ \A q \in Requests : OperationSound(ops[q], q)'
BY DEF ServerInv, ServerTypes, OperationSound, Runs

\* What a step leaves alone, where no stage changes.
LEMMA ServerStep ==
  ASSUME ServerInv, ops' \in [Requests -> ServerOp],
         \A q \in Requests : OperationSound(ops[q], q)',
         conn' \in [Requests -> {"none", "open", "closed"}],
         \A q \in Requests : conn'[q] = "open" =>
           conn[q] = "open" \/ listener = "listening" \/ \E k \in Requests : conn[k] = "open",
         UNCHANGED <<server, listener, process>>, ~late'
  PROVE  ServerInv'
<1>1. ServerTypes'
  BY DEF ServerInv, ServerTypes, server, process
<1>2. StagesAgree'
  BY DEF ServerInv, StagesAgree, server, process
<1>3. listener' \in {"none", "closed"} /\ ~failed' => \A r \in Requests : conn'[r] # "open"
  BY DEF ServerInv, process
<1> QED  BY <1>1, <1>2, <1>3 DEF ServerInv

LEMMA RunningSettles ==
  ASSUME ServerInv, NEW r \in Requests, Runs(ops[r]), NEW result \in ServerResults,
         result = "aborted" <=> IsAborted(ops[r]), Settle(r, result),
         UNCHANGED <<drain, draining>>
  PROVE  /\ ops' \in [Requests -> ServerOp]
         /\ \A q \in Requests : OperationSound(ops[q], q)'
<1> DEFINE x == [Tell(ops[r], result) EXCEPT !.at = "settled", !.kind = None]
<1>1. ops[r] \in ServerOp /\ OperationSound(ops[r], r)
  BY DEF ServerInv, ServerTypes
<1>2. x \in ServerOp /\ OperationSound(x, r)
  BY <1>1, SettledIsSound
<1>3. ops' = [ops EXCEPT ![r] = x]
  BY DEF Settle
<1> HIDE DEF x
<1> QED  BY <1>2, <1>3, OneOperation

\* What a running operation hears of its own, or answers, or that the engine, which
\* is open for it, answers.
LEMMA UnheardStep ==
  ASSUME ServerInv, NEW r \in Requests, Runs(ops[r]), IsAborted(ops[r]), Unheard(r),
         UNCHANGED <<server, listener, process, late>>
  PROVE  ServerInv'
<1>1. "aborted" \in ServerResults
  BY DEF ServerResults
<1>2. /\ ops' \in [Requests -> ServerOp]
      /\ \A q \in Requests : OperationSound(ops[q], q)'
  BY <1>1, RunningSettles DEF Unheard, server
<1>3. ~late'
  BY DEF ServerInv
<1> QED  BY <1>2, <1>3, ServerStep DEF Unheard, ServerInv, ServerTypes

LEMMA AnsweredStep ==
  ASSUME ServerInv, NEW r \in Requests, Runs(ops[r]), ~IsAborted(ops[r]),
         NEW result \in ServerResults \ {"aborted"}, Answered(r, result),
         UNCHANGED <<server, listener, process>>, ~late'
  PROVE  ServerInv'
<1>2. /\ ops' \in [Requests -> ServerOp]
      /\ \A q \in Requests : OperationSound(ops[q], q)'
  BY RunningSettles DEF Answered, server
<1>3. /\ conn' \in [Requests -> {"none", "open", "closed"}]
      /\ \A q \in Requests : conn'[q] = "open" => conn[q] = "open"
  BY DEF Answered, ServerInv, ServerTypes
<1> QED  BY <1>2, <1>3, ServerStep

LEMMA UsesEngineStep ==
  ASSUME ServerInv, NEW r \in Requests, Runs(ops[r]), ~IsAborted(ops[r]), UsesEngine(r),
         UNCHANGED <<server, listener, process>>
  PROVE  ServerInv'
<1>1. drain # "over"
  BY DEF ServerInv, OperationSound, IsAborted
<1>2. engine /\ ~late
  BY <1>1 DEF ServerInv, ServerTypes
<1>3. ~late'
  BY <1>2, Zenon DEF UsesEngine
<1>4. "answer" \in ServerResults \ {"aborted"} /\ Answered(r, "answer")
  BY DEF ServerResults, UsesEngine
<1> QED  BY <1>3, <1>4, AnsweredStep

\* The steps of requests and their connections.
LEMMA RequestStep ==
  ASSUME ServerInv, NEW r \in Requests,
         \/ Connects(r) \/ \E kind \in Kinds : Arrives(r, kind)
         \/ \E kept \in Requests : Reuses(r, kept)
         \/ Leaves(r) \/ Identified(r) \/ Performed(r) \/ Faults(r)
  PROVE  ServerInv'
<1> USE DEF ServerResults
<1>t. /\ ops \in [Requests -> ServerOp] /\ \A q \in Requests : OperationSound(ops[q], q)
      /\ conn \in [Requests -> {"none", "open", "closed"}] /\ ~late
  BY DEF ServerInv, ServerTypes
<1>s. ASSUME UNCHANGED <<ops, server>>
      PROVE  /\ ops' \in [Requests -> ServerOp]
             /\ \A q \in Requests : OperationSound(ops[q], q)'
  BY <1>t, <1>s DEF server, OperationSound, Runs
<1>1. CASE Connects(r)
  <2>1. UNCHANGED <<ops, server, listener, process>> /\ ~late'
    BY <1>1, <1>t DEF Connects
  <2>2. conn' \in [Requests -> {"none", "open", "closed"}] /\ listener = "listening"
    BY <1>1, <1>t DEF Connects
  <2> QED  BY <1>s, <2>1, <2>2, ServerStep
<1>2. CASE \E kind \in Kinds : Arrives(r, kind)
  <2>1. PICK kind \in Kinds : Arrives(r, kind)
    BY <1>2
  <2>2. Admitted(kind) \in ServerOp /\ OperationSound(Admitted(kind), r)
    BY AdmittedIsSound DEF ServerInv
  <2>3. /\ ops' \in [Requests -> ServerOp]
        /\ \A q \in Requests : OperationSound(ops[q], q)'
    BY <2>1, <2>2, OneOperation DEF Arrives, server
  <2>4. UNCHANGED <<conn, server, listener, process>> /\ ~late'
    BY <2>1, <1>t DEF Arrives
  <2> QED  BY <1>t, <2>3, <2>4, ServerStep
<1>3. CASE \E kept \in Requests : Reuses(r, kept)
  <2>1. PICK kept \in Requests : Reuses(r, kept)
    BY <1>3
  <2>2. UNCHANGED <<ops, server, listener, process>> /\ ~late' /\ conn[kept] = "open"
    BY <2>1, <1>t DEF Reuses
  <2>3. conn' \in [Requests -> {"none", "open", "closed"}]
    BY <2>1, <1>t DEF Reuses
  <2> QED  BY <1>s, <2>2, <2>3, ServerStep
<1>4. CASE Leaves(r)
  <2>1. Gone(ops[r]) \in ServerOp /\ OperationSound(Gone(ops[r]), r)
    BY <1>t, GoneIsSound
  <2>2. /\ ops' \in [Requests -> ServerOp]
        /\ \A q \in Requests : OperationSound(ops[q], q)'
    BY <1>4, <2>1, OneOperation DEF Leaves, server
  <2>3. /\ conn' \in [Requests -> {"none", "open", "closed"}]
        /\ \A q \in Requests : conn'[q] = "open" => conn[q] = "open"
    BY <1>4, <1>t DEF Leaves
  <2>4. UNCHANGED <<server, listener, process>> /\ ~late'
    BY <1>4, <1>t DEF Leaves
  <2> QED  BY <2>2, <2>3, <2>4, ServerStep
<1>5. CASE Identified(r)
  <2>1. Runs(ops[r]) /\ UNCHANGED <<server, listener, process>>
    BY <1>5 DEF Identified, Runs
  <2>2. ASSUME UNCHANGED late PROVE ~late'
    BY <1>t, <2>2
  <2>3. CASE IsAborted(ops[r]) /\ Unheard(r) /\ UNCHANGED late
    BY <2>1, <2>3, UnheardStep
  <2>4. CASE ~IsAborted(ops[r]) /\ Answered(r, "problem") /\ UNCHANGED late
    BY <2>1, <2>2, <2>4, AnsweredStep
  <2>5. CASE ~IsAborted(ops[r]) /\ Answered(r, "answer") /\ UNCHANGED late
    BY <2>1, <2>2, <2>5, AnsweredStep
  <2>6. CASE /\ ops' = [ops EXCEPT ![r] = Admitted("resource")] /\ UNCHANGED conn
             /\ UNCHANGED late
    <3>1. Admitted("resource") \in ServerOp /\ OperationSound(Admitted("resource"), r)
      BY AdmittedIsSound DEF ServerInv, Kinds
    <3>2. /\ ops' \in [Requests -> ServerOp]
          /\ \A q \in Requests : OperationSound(ops[q], q)'
      BY <2>1, <2>6, <3>1, OneOperation DEF server
    <3> QED  BY <1>t, <2>1, <2>2, <2>6, <3>2, ServerStep
  <2>7. CASE ~IsAborted(ops[r]) /\ UsesEngine(r)
    BY <2>1, <2>7, UsesEngineStep
  <2>8. CASE ops[r].at = "identity" /\ ops' = [ops EXCEPT ![r].at = "port"] /\ UNCHANGED <<conn, late>>
    <3> DEFINE x == [ops[r] EXCEPT !.at = "port"]
    <3>1. x \in ServerOp /\ x.at = "port" /\ x.own = ops[r].own /\ x.result = ops[r].result
      BY <1>t DEF ServerOp
    <3>2. ops' = [ops EXCEPT ![r] = x]
      BY <2>8
    <3> HIDE DEF x
    <3>3. OperationSound(x, r)
      BY <1>t, <2>1, <3>1 DEF OperationSound, Runs
    <3>4. /\ ops' \in [Requests -> ServerOp]
          /\ \A q \in Requests : OperationSound(ops[q], q)'
      BY <2>1, <3>1, <3>2, <3>3, OneOperation DEF server
    <3> QED  BY <1>t, <2>1, <2>2, <2>8, <3>4, ServerStep
  <2> QED  BY <1>5, <2>3, <2>4, <2>5, <2>6, <2>7, <2>8 DEF Identified, LooksUp
<1>6. CASE Performed(r)
  <2>1. Runs(ops[r]) /\ UNCHANGED <<server, listener, process>>
    BY <1>6 DEF Performed, Runs
  <2>2. ASSUME UNCHANGED late PROVE ~late'
    BY <1>t, <2>2
  <2>3. CASE IsAborted(ops[r]) /\ Unheard(r) /\ UNCHANGED late
    BY <2>1, <2>3, UnheardStep
  <2>4. CASE ~IsAborted(ops[r]) /\ Answered(r, "problem") /\ UNCHANGED late
    BY <2>1, <2>2, <2>4, AnsweredStep
  <2>5. CASE ~IsAborted(ops[r]) /\ Answered(r, "answer") /\ UNCHANGED late
    BY <2>1, <2>2, <2>5, AnsweredStep
  <2>6. CASE ~IsAborted(ops[r]) /\ UsesEngine(r)
    BY <2>1, <2>6, UsesEngineStep
  <2> QED  BY <1>6, <2>3, <2>4, <2>5, <2>6 DEF Performed
<1>7. CASE Faults(r)
  <2>1. Runs(ops[r]) /\ UNCHANGED <<server, listener, process, late>> /\ ~late'
    BY <1>7, <1>t DEF Faults, Running, Runs
  <2>2. CASE IsAborted(ops[r])
    BY <1>7, <2>1, <2>2, UnheardStep DEF Faults
  <2>3. CASE ~IsAborted(ops[r])
    BY <1>7, <2>1, <2>3, AnsweredStep DEF Faults
  <2> QED  BY <2>2, <2>3
<1> QED  BY <1>1, <1>2, <1>3, <1>4, <1>5, <1>6, <1>7

\* The steps of the close: an operation that still runs when it is over was aborted.
LEMMA OverStep ==
  ASSUME ServerInv, drain \in {"grace", "timeout"}, Over,
         drain = "grace" => draining \cap Running = {},
         UNCHANGED <<ops, conn, draining, listener, process, late>>
  PROVE  ServerInv'
<1>1. serve = "cleanup"
  BY DEF ServerInv, StagesAgree
<1>2. ServerTypes'
  BY DEF ServerInv, ServerTypes, Over, process
<1>3. StagesAgree'
  BY <1>1 DEF ServerInv, StagesAgree, Over, process
<1>4. ASSUME NEW r \in Requests PROVE OperationSound(ops[r], r)'
  <2>1. OperationSound(ops[r], r)
    BY DEF ServerInv
  <2>2. Runs(ops[r]) => ops[r].result = "aborted"
    BY <2>1 DEF OperationSound, Running, Runs
  <2> QED  BY <2>1, <2>2 DEF OperationSound, Over, Runs
<1>5. listener' \in {"none", "closed"} /\ ~failed' => \A r \in Requests : conn'[r] # "open"
  BY DEF ServerInv, process
<1>6. ~late'
  BY DEF ServerInv
<1> QED  BY <1>2, <1>3, <1>4, <1>5, <1>6 DEF ServerInv

LEMMA GraceEndsStep == ServerInv /\ GraceEnds => ServerInv'
<1> SUFFICES ASSUME ServerInv, GraceEnds PROVE ServerInv'
  OBVIOUS
<1>t. /\ ops \in [Requests -> ServerOp] /\ \A q \in Requests : OperationSound(ops[q], q)
      /\ conn \in [Requests -> {"none", "open", "closed"}] /\ ~late
  BY DEF ServerInv, ServerTypes
<1>1. ASSUME NEW r \in Requests
      PROVE  ops'[r] \in ServerOp /\ OperationSound(ops[r], r)'
  <2>1. ops'[r] = Abandoned(ops[r]) /\ drain' = "timeout"
    BY DEF GraceEnds
  <2>2. CASE Runs(ops[r])
    <3> DEFINE x == Tell(ops[r], "aborted")
    <3>1. "aborted" \in ServerResults /\ ops[r] \in ServerOp
      BY <1>t DEF ServerResults
    <3>2. x \in ServerOp /\ x.at = ops[r].at /\ x.own = ops[r].own /\ x.result = "aborted"
      BY <1>t, <2>2, <3>1, TellOnce DEF OperationSound
    <3>3. ops'[r] = x
      BY <2>1, <2>2 DEF Abandoned, Runs
    <3> HIDE DEF x
    <3> QED  BY <2>1, <2>2, <3>2, <3>3, NoneIsNothing DEF OperationSound, Runs, Words
  <2>3. CASE ~Runs(ops[r])
    BY <1>t, <2>1, <2>3 DEF Abandoned, OperationSound, Runs
  <2> QED  BY <2>2, <2>3
<1>2. ops' \in [Requests -> ServerOp]
  BY <1>1 DEF GraceEnds
<1>3. ServerTypes'
  BY <1>2 DEF ServerInv, ServerTypes, GraceEnds, process
<1>4. StagesAgree'
  BY DEF ServerInv, StagesAgree, GraceEnds, process
<1>5. listener' \in {"none", "closed"} /\ ~failed' => \A r \in Requests : conn'[r] # "open"
  BY <1>t DEF ServerInv, GraceEnds, process
<1>6. ~late'
  BY <1>t DEF GraceEnds
<1> QED  BY <1>1, <1>3, <1>4, <1>5, <1>6 DEF ServerInv

\* The steps of the process and of the listener.
LEMMA ProcessStep ==
  ASSUME ServerInv, Bind \/ Signal \/ ListenerFails \/ Stops \/ ListenerCloses \/ Ends
  PROVE  ServerInv'
<1>u. UNCHANGED <<ops, conn, server>> /\ late' = late
  BY DEF Bind, Signal, ListenerFails, Stops, ListenerCloses, Ends, process
<1>1. ServerTypes'
  BY <1>u DEF ServerInv, ServerTypes, server, Bind, Signal, ListenerFails, Stops,
     ListenerCloses, Ends, process
<1>2. StagesAgree'
  BY <1>u DEF ServerInv, StagesAgree, server, Bind, Signal, ListenerFails, Stops,
     ListenerCloses, Ends, process
<1>3. \A r \in Requests : OperationSound(ops[r], r)'
  BY <1>u DEF ServerInv, OperationSound, Runs, server
<1>4. listener' \in {"none", "closed"} /\ ~failed' => \A r \in Requests : conn'[r] # "open"
  BY <1>u DEF ServerInv, StagesAgree, Bind, Signal, ListenerFails, Stops, ListenerCloses,
     Ends, process
<1>5. ~late'
  BY <1>u DEF ServerInv
<1> QED  BY <1>1, <1>2, <1>3, <1>4, <1>5 DEF ServerInv

LEMMA CleanUpStep == ServerInv /\ CleanUp => ServerInv'
<1> SUFFICES ASSUME ServerInv, CleanUp PROVE ServerInv'
  OBVIOUS
<1>t. /\ ops \in [Requests -> ServerOp] /\ \A q \in Requests : OperationSound(ops[q], q)
      /\ conn \in [Requests -> {"none", "open", "closed"}] /\ ~late
      /\ drain = "none" /\ state = "open" /\ engine
      /\ listener \in {"listening", "closed"} /\ serve = "stopping" /\ serve' = "cleanup"
  BY DEF ServerInv, ServerTypes, StagesAgree, CleanUp
<1>u. UNCHANGED <<ops, outcome, signalled, failed, late>> /\ draining' = Running
  BY DEF CleanUp, StartDrain
<1>d. \/ Running = {} /\ Over
      \/ drain' = "grace" /\ state' = "closing" /\ engine' = engine
  BY DEF CleanUp, StartDrain
<1>c. /\ conn' \in [Requests -> {"none", "open", "closed"}]
      /\ \A r \in Requests : conn'[r] = "open" => conn[r] = "open"
  BY <1>t DEF CleanUp
<1>l. listener' = IF listener = "listening" THEN "closing" ELSE listener
  BY <1>t DEF CleanUp, ClosesListener
<1>1. ServerTypes'
  <2>1. draining' \subseteq Requests
    BY <1>u DEF Running
  <2> QED  BY <1>t, <1>u, <1>d, <1>c, <2>1 DEF ServerInv, ServerTypes, Over
<1>2. StagesAgree'
  BY <1>t, <1>d, <1>l DEF StagesAgree, Over
<1>3. ASSUME NEW r \in Requests PROVE OperationSound(ops[r], r)'
  <2>1. Runs(ops[r]) => r \in draining' /\ drain' = "grace"
    BY <1>u, <1>d DEF Running, Runs
  <2> QED  BY <1>t, <1>u, <1>d, <2>1 DEF OperationSound, Runs, Over
<1>4. listener' \in {"none", "closed"} /\ ~failed' => \A r \in Requests : conn'[r] # "open"
  BY <1>t, <1>u, <1>c, <1>l DEF ServerInv
<1>5. ~late'
  BY <1>t, <1>u
<1> QED  BY <1>1, <1>2, <1>3, <1>4, <1>5 DEF ServerInv

LEMMA ForcedEndStep == ServerInv /\ ForcedEnd => ServerInv'
<1> SUFFICES ASSUME ServerInv, ForcedEnd PROVE ServerInv'
  OBVIOUS
<1>t. /\ ops \in [Requests -> ServerOp] /\ \A q \in Requests : OperationSound(ops[q], q)
      /\ conn \in [Requests -> {"none", "open", "closed"}] /\ ~late
  BY DEF ServerInv, ServerTypes
<1>u. UNCHANGED <<server, listener, process>> /\ ~late'
  BY <1>t DEF ForcedEnd
<1>1. ASSUME NEW r \in Requests
      PROVE  ops'[r] \in ServerOp /\ OperationSound(ops[r], r)'
  <2>1. Gone(ops[r]) \in ServerOp /\ OperationSound(Gone(ops[r]), r)
    BY <1>t, GoneIsSound
  <2>2. ops'[r] \in {ops[r], Gone(ops[r])}
    BY DEF ForcedEnd
  <2>3. ops'[r] \in ServerOp /\ OperationSound(ops'[r], r)
    BY <1>t, <2>1, <2>2
  <2> QED  BY <1>u, <2>3 DEF OperationSound, Runs, server
<1>2. ops' \in [Requests -> ServerOp]
  BY <1>1 DEF ForcedEnd
<1>3. /\ conn' \in [Requests -> {"none", "open", "closed"}]
      /\ \A q \in Requests : conn'[q] = "open" => conn[q] = "open"
  BY <1>t DEF ForcedEnd
<1> QED  BY <1>1, <1>2, <1>3, <1>u, ServerStep

LEMMA StepServer == ServerInv /\ [Next]_vars => ServerInv'
<1> SUFFICES ASSUME ServerInv, [Next]_vars PROVE ServerInv'
  OBVIOUS
<1>1. CASE Drained
  BY <1>1, OverStep DEF Drained
<1>2. CASE TimeoutEnds
  BY <1>2, OverStep DEF TimeoutEnds
<1>3. CASE UNCHANGED vars
  <2>1. UNCHANGED <<ops, conn, state, drain, draining, engine, listener, serve, failed, late>>
    BY <1>3 DEF vars
  <2> QED  BY <2>1 DEF ServerInv, ServerTypes, StagesAgree, OperationSound, Runs
<1> QED  BY <1>1, <1>2, <1>3, RequestStep, GraceEndsStep, ProcessStep, CleanUpStep, ForcedEndStep
         DEF Next

\* What the end of the server promises, from the invariant, and what a close leaves.
LEMMA ServerPromises == ServerInv => EndIsComplete /\ EngineIsOpen /\ GraceIsKept
<1> SUFFICES ASSUME ServerInv PROVE EndIsComplete /\ EngineIsOpen /\ GraceIsKept
  OBVIOUS
<1>1. EngineIsOpen
  BY DEF ServerInv, EngineIsOpen
<1>2. ASSUME NEW r \in Requests, ops[r].result = "aborted"
      PROVE  ops[r].own \/ drain \in {"timeout", "over"}
  BY <1>2 DEF ServerInv, OperationSound
<1>3. ASSUME NEW r \in Requests, serve = "ended", ops[r].at # "none"
      PROVE  ops[r].result # None
  <2>1. OperationSound(ops[r], r) /\ drain = "over" /\ (Runs(ops[r]) \/ ops[r].at = "settled")
    BY <1>3 DEF ServerInv, StagesAgree, ServerTypes, ServerOp, Runs
  <2> QED  BY <2>1, NoneIsNothing DEF OperationSound, Words
<1>4. serve = "ended" => /\ listener = "closed" /\ state = "closed" /\ ~engine
                         /\ (~failed => \A r \in Requests : conn[r] # "open")
  BY DEF ServerInv, ServerTypes, StagesAgree
<1> QED  BY <1>1, <1>2, <1>3, <1>4 DEF EndIsComplete, GraceIsKept

LEMMA ServerCloses == ServerInv /\ [Next]_vars => CloseIsClean
<1> SUFFICES ASSUME ServerInv, [Next]_vars, drain = "grace", drain' = "over" PROVE Running' = {}
  BY DEF CloseIsClean
<1>1. Drained
  BY DEF Next, vars, Connects, Arrives, Reuses, Leaves, Identified, Performed, Faults, Drained,
     GraceEnds, TimeoutEnds, Bind, Signal, ListenerFails, Stops, CleanUp, ForcedEnd,
     ListenerCloses, Ends, server, process, ServerInv, StagesAgree
<1>2. \A r \in Requests : Runs(ops[r]) => FALSE
  BY <1>1 DEF Drained, ServerInv, OperationSound, Running, Runs
<1> QED  BY <1>1, <1>2 DEF Drained, Running, Runs
-----------------------------------------------------------------------------
(* The development server. *)

LEMMA InitDevelopment == Development!Init => DevelopmentInv
BY DEF Development!Init, DevelopmentInv, DevelopmentTypes, StartSound, CloseSound,
   Development!Pending

LEMMA RequestsOfDevelopment ==
  ASSUME DevelopmentInv, NEW r \in Users,
         \/ Development!Arrive(r) \/ Development!BodyRead(r) \/ Development!BodyFails(r)
         \/ Development!Settles(r) \/ Development!Disconnects(r)
  PROVE  DevelopmentInv'
<1> USE DEF Development!Arrive, Development!BodyRead, Development!BodyFails,
        Development!Settles, Development!Disconnects
<1>1. requests' \in [Users -> {"none", "reading", "inside", "done"}]
  BY DEF DevelopmentInv, DevelopmentTypes
<1>2. UNCHANGED <<start, port, store, closing, stage, waited, callers>>
  BY DEF Development!shutdown
<1>3. \/ Development!Pending' \subseteq Development!Pending
      \/ start = "serving" /\ ~closing
  BY DEF DevelopmentInv, DevelopmentTypes, Development!Pending, Development!Ready
<1>4. DevelopmentTypes' /\ StartSound'
  BY <1>1, <1>2 DEF DevelopmentInv, DevelopmentTypes, StartSound
<1>5. CloseSound'
  BY <1>2, <1>3 DEF DevelopmentInv, StartSound, CloseSound
<1> QED  BY <1>4, <1>5 DEF DevelopmentInv

LEMMA StartOfDevelopment ==
  ASSUME DevelopmentInv,
         Development!Listen \/ Development!Open \/ Development!View \/ Development!CleanUp
  PROVE  DevelopmentInv'
<1> USE DEF Development!Listen, Development!Open, Development!View, Development!CleanUp,
        Development!Undone
<1>1. UNCHANGED <<requests, closing, stage, waited, callers>> /\ start # "serving"
  BY DEF Development!shutdown
<1>2. Development!Pending' = {} /\ ~closing /\ stage = "none"
  BY <1>1 DEF DevelopmentInv, DevelopmentTypes, CloseSound, Development!Pending
<1>3. DevelopmentTypes' /\ StartSound'
  BY <1>1 DEF DevelopmentInv, DevelopmentTypes, StartSound
<1>4. CloseSound'
  BY <1>1, <1>2 DEF DevelopmentInv, DevelopmentTypes, CloseSound
<1> QED  BY <1>3, <1>4 DEF DevelopmentInv

LEMMA CloseOfDevelopment ==
  ASSUME DevelopmentInv,
         \/ \E c \in Users : Development!Close(c)
         \/ Development!ListenerCloses \/ Development!WaitForRequests
         \/ Development!CloseOwner \/ Development!OwnerCloses \/ Development!Tell
  PROVE  DevelopmentInv'
<1> USE DEF Development!Close, Development!CloseListener, Development!ListenerCloses,
        Development!WaitForRequests, Development!Waited, Development!CloseOwner,
        Development!OwnerAfter, Development!OwnerCloses, Development!Tell,
        Development!Succeeds
<1>1. UNCHANGED <<start, requests>> /\ Development!Pending' = Development!Pending
  BY DEF Development!shutdown, Development!Pending
<1>2. start = "serving"
  BY DEF DevelopmentInv, DevelopmentTypes, StartSound, CloseSound
<1>3. DevelopmentTypes'
  BY <1>1, <1>2 DEF DevelopmentInv, DevelopmentTypes, Development!shutdown
<1>4. StartSound'
  BY <1>1, <1>2 DEF DevelopmentInv, DevelopmentTypes, StartSound, CloseSound,
     Development!shutdown
<1>5. CloseSound'
  BY <1>1, <1>2 DEF DevelopmentInv, DevelopmentTypes, StartSound, CloseSound,
     Development!shutdown
<1> QED  BY <1>3, <1>4, <1>5 DEF DevelopmentInv

LEMMA StepDevelopment ==
  DevelopmentInv /\ [Development!Next]_development => DevelopmentInv'
<1> SUFFICES ASSUME DevelopmentInv, [Development!Next]_development PROVE DevelopmentInv'
  OBVIOUS
<1>1. CASE UNCHANGED development
  BY <1>1 DEF DevelopmentInv, DevelopmentTypes, StartSound, CloseSound, Development!Pending,
     development
<1> QED  BY <1>1, RequestsOfDevelopment, StartOfDevelopment, CloseOfDevelopment
         DEF Development!Next

LEMMA DevelopmentPromises ==
  DevelopmentInv => /\ Development!OwnerClosesLast /\ Development!CloseIsTrue
                    /\ Development!FailedStartKeepsNothing
BY DEF DevelopmentInv, StartSound, CloseSound, Development!OwnerClosesLast,
   Development!CloseIsTrue, Development!FailedStartKeepsNothing

LEMMA DevelopmentCloses ==
  DevelopmentInv /\ [Development!Next]_development => Development!OwnerClosesOnce
BY DEF DevelopmentInv, DevelopmentTypes, StartSound, Development!OwnerClosesOnce,
   Development!Next, development, Development!Arrive, Development!BodyRead,
   Development!BodyFails, Development!Settles, Development!Disconnects, Development!Listen,
   Development!Open, Development!View, Development!CleanUp, Development!Undone,
   Development!Close, Development!ListenerCloses, Development!WaitForRequests,
   Development!CloseOwner, Development!OwnerAfter, Development!OwnerCloses, Development!Tell
-----------------------------------------------------------------------------
(* The delivery of one read. *)

LEMMA InitDelivery == Delivery!Init => DeliveryInv
BY DEF Delivery!Init, DeliveryInv, OrNone

LEMMA StepDelivery == DeliveryInv /\ [Delivery!Next]_delivery => DeliveryInv'
<1> SUFFICES ASSUME DeliveryInv, [Delivery!Next]_delivery PROVE DeliveryInv'
  OBVIOUS
<1> USE NoneIsNothing DEF DeliveryInv, OrNone, Words, Delivery!frame
<1>1. ASSUME NEW c \in Reads, Delivery!Call(c) PROVE DeliveryInv'
  <2>1. CASE Delivery!Refusal # None
    BY <1>1, <2>1 DEF Delivery!Call, Delivery!Freed
  <2>2. CASE Delivery!Refusal = None
    BY <1>1, <2>2 DEF Delivery!Call, Delivery!Refusal
  <2> QED  BY <2>1, <2>2
<1>2. ASSUME NEW c \in Reads, Delivery!Abort(c) PROVE DeliveryInv'
  BY <1>2 DEF Delivery!Abort
<1>3. CASE Delivery!Close
  BY <1>3 DEF Delivery!Close, Delivery!Closable
<1>4. CASE Delivery!Options
  BY <1>4 DEF Delivery!Options, Delivery!Fails
<1>5. CASE Delivery!Invalid
  BY <1>5 DEF Delivery!Invalid
<1>6. CASE Delivery!Enters
  BY <1>6 DEF Delivery!Enters, Delivery!Captures
<1>7. CASE Delivery!Returns
  BY <1>7 DEF Delivery!Returns, Delivery!Honest, Delivery!Fails
<1>8. CASE Delivery!Finish
  BY <1>8 DEF Delivery!Finish, Delivery!Fails
<1>9. CASE Delivery!Settle
  BY <1>9 DEF Delivery!Settle, Delivery!Kept
<1>10. CASE UNCHANGED delivery
  BY <1>10 DEF delivery
<1> QED  BY <1>1, <1>2, <1>3, <1>4, <1>5, <1>6, <1>7, <1>8, <1>9, <1>10 DEF Delivery!Next

LEMMA DeliveryPromises ==
  DeliveryInv => Delivery!TakenWhileActive /\ Delivery!ClosedBetweenReads
BY DEF DeliveryInv, Delivery!TakenWhileActive, Delivery!ClosedBetweenReads

LEMMA DeliverySettles ==
  DeliveryInv /\ [Delivery!Next]_delivery => Delivery!OneEntry /\ Delivery!SettlesTruly
<1> SUFFICES ASSUME DeliveryInv, [Delivery!Next]_delivery
             PROVE  Delivery!OneEntry /\ Delivery!SettlesTruly
  OBVIOUS
<1> USE NoneIsNothing DEF DeliveryInv, OrNone, Words, Delivery!frame
<1>1. ASSUME NEW c \in Reads, Delivery!Call(c)
      PROVE  Delivery!OneEntry /\ Delivery!SettlesTruly
  <2>1. Delivery!Refusal \in {None, "reentrant", "closed"}
    BY DEF Delivery!Refusal
  <2>2. Delivery!OneEntry
    BY <1>1 DEF Delivery!Call, Delivery!OneEntry, Delivery!Refusal
  <2>3. Delivery!SettlesTruly
    BY <1>1, <2>1 DEF Delivery!Call, Delivery!SettlesTruly
  <2> QED  BY <2>2, <2>3
<1>2. CASE Delivery!Settle
  <2>1. Delivery!Settlement \in
          {"aborted", "fault", "refused-entry"} \cup {captured}
    BY DEF Delivery!Settlement
  <2>2. /\ promise' = [promise EXCEPT ![active] = Delivery!Settlement]
        /\ inside = "settle" /\ active \in Reads /\ active' = None
    BY <1>2 DEF Delivery!Settle
  <2>3. /\ Delivery!Settlement = "body" =>
             entered = 1 /\ active \notin withdrawn /\ failure = None
        /\ Delivery!Settlement = "refused" => entered \in {0, 1} /\ active \notin withdrawn
        /\ failure # None => Delivery!Settlement = failure
        /\ Delivery!Settlement # "page"
    BY <2>2 DEF Delivery!Settlement
  <2>4. \A c \in Reads : promise'[c] # promise[c] =>
          c = active /\ promise'[c] = Delivery!Settlement
    BY <2>2
  <2> QED  BY <2>2, <2>3, <2>4 DEF Delivery!OneEntry, Delivery!SettlesTruly
<1>3. CASE UNCHANGED <<active, promise>>
  BY <1>3 DEF Delivery!OneEntry, Delivery!SettlesTruly
<1> QED  BY <1>1, <1>2, <1>3 DEF Delivery!Next, delivery, Delivery!Abort, Delivery!Close,
         Delivery!Options, Delivery!Invalid, Delivery!Enters, Delivery!Returns, Delivery!Finish
-----------------------------------------------------------------------------
(* One raw exchange. *)

LEMMA InitExchange == Exchange!Init => ExchangeInv
BY LastIsLast DEF Exchange!Init, ExchangeInv, ExchangeTypes, WritesSound, EvidenceSound

LEMMA StreamLengths == \A s \in ServerStreams : Len(s) \in Nat
BY LastIsLast

\* What an exchange is parsed to is a word.
LEMMA ParsedIsAWord == \A answer : Exchange!Parsed(answer) \in {"response", "body-limit", "invalid-body", "disconnect"}
BY DEF Exchange!Parsed

\* An exchange that finishes has the evidence of its writes, and the end of the
\* server's side when they are complete.
LEMMA FinishStep ==
  ASSUME ExchangeInv, point = "exchanging", NEW error \in ExchangeEnds, Exchange!Finish(error),
         received' \in 0..Len(stream),
         error = "response" /\ writes = "complete" => fin' = TRUE
  PROVE  ExchangeInv'
<1> USE DEF Exchange!Finish, Exchange!request, Exchange!Destroyed
<1>1. ExchangeTypes'
  BY DEF ExchangeInv, ExchangeTypes
<1>2. WritesSound'
  BY DEF ExchangeInv, WritesSound
<1>3. EvidenceSound'
  BY DEF ExchangeInv, ExchangeTypes, EvidenceSound, Evidence
<1> QED  BY <1>1, <1>2, <1>3 DEF ExchangeInv

LEMMA StepExchange == ExchangeInv /\ [Exchange!Next]_raw => ExchangeInv'
<1> SUFFICES ASSUME ExchangeInv, [Exchange!Next]_raw PROVE ExchangeInv'
  OBVIOUS
<1>t. ExchangeTypes /\ WritesSound /\ EvidenceSound /\ Len(stream) \in Nat
  BY StreamLengths DEF ExchangeInv, ExchangeTypes
<1>b. ASSUME NEW error \in ExchangeEnds PROVE Exchange!Broken(error) \in ExchangeEnds
  BY <1>b DEF Exchange!Broken, ExchangeEnds
<1>p. \A answer : Exchange!Parsed(answer) \in ExchangeEnds
  BY ParsedIsAWord DEF ExchangeEnds
<1> USE DEF Exchange!request, Exchange!Live
<1>1. CASE Exchange!Refuse
  <2> USE <1>1, <1>t DEF Exchange!Refuse
  <2>1. ExchangeTypes' /\ WritesSound'
    BY DEF ExchangeTypes, WritesSound
  <2>2. EvidenceSound'
    BY DEF ExchangeTypes, EvidenceSound, Evidence, ExchangeEnds
  <2> QED  BY <2>1, <2>2 DEF ExchangeInv
<1>2. CASE Exchange!Dial
  BY <1>2, <1>t DEF Exchange!Dial, ExchangeInv, ExchangeTypes, WritesSound, EvidenceSound
<1>3. CASE Exchange!Abort
  <2>1. CASE point = "exchanging"
    BY <1>3, <1>t, <2>1, FinishStep DEF Exchange!Abort, ExchangeTypes, ExchangeEnds
  <2>2. CASE point # "exchanging"
    BY <1>3, <1>t, <2>2 DEF Exchange!Abort, ExchangeInv, ExchangeTypes, WritesSound, EvidenceSound
  <2> QED  BY <2>1, <2>2
<1>4. CASE Exchange!Stop
  BY <1>4, <1>t, FinishStep DEF Exchange!Stop, ExchangeTypes, ExchangeEnds
<1>5. CASE Exchange!Connect
  <2>0. /\ point = "exchanging" /\ socket = "connecting" /\ writes = "not-started"
        /\ written = 0 /\ flushed = 0
    BY <1>5, <1>t DEF Exchange!Connect, ExchangeTypes, WritesSound
  <2>1. CASE point' = point
    BY <1>5, <1>t, <2>0, <2>1 DEF Exchange!Connect, Exchange!Started, ExchangeInv, ExchangeTypes,
       WritesSound, EvidenceSound
  <2>2. CASE point' # point
    <3>1. /\ point' = "checked" /\ writes' = "started" /\ written' \in 0..pieces
          /\ evidence' = [end |-> Exchange!Broken("disconnect"), state |-> "started"]
          /\ socket' = "destroyed"
          /\ UNCHANGED <<exact, pieces, stream, flushed, received, fin, cut>>
      BY <1>5, <1>t, <2>2 DEF Exchange!Connect, Exchange!Started, ExchangeTypes
    <3>2. Exchange!Broken("disconnect") \in ExchangeEnds
      BY <1>b DEF ExchangeEnds
    <3>3. ExchangeTypes' /\ WritesSound'
      BY <1>t, <2>0, <3>1 DEF ExchangeTypes, WritesSound
    <3>4. EvidenceSound'
      BY <3>1, <3>2 DEF EvidenceSound, Evidence
    <3> QED  BY <3>3, <3>4 DEF ExchangeInv
  <2> QED  BY <2>1, <2>2
<1>6. CASE Exchange!Flush
  <2>1. CASE Exchange!Finish(Exchange!Broken("disconnect")) /\ UNCHANGED <<received, fin, cut>>
    <3>1. writes # "complete"
      BY <1>6, <1>t DEF Exchange!Flush, ExchangeTypes, WritesSound
    <3>2. Exchange!Broken("disconnect") \in ExchangeEnds
      BY <1>b DEF ExchangeEnds
    <3> QED  BY <1>6, <1>t, <2>1, <3>1, <3>2, FinishStep DEF Exchange!Flush, ExchangeTypes
  <2>2. CASE /\ flushed' = flushed + 1 /\ flushed < written /\ point = "exchanging"
             /\ writes' = IF Exchange!AllFlushed(flushed + 1) THEN "complete" ELSE writes
             /\ UNCHANGED <<exact, pieces, stream, point, socket, written, received, fin, evidence>>
    BY <1>t, <2>2 DEF Exchange!AllFlushed, ExchangeInv, ExchangeTypes, WritesSound, EvidenceSound
  <2> QED  BY <1>6, <2>1, <2>2 DEF Exchange!Flush
<1>7. CASE Exchange!Data
  <2>1. PICK n \in 1..(Len(stream) - received) :
          /\ received' = received + n /\ UNCHANGED fin
          /\ \/ /\ Exchange!Parsed(Exchange!Raw(received + n)) \in {"body-limit", "invalid-body"}
                /\ Exchange!Finish(Exchange!Parsed(Exchange!Raw(received + n)))
             \/ UNCHANGED <<exact, pieces, stream, point, writes, written, flushed, evidence>>
                /\ socket' \in {socket, Exchange!HalfClosed}
    BY <1>7 DEF Exchange!Data
  <2>2. received' \in 0..Len(stream) /\ point = "exchanging" /\ socket \in {"connected", "ended"}
    BY <1>7, <1>t, <2>1 DEF Exchange!Data, ExchangeTypes
  <2>3. CASE /\ Exchange!Parsed(Exchange!Raw(received + n)) \in {"body-limit", "invalid-body"}
             /\ Exchange!Finish(Exchange!Parsed(Exchange!Raw(received + n)))
    BY <1>p, <2>1, <2>2, <2>3, FinishStep
  <2>4. CASE UNCHANGED <<exact, pieces, stream, point, writes, written, flushed, evidence>>
             /\ socket' \in {socket, Exchange!HalfClosed}
    BY <1>t, <2>1, <2>2, <2>4 DEF Exchange!HalfClosed, ExchangeInv, ExchangeTypes, WritesSound,
       EvidenceSound
  <2> QED  BY <2>1, <2>3, <2>4
<1>8. CASE Exchange!CleanUp
  <2>1. CASE Exchange!StillEarly
    BY <1>8, <1>t, <1>p, <2>1, FinishStep DEF Exchange!CleanUp, Exchange!StillEarly, ExchangeTypes
  <2>2. CASE ~Exchange!StillEarly
    BY <1>8, <1>t, <2>2 DEF Exchange!CleanUp, Exchange!HalfClosed, Exchange!StillEarly,
       ExchangeInv, ExchangeTypes, WritesSound, EvidenceSound
  <2> QED  BY <2>1, <2>2
<1>9. CASE Exchange!End
  BY <1>9, <1>t, <1>p, FinishStep DEF Exchange!End, ExchangeTypes
<1>10. CASE Exchange!Fault
  <2>1. PICK error \in {"network", "disconnect"} : Exchange!Finish(Exchange!Broken(error))
    BY <1>10 DEF Exchange!Fault
  <2>2. Exchange!Broken(error) \in ExchangeEnds
    BY <1>b DEF ExchangeEnds
  <2> QED  BY <1>10, <1>t, <2>1, <2>2, FinishStep DEF Exchange!Fault, ExchangeTypes
<1>11. CASE Exchange!Check
  <2> USE <1>11, <1>t DEF Exchange!Check
  <2>1. ExchangeTypes' /\ WritesSound'
    BY DEF ExchangeTypes, WritesSound
  <2>2. PICK late_ \in {None, "abort", "timeout"} :
          evidence' = [evidence EXCEPT !.end =
            IF @ # "response" THEN @
            ELSE IF late_ # None THEN late_ ELSE Exchange!Parsed(Exchange!Raw(received))]
    OBVIOUS
  <2>3. evidence \in Evidence /\ evidence.state = writes
    BY DEF EvidenceSound
  <2>4. evidence' \in Evidence /\ evidence'.state = evidence.state
    BY <1>p, <2>2, <2>3 DEF Evidence, ExchangeEnds
  <2>5. evidence'.end = "response" =>
          evidence.end = "response" /\ Exchange!Parsed(Exchange!Raw(received)) = "response"
    BY <2>2, <2>3 DEF Evidence
  <2>6. Exchange!Raw(received)' = Exchange!Raw(received)
    BY DEF Exchange!Raw
  <2>7. EvidenceSound'
    BY <2>3, <2>4, <2>5, <2>6 DEF EvidenceSound
  <2> QED  BY <2>1, <2>7 DEF ExchangeInv
<1>12. CASE UNCHANGED raw
  BY <1>12, <1>t DEF raw, ExchangeInv, ExchangeTypes, WritesSound, EvidenceSound, Exchange!Raw
<1> QED  BY <1>1, <1>2, <1>3, <1>4, <1>5, <1>6, <1>7, <1>8, <1>9, <1>10, <1>11, <1>12
         DEF Exchange!Next

\* An answer that is parsed as a response ends with its last unit.
LEMMA LastUnitIsLast ==
  ASSUME NEW n \in 0..Len(stream), stream \in ServerStreams,
         Exchange!Parsed(Exchange!Raw(n)) = "response"
  PROVE  LET answer == Exchange!Raw(n) IN
         /\ Len(answer) <= Limit
         /\ \/ "framed" \in Exchange!Units(answer) /\ answer[Len(answer)] = "last"
            \/ "unframed" \in Exchange!Units(answer) /\ "bad" \notin Exchange!Units(answer)
<1> DEFINE answer == Exchange!Raw(n)
<1>1. stream \in Seq(STRING) /\ Len(stream) \in Nat
  BY LastIsLast
<1>2. /\ Len(answer) = n /\ DOMAIN answer = 1..n
      /\ \A i \in 1..n : answer[i] = stream[i] /\ i \in DOMAIN stream
  BY <1>1 DEF Exchange!Raw
<1>3. /\ ~(Len(answer) > Limit) /\ ~Exchange!Bad(answer)
      /\ Exchange!HasHead(answer) /\ Exchange!Ended(answer)
  BY DEF Exchange!Parsed
<1> HIDE DEF answer
<1>4. Len(answer) <= Limit
  BY <1>2, <1>3, PartsAssumption DEF Exchange!LimitIsPositive
<1>5. CASE "framed" \in Exchange!Units(answer)
  <2>1. "last" \in Exchange!Units(answer) /\ "extra" \notin Exchange!Units(answer)
    BY <1>3, <1>5 DEF Exchange!Bad, Exchange!Ended, Exchange!Framed
  <2>2. PICK i \in 1..n : answer[i] = "last"
    BY <1>2, <2>1 DEF Exchange!Units
  <2>3. \A j \in 1..n : answer[j] # "extra"
    BY <1>2, <2>1 DEF Exchange!Units
  <2>4. i = n
    <3> SUFFICES ASSUME i # n PROVE FALSE
      OBVIOUS
    <3>1. i \in DOMAIN stream /\ n \in DOMAIN stream /\ i < n /\ stream[i] = "last"
      BY <1>2, <2>2
    <3>2. stream[n] = "extra"
      BY <3>1, LastIsLast
    <3> QED  BY <1>2, <2>2, <2>3, <3>2
  <2> QED  BY <1>2, <1>4, <1>5, <2>2, <2>4 DEF answer
<1>6. CASE "framed" \notin Exchange!Units(answer)
  BY <1>3, <1>4, <1>6 DEF Exchange!HasHead, Exchange!Bad, answer
<1> QED  BY <1>5, <1>6

LEMMA ExchangePromises ==
  ExchangeInv => /\ Exchange!EvidenceIsTrue /\ Exchange!ResponsesAreWhole
                 /\ Exchange!TrailingBytesAreSeen
<1> SUFFICES ASSUME ExchangeInv
             PROVE  /\ Exchange!EvidenceIsTrue /\ Exchange!ResponsesAreWhole
                    /\ Exchange!TrailingBytesAreSeen
  OBVIOUS
<1>1. ExchangeTypes /\ WritesSound /\ EvidenceSound
  BY DEF ExchangeInv
<1>2. evidence # None => point \in {"checked", "over"} /\ evidence.state = writes
  BY <1>1 DEF ExchangeTypes, EvidenceSound
<1>3. Exchange!EvidenceIsTrue
  BY <1>1, <1>2 DEF Exchange!EvidenceIsTrue, ExchangeTypes, WritesSound
<1>4. Exchange!TrailingBytesAreSeen
  BY <1>1, <1>2 DEF Exchange!TrailingBytesAreSeen, EvidenceSound
<1>5. Exchange!ResponsesAreWhole
  <2> SUFFICES ASSUME point = "over", evidence.end = "response"
               PROVE  LET answer == Exchange!Raw(received) IN
                      /\ Len(answer) <= Limit
                      /\ \/ "framed" \in Exchange!Units(answer) /\ answer[Len(answer)] = "last"
                         \/ /\ "unframed" \in Exchange!Units(answer)
                            /\ "bad" \notin Exchange!Units(answer)
    BY DEF Exchange!ResponsesAreWhole
  <2>1. Exchange!Parsed(Exchange!Raw(received)) = "response"
    BY <1>1 DEF EvidenceSound
  <2> QED  BY <1>1, <2>1, LastUnitIsLast DEF ExchangeTypes
<1> QED  BY <1>3, <1>4, <1>5
-----------------------------------------------------------------------------
(* The coordinator. *)

LEMMA InitCoordinator == Coordinator!Init => CoordinatorInv
<1> SUFFICES ASSUME Coordinator!Init PROVE CoordinatorInv
  OBVIOUS
<1> USE DEF Coordinator!Init
<1>1. CoordinatorTypes
  BY DEF CoordinatorTypes, Owners, Planes
<1>2. StackSound /\ PhaseSound /\ OwnerSound
  BY DEF StackSound, PhaseSound, OwnerSound
<1> QED  BY <1>1, <1>2 DEF CoordinatorInv

\* What is left of two frames.
LEMMA FirstOfTwo ==
  ASSUME NEW S, NEW s \in Seq(S), Len(s) = 2
  PROVE  SubSeq(s, 1, Len(s) - 1) = <<s[1]>>
<1>1. Len(s) - 1 = 1 /\ s[1] \in S
  OBVIOUS
<1> DEFINE shorter == SubSeq(s, 1, 1)
<1>2. shorter \in Seq(S) /\ Len(shorter) = 1
  BY <1>1, SubSeqProperties
<1>3. shorter[1] = s[1]
  OBVIOUS
<1> HIDE DEF shorter
<1>4. shorter = <<s[1]>>
  BY <1>1, <1>2, <1>3, SeqEqual
<1> QED  BY <1>1, <1>4 DEF shorter

\* The stack by its length.
LEMMA StackShapes ==
  ASSUME CoordinatorTypes, StackSound
  PROVE  /\ Len(stack) \in {0, 1, 2}
         /\ Len(stack) = 0 => stack = <<>> /\ Coordinator!Running = "nothing"
         /\ Len(stack) > 0 => stack # <<>> /\ Coordinator!Running = stack[Len(stack)].kind
         /\ Len(stack) = 1 => SubSeq(stack, 1, Len(stack) - 1) = <<>>
         /\ Len(stack) = 2 => SubSeq(stack, 1, Len(stack) - 1) = <<stack[1]>>
         /\ \A kinds : Coordinator!OnStack(kinds) <=>
              \/ Len(stack) > 0 /\ stack[1].kind \in kinds
              \/ Len(stack) > 1 /\ stack[2].kind \in kinds
<1>1. stack \in Seq(Frames)
  BY DEF CoordinatorTypes
<1>2. Len(stack) \in {0, 1, 2}
  BY DEF StackSound
<1>3. stack = <<>> <=> Len(stack) = 0
  BY <1>1
<1>4. DOMAIN stack = 1..Len(stack)
  BY <1>1
<1>5. \A kinds : Coordinator!OnStack(kinds) <=>
        \/ Len(stack) > 0 /\ stack[1].kind \in kinds
        \/ Len(stack) > 1 /\ stack[2].kind \in kinds
  BY <1>2, <1>4 DEF Coordinator!OnStack
<1>6. Len(stack) = 1 => SubSeq(stack, 1, Len(stack) - 1) = <<>>
  BY <1>1
<1>7. Len(stack) = 2 => SubSeq(stack, 1, Len(stack) - 1) = <<stack[1]>>
  BY <1>1, FirstOfTwo
<1> QED  BY <1>2, <1>3, <1>5, <1>6, <1>7 DEF Coordinator!Running

\* What the owner does to itself keeps its shape, and leaves no attempt at its end.
EndsEmpty(o) == o.state = "closed" => o.work = <<>>

LEMMA OwnerShapes ==
  ASSUME NEW o \in Owners, EndsEmpty(o)
  PROVE  /\ Coordinator!Drained(o) \in Owners /\ EndsEmpty(Coordinator!Drained(o))
         /\ Coordinator!ShutDown(o) \in Owners /\ EndsEmpty(Coordinator!ShutDown(o))
<1>1. Coordinator!ShutDown(o) \in Owners /\ EndsEmpty(Coordinator!ShutDown(o))
  BY DEF Coordinator!ShutDown, Owners, EndsEmpty
<1>2. Coordinator!Drained(o) \in Owners /\ EndsEmpty(Coordinator!Drained(o))
  BY DEF Coordinator!Drained, Owners, EndsEmpty
<1> QED  BY <1>1, <1>2

LEMMA FailedShape ==
  ASSUME NEW o \in Owners, EndsEmpty(o), NEW x, x = [o EXCEPT !.failed = TRUE]
  PROVE  x \in Owners /\ EndsEmpty(x)
BY DEF Owners, EndsEmpty

LEMMA EmptiedShape ==
  ASSUME NEW o \in Owners, NEW x, x = [o EXCEPT !.work = <<>>, !.failed = TRUE]
  PROVE  x \in Owners /\ EndsEmpty(x)
<1>1. <<>> \in Seq(Nat)
  OBVIOUS
<1>2. x \in Owners
  BY <1>1 DEF Owners
<1>3. x.work = <<>>
  BY DEF Owners
<1> QED  BY <1>2, <1>3 DEF EndsEmpty

LEMMA OwnerEndShapes ==
  ASSUME NEW o \in Owners, EndsEmpty(o)
  PROVE  /\ Coordinator!Fenced(o) \in Owners /\ EndsEmpty(Coordinator!Fenced(o))
         /\ LET ended == Coordinator!Drained([Coordinator!ShutDown(o) EXCEPT !.failed = TRUE]) IN
            ended \in Owners /\ EndsEmpty(ended)
         /\ \A p \in Coordinator!OwnerCloses(o) : p \in Owners /\ EndsEmpty(p)
<1> DEFINE down == Coordinator!ShutDown(o)
           fault == [down EXCEPT !.failed = TRUE]
           fenced == [down EXCEPT !.work = <<>>, !.failed = TRUE]
<1>1. down \in Owners /\ EndsEmpty(down)
  BY OwnerShapes
<1>2. fault \in Owners /\ EndsEmpty(fault)
  <2> HIDE DEF down
  <2> QED  BY <1>1, FailedShape
<1>3. fenced \in Owners /\ EndsEmpty(fenced)
  <2> HIDE DEF down
  <2> QED  BY <1>1, EmptiedShape
<1>4. /\ Coordinator!Fenced(o) = Coordinator!Drained(fenced)
      /\ Coordinator!OwnerCloses(o) = {Coordinator!Drained(down), Coordinator!Drained(fault)}
  BY DEF Coordinator!Fenced, Coordinator!OwnerCloses
<1> HIDE DEF fault, fenced, down
<1>5. /\ Coordinator!Drained(down) \in Owners /\ EndsEmpty(Coordinator!Drained(down))
      /\ Coordinator!Drained(fault) \in Owners /\ EndsEmpty(Coordinator!Drained(fault))
      /\ Coordinator!Drained(fenced) \in Owners /\ EndsEmpty(Coordinator!Drained(fenced))
  BY <1>1, <1>2, <1>3, OwnerShapes
<1> QED  BY <1>4, <1>5 DEF fault, down

\* What a frame that returns leaves, and the phase it restores.
LEMMA ReturnShapes ==
  ASSUME CoordinatorTypes, StackSound, Coordinator!Returns, Coordinator!Running # "nothing"
  PROVE  \/ /\ Len(stack) = 1 /\ stack' = <<>> /\ Coordinator!Running = stack[1].kind
            /\ stack[1].saved = None => phase' = phase
            /\ stack[1].saved = "accepting" => phase' = "accepting"
         \/ /\ Len(stack) = 2 /\ stack' = <<stack[1]>> /\ Coordinator!Running = stack[2].kind
            /\ phase' = phase
<1>1. stack \in Seq(Frames)
  BY DEF CoordinatorTypes
<1>2. /\ stack' = SubSeq(stack, 1, Len(stack) - 1)
      /\ phase' = IF stack[Len(stack)].saved = None THEN phase ELSE stack[Len(stack)].saved
  BY DEF Coordinator!Returns
<1>3. Len(stack) # 0
  <2> SUFFICES ASSUME Len(stack) = 0 PROVE FALSE
    OBVIOUS
  <2>1. stack = <<>> /\ Coordinator!Running = "nothing"
    BY StackShapes
  <2> QED  BY <2>1
<1>4. Len(stack) \in {1, 2} /\ Coordinator!Running = stack[Len(stack)].kind
  BY <1>3, StackShapes
<1>5. CASE Len(stack) = 1
  <2>1. stack' = <<>> /\ Coordinator!Running = stack[1].kind
    BY <1>2, <1>4, <1>5, StackShapes
  <2>2. phase' = IF stack[1].saved = None THEN phase ELSE stack[1].saved
    BY <1>2, <1>5
  <2> QED  BY <1>5, <2>1, <2>2, NoneIsNothing DEF Words
<1>6. CASE Len(stack) = 2
  <2>1. stack' = <<stack[1]>> /\ Coordinator!Running = stack[2].kind
    BY <1>2, <1>4, <1>6, StackShapes
  <2>2. stack[2].saved = None
    BY <1>6 DEF StackSound
  <2>3. phase' = phase
    BY <1>2, <1>6, <2>2
  <2> QED  BY <1>6, <2>1, <2>3
<1> QED  BY <1>4, <1>5, <1>6

\* What a call leaves that returns to its caller or to the coordinator.
Calls == {"submitting", "binding-read", "reading", "read-callback", "turn", "maintenance"}

LEMMA CallShapes ==
  ASSUME StackSound, Len(stack) = 1, stack[1].kind \in Calls
  PROVE  \/ /\ stack[1].saved = None
            /\ phase \in {"none", "accepting", "construction-cleanup", "draining", "closed"}
         \/ /\ stack[1].saved = "accepting"
            /\ phase \in {"submitting", "binding-read", "reading", "read-callback"}
<1>1. stack # <<>>
  OBVIOUS
<1> QED  BY <1>1 DEF StackSound, Calls

LEMMA ReturnIsSound ==
  ASSUME CoordinatorInv, Coordinator!Returns, Coordinator!Running \in Calls,
         owner' \in Owners, EndsEmpty(owner'), plane' \in Planes, plane'.state = plane.state,
         phase = "closed" => owner'.state = "closed" /\ owner'.failed = owner.failed
  PROVE  CoordinatorInv'
<1>1. CoordinatorTypes /\ StackSound /\ PhaseSound /\ OwnerSound
  BY DEF CoordinatorInv
<1>2. UNCHANGED <<told, reacted, joint, factory>>
  BY DEF Coordinator!Returns
<1>3. stack \in Seq(Frames)
  BY <1>1 DEF CoordinatorTypes
<1>4. Coordinator!Running # "nothing"
  BY DEF Calls
<1>5. OwnerSound' <=> (stack' # <<>> =>
        /\ stack'[1].kind = "turn" => owner'.work # <<>>
        /\ stack'[1].kind = "maintenance" => owner'.state = "accepting")
  BY DEF OwnerSound, EndsEmpty
<1>6. CASE Len(stack) = 1
  <2>1. /\ stack' = <<>> /\ stack[1].kind \in Calls
        /\ stack[1].saved = None => phase' = phase
        /\ stack[1].saved = "accepting" => phase' = "accepting"
    BY <1>1, <1>4, <1>6, ReturnShapes
  <2>2. \/ /\ phase' = phase
           /\ phase \in {"none", "accepting", "construction-cleanup", "draining", "closed"}
        \/ /\ phase' = "accepting"
           /\ phase \in {"submitting", "binding-read", "reading", "read-callback"}
    BY <1>1, <1>6, <2>1, CallShapes
  <2>3. CoordinatorTypes'
    BY <1>1, <1>2, <2>1, <2>2 DEF CoordinatorTypes
  <2>4. StackSound'
    BY <2>1, <2>2 DEF StackSound
  <2>5. PhaseSound'
    BY <1>1, <1>2, <2>2 DEF PhaseSound
  <2> QED  BY <1>5, <2>1, <2>3, <2>4, <2>5 DEF CoordinatorInv
<1>7. CASE Len(stack) = 2
  <2>1. stack' = <<stack[1]>> /\ phase' = phase
    BY <1>1, <1>4, <1>7, ReturnShapes
  <2>2. phase = "reading" /\ stack[1].kind = "reading" /\ stack[1].saved = "accepting"
    BY <1>1, <1>7 DEF StackSound
  <2>3. stack[1] \in Frames
    BY <1>3, <1>7
  <2> DEFINE frame == stack[1]
  <2> HIDE DEF frame
  <2>4. stack' = <<frame>> /\ frame \in Frames /\ frame.kind = "reading" /\ frame.saved = "accepting"
    BY <2>1, <2>2, <2>3 DEF frame
  <2>5. /\ stack' \in Seq(Frames) /\ Len(stack') = 1 /\ stack'[1] = frame
    BY <2>4
  <2>6. CoordinatorTypes'
    BY <1>1, <1>2, <2>1, <2>2, <2>5 DEF CoordinatorTypes
  <2>7. StackSound'
    BY <2>1, <2>2, <2>4, <2>5 DEF StackSound
  <2>8. PhaseSound'
    BY <1>1, <1>2, <2>1, <2>2 DEF PhaseSound
  <2> QED  BY <1>5, <2>4, <2>5, <2>6, <2>7, <2>8 DEF CoordinatorInv
<1> QED  BY <1>1, <1>4, <1>6, <1>7, ReturnShapes

\* A frame that runs alone.
LEMMA AloneIsSound ==
  ASSUME NEW kind \in FrameKinds, NEW saved \in {None, "accepting"},
         stack' = <<Coordinator!Frame(kind, saved)>>
  PROVE  /\ stack' \in Seq(Frames) /\ Len(stack') = 1 /\ stack' # <<>>
         /\ stack'[1].kind = kind /\ stack'[1].saved = saved
<1>1. Coordinator!Frame(kind, saved) \in Frames
  BY DEF Coordinator!Frame, Frames
<1>2. /\ Coordinator!Frame(kind, saved).kind = kind
      /\ Coordinator!Frame(kind, saved).saved = saved
  BY DEF Coordinator!Frame
<1> DEFINE frame == Coordinator!Frame(kind, saved)
<1> HIDE DEF frame
<1> QED  BY <1>1, <1>2 DEF frame

\* Construction takes the owner, and gives it back or closes it.
LEMMA StepConstruction ==
  ASSUME CoordinatorInv,
         \/ Coordinator!ReceivingFails \/ Coordinator!Receives \/ Coordinator!Constructed
         \/ Coordinator!ConstructionFails \/ Coordinator!ConstructionEnds
  PROVE  CoordinatorInv'
<1>1. CoordinatorTypes /\ StackSound /\ PhaseSound /\ OwnerSound
  BY DEF CoordinatorInv
<1>2. CASE Coordinator!ReceivingFails
  <2>1. phase = "none" /\ factory' = "caller" /\ UNCHANGED <<phase, stack, owner, plane, told, joint>>
    BY <1>2 DEF Coordinator!ReceivingFails
  <2>2. CoordinatorTypes' /\ StackSound' /\ OwnerSound'
    BY <1>1, <2>1 DEF CoordinatorTypes, StackSound, OwnerSound
  <2>3. PhaseSound'
    BY <1>1, <2>1 DEF PhaseSound
  <2> QED  BY <2>2, <2>3 DEF CoordinatorInv
<1>3. CASE Coordinator!Receives
  <2>1. /\ phase = "none" /\ phase' = "constructing"
        /\ stack' = <<Coordinator!Frame("constructing", None)>>
        /\ UNCHANGED <<owner, plane, told, joint, factory>>
    BY <1>3 DEF Coordinator!Receives
  <2>2. /\ stack' \in Seq(Frames) /\ Len(stack') = 1
        /\ stack'[1].kind = "constructing" /\ stack'[1].saved = None
    BY <2>1, AloneIsSound DEF FrameKinds
  <2>3. CoordinatorTypes' /\ StackSound' /\ OwnerSound'
    BY <1>1, <2>1, <2>2 DEF CoordinatorTypes, StackSound, OwnerSound
  <2>4. PhaseSound'
    BY <1>1, <2>1 DEF PhaseSound
  <2> QED  BY <2>3, <2>4 DEF CoordinatorInv
<1>4. ASSUME Coordinator!Running = "constructing" PROVE phase = "constructing"
  BY <1>1, <1>4, StackShapes DEF StackSound
<1>5. CASE Coordinator!Constructed
  <2>1. /\ phase = "constructing" /\ phase' = "accepting" /\ stack' = <<>> /\ factory' = "resolved"
        /\ plane' = [plane EXCEPT !.state = "open"] /\ UNCHANGED <<owner, told, joint>>
    BY <1>4, <1>5 DEF Coordinator!Constructed
  <2>2. plane' \in Planes /\ plane'.state = "open"
    BY <1>1, <2>1 DEF CoordinatorTypes, Planes
  <2>3. CoordinatorTypes' /\ StackSound' /\ OwnerSound'
    BY <1>1, <2>1, <2>2 DEF CoordinatorTypes, StackSound, OwnerSound
  <2>4. PhaseSound'
    BY <1>1, <2>1, <2>2 DEF PhaseSound
  <2> QED  BY <2>3, <2>4 DEF CoordinatorInv
<1>6. CASE Coordinator!ConstructionFails
  <2>1. /\ phase = "constructing" /\ phase' = "construction-cleanup" /\ stack' = <<>>
        /\ owner' \in Coordinator!OwnerCloses(owner) /\ UNCHANGED <<plane, told, joint, factory>>
    BY <1>4, <1>6 DEF Coordinator!ConstructionFails, Coordinator!Cleanup
  <2>2. owner' \in Owners /\ EndsEmpty(owner')
    BY <1>1, <2>1, OwnerEndShapes DEF CoordinatorTypes, OwnerSound, EndsEmpty
  <2>3. CoordinatorTypes' /\ StackSound' /\ OwnerSound'
    BY <1>1, <2>1, <2>2 DEF CoordinatorTypes, StackSound, OwnerSound, EndsEmpty
  <2>4. PhaseSound'
    BY <1>1, <2>1 DEF PhaseSound
  <2> QED  BY <2>3, <2>4 DEF CoordinatorInv
<1>7. CASE Coordinator!ConstructionEnds
  <2>1. /\ phase = "construction-cleanup" /\ owner.state = "closed"
        /\ phase' = "closed" /\ joint' = "rejected" /\ factory' = "coordinator"
        /\ stack = <<>> /\ UNCHANGED <<stack, owner, plane, told>>
    BY <1>7 DEF Coordinator!ConstructionEnds
  <2>2. CoordinatorTypes' /\ StackSound' /\ OwnerSound'
    BY <1>1, <2>1 DEF CoordinatorTypes, StackSound, OwnerSound
  <2>3. PhaseSound'
    BY <1>1, <2>1 DEF PhaseSound
  <2> QED  BY <2>2, <2>3 DEF CoordinatorInv
<1> QED  BY <1>2, <1>3, <1>5, <1>6, <1>7

\* With nothing on the stack and its plane open, the coordinator is accepting.
LEMMA IdleIsAccepting ==
  ASSUME StackSound, PhaseSound, stack = <<>>, plane.state = "open"
  PROVE  phase = "accepting"
BY DEF StackSound, PhaseSound

\* What the gate lets in meets no frame.
LEMMA GateMeetsNothing ==
  ASSUME CoordinatorTypes, StackSound, phase = "accepting", ~Coordinator!OwnerBusy
  PROVE  stack = <<>>
<1>1. ~Coordinator!OnStack({"submitting", "reading", "turn", "maintenance", "closing"})
  BY DEF Coordinator!OwnerBusy
<1>2. ~(Len(stack) > 0 /\ stack[1].kind \in {"turn", "maintenance"})
  BY <1>1, StackShapes
<1> QED  BY <1>2 DEF StackSound

LEMMA AppendToNothing == ASSUME NEW x PROVE Append(<<>>, x) = <<x>>
OBVIOUS

\* Calls, callbacks and the tasks of the owner begin.
LEMMA StepEnter ==
  ASSUME CoordinatorInv, NEW kind \in {"submitting", "binding-read", "reading"},
         Coordinator!Enter(kind)
  PROVE  CoordinatorInv'
<1>1. CoordinatorTypes /\ StackSound /\ PhaseSound /\ OwnerSound
  BY DEF CoordinatorInv
<1>2. /\ phase = "accepting" /\ phase' = kind
      /\ stack' = Append(stack, Coordinator!Frame(kind, phase))
      /\ UNCHANGED <<owner, plane, told, joint, factory>>
  BY DEF Coordinator!Enter, Coordinator!Gate
<1>3. ~Coordinator!OwnerBusy
  BY DEF Coordinator!Enter, Coordinator!Gate
<1>4. stack = <<>>
  BY <1>1, <1>2, <1>3, GateMeetsNothing
<1>5. stack' = <<Coordinator!Frame(kind, "accepting")>>
  BY <1>2, <1>4, AppendToNothing
<1>6. /\ stack' \in Seq(Frames) /\ Len(stack') = 1 /\ stack' # <<>>
      /\ stack'[1].kind = kind /\ stack'[1].saved = "accepting"
  BY <1>5, AloneIsSound DEF FrameKinds
<1>7. CoordinatorTypes' /\ StackSound' /\ OwnerSound'
  BY <1>1, <1>2, <1>6 DEF CoordinatorTypes, StackSound, OwnerSound
<1>8. PhaseSound'
  BY <1>1, <1>2 DEF PhaseSound
<1> QED  BY <1>7, <1>8 DEF CoordinatorInv

LEMMA StepCallback ==
  ASSUME CoordinatorInv, Coordinator!Callback
  PROVE  CoordinatorInv'
<1>1. CoordinatorTypes /\ StackSound /\ PhaseSound /\ OwnerSound
  BY DEF CoordinatorInv
<1>2. UNCHANGED <<owner, plane, told, joint, factory>>
  BY DEF Coordinator!Callback
<1>3. CASE Coordinator!Running = "reading"
  <2>1. Len(stack) = 1 /\ stack[1].kind = "reading" /\ stack[1].saved = "accepting" /\ phase = "reading"
    BY <1>1, <1>3, StackShapes DEF StackSound
  <2>2. stack' = Append(stack, Coordinator!Frame("read-callback", None)) /\ phase' = phase
    BY <2>1 DEF Coordinator!Callback, Coordinator!Delegating
  <2> DEFINE frame == Coordinator!Frame("read-callback", None)
  <2>3. frame \in Frames /\ frame.kind = "read-callback" /\ frame.saved = None
    BY DEF Coordinator!Frame, Frames, FrameKinds
  <2> HIDE DEF frame
  <2>4. /\ stack' \in Seq(Frames) /\ Len(stack') = 2 /\ stack' # <<>>
        /\ stack'[1] = stack[1] /\ stack'[2] = frame
    <3>1. stack \in Seq(Frames) /\ stack' = Append(stack, frame)
      BY <1>1, <2>2 DEF CoordinatorTypes, frame
    <3>2. /\ Append(stack, frame) \in Seq(Frames) /\ Append(stack, frame) # <<>>
          /\ Len(Append(stack, frame)) = Len(stack) + 1
          /\ \A i \in 1..Len(stack) : Append(stack, frame)[i] = stack[i]
          /\ Append(stack, frame)[Len(stack) + 1] = frame
      BY <2>3, <3>1, AppendProperties
    <3>3. 1 \in 1..Len(stack) /\ Len(stack) + 1 = 2
      BY <2>1
    <3> QED  BY <3>1, <3>2, <3>3
  <2>5. CoordinatorTypes' /\ OwnerSound'
    BY <1>1, <1>2, <2>1, <2>2, <2>4 DEF CoordinatorTypes, OwnerSound
  <2>6. StackSound'
    BY <2>1, <2>2, <2>3, <2>4 DEF StackSound
  <2>7. PhaseSound'
    BY <1>1, <1>2, <2>2 DEF PhaseSound
  <2> QED  BY <2>5, <2>6, <2>7 DEF CoordinatorInv
<1>4. CASE Coordinator!Task /\ plane.state = "open"
  <2>1. stack = <<>> /\ phase = "accepting"
    BY <1>1, <1>4, IdleIsAccepting DEF Coordinator!Task
  <2>2. /\ stack' = Append(stack, Coordinator!Frame("read-callback", phase))
        /\ phase' = "read-callback"
    BY <2>1 DEF Coordinator!Callback, Coordinator!Delegating
  <2>3. stack' = <<Coordinator!Frame("read-callback", "accepting")>>
    BY <2>1, <2>2, AppendToNothing
  <2>4. /\ stack' \in Seq(Frames) /\ Len(stack') = 1 /\ stack' # <<>>
        /\ stack'[1].kind = "read-callback" /\ stack'[1].saved = "accepting"
    BY <2>3, AloneIsSound DEF FrameKinds
  <2>5. CoordinatorTypes' /\ StackSound' /\ OwnerSound'
    BY <1>1, <1>2, <2>2, <2>4 DEF CoordinatorTypes, StackSound, OwnerSound
  <2>6. PhaseSound'
    BY <1>1, <1>2, <2>1, <2>2 DEF PhaseSound
  <2> QED  BY <2>5, <2>6 DEF CoordinatorInv
<1> QED  BY <1>3, <1>4 DEF Coordinator!Callback

LEMMA StepOwnerTasks ==
  ASSUME CoordinatorInv, Coordinator!Turn \/ Coordinator!Maintain
  PROVE  CoordinatorInv'
<1>1. CoordinatorTypes /\ StackSound /\ PhaseSound /\ OwnerSound
  BY DEF CoordinatorInv
<1>2. stack = <<>> /\ UNCHANGED <<phase, owner, plane, told, joint, factory>>
  BY DEF Coordinator!Turn, Coordinator!Maintain, Coordinator!Task
<1>3. \/ stack' = <<Coordinator!Frame("turn", None)>> /\ owner.work # <<>>
      \/ stack' = <<Coordinator!Frame("maintenance", None)>> /\ owner.state = "accepting"
  BY DEF Coordinator!Turn, Coordinator!Maintain
<1>4. /\ stack' \in Seq(Frames) /\ Len(stack') = 1 /\ stack' # <<>> /\ stack'[1].saved = None
      /\ \/ stack'[1].kind = "turn" /\ owner.work # <<>>
         \/ stack'[1].kind = "maintenance" /\ owner.state = "accepting"
  BY <1>3, AloneIsSound DEF FrameKinds
<1>5. phase \in {"none", "accepting", "construction-cleanup", "draining", "closed"}
  BY <1>1, <1>2 DEF StackSound
<1>6. CoordinatorTypes' /\ StackSound' /\ OwnerSound'
  BY <1>1, <1>2, <1>4, <1>5 DEF CoordinatorTypes, StackSound, OwnerSound
<1>7. PhaseSound'
  BY <1>1, <1>2 DEF PhaseSound
<1> QED  BY <1>6, <1>7 DEF CoordinatorInv

\* Calls, callbacks and the tasks of the owner end.
LEMMA StepCallEnds ==
  ASSUME CoordinatorInv,
         \/ Coordinator!SubmitEnds \/ Coordinator!ReadForEnds \/ Coordinator!ReadEnds
         \/ Coordinator!CallbackEnds
  PROVE  CoordinatorInv'
<1>1. CoordinatorTypes /\ StackSound /\ PhaseSound /\ OwnerSound
  BY DEF CoordinatorInv
<1>2. owner \in Owners /\ EndsEmpty(owner) /\ plane \in Planes
  BY <1>1 DEF CoordinatorTypes, OwnerSound, EndsEmpty
<1>3. Coordinator!Running \in Calls /\ Coordinator!Returns
  BY DEF Coordinator!SubmitEnds, Coordinator!ReadForEnds, Coordinator!ReadEnds,
         Coordinator!CallbackEnds, Calls
<1>4. phase # "closed"
  <2>1. Coordinator!Running \in {"submitting", "binding-read", "reading", "read-callback"}
    BY DEF Coordinator!SubmitEnds, Coordinator!ReadForEnds, Coordinator!ReadEnds,
           Coordinator!CallbackEnds
  <2> QED  BY <1>1, <2>1, StackShapes DEF StackSound
<1>5. Coordinator!Fenced(owner) \in Owners /\ EndsEmpty(Coordinator!Fenced(owner))
  BY <1>2, OwnerEndShapes
<1>6. CASE Coordinator!SubmitEnds
  <2>1. plane' = plane
    BY <1>6 DEF Coordinator!SubmitEnds
  <2>2. owner' \in Owners /\ EndsEmpty(owner')
    <3>1. CASE owner' \in {owner, Coordinator!Fenced(owner)}
      BY <1>2, <1>5, <3>1
    <3>2. ASSUME NEW n \in AttemptLengths, owner.state = "accepting",
                 owner' = [owner EXCEPT !.work = Append(@, n)]
          PROVE  owner' \in Owners /\ EndsEmpty(owner')
      <4>1. n \in Nat
        BY PartsAssumption DEF Coordinator!LengthsArePositive
      <4>2. Append(owner.work, n) \in Seq(Nat)
        BY <1>2, <4>1 DEF Owners
      <4> QED  BY <1>2, <3>2, <4>2 DEF Owners, EndsEmpty
    <3> QED  BY <1>6, <3>1, <3>2 DEF Coordinator!SubmitEnds
  <2> QED  BY <1>2, <1>3, <1>4, <2>1, <2>2, ReturnIsSound
<1>7. CASE Coordinator!ReadForEnds
  <2>1. owner' = owner /\ plane' = [plane EXCEPT !.facet = TRUE]
    BY <1>7 DEF Coordinator!ReadForEnds
  <2>2. plane' \in Planes /\ plane'.state = plane.state
    BY <1>2, <2>1 DEF Planes
  <2> QED  BY <1>2, <1>3, <1>4, <2>1, <2>2, ReturnIsSound
<1>8. CASE Coordinator!ReadEnds
  <2>1. plane' = plane /\ owner' \in {owner, Coordinator!Fenced(owner)}
    BY <1>8 DEF Coordinator!ReadEnds
  <2>2. owner' \in Owners /\ EndsEmpty(owner')
    BY <1>2, <1>5, <2>1
  <2> QED  BY <1>2, <1>3, <1>4, <2>1, <2>2, ReturnIsSound
<1>9. CASE Coordinator!CallbackEnds
  <2>1. plane' = plane /\ owner' = owner
    BY <1>9 DEF Coordinator!CallbackEnds
  <2> QED  BY <1>2, <1>3, <1>4, <2>1, ReturnIsSound
<1> QED  BY <1>6, <1>7, <1>8, <1>9

\* What is left of an attempt's members, or of the attempts.
LEMMA MembersLeft ==
  ASSUME NEW o \in Owners, NEW i \in DOMAIN o.work
  PROVE  /\ Coordinator!Without(o.work, i) \in Seq(Nat)
         /\ o.work[i] \in Nat /\ i \in 1..Len(o.work)
<1>1. o.work \in Seq(Nat)
  BY DEF Owners
<1>2. i \in 1..Len(o.work)
  BY <1>1
<1>3. SubSeq(o.work, 1, i - 1) \in Seq(Nat) /\ SubSeq(o.work, i + 1, Len(o.work)) \in Seq(Nat)
  BY <1>1, <1>2
<1>4. Coordinator!Without(o.work, i) \in Seq(Nat)
  BY <1>3 DEF Coordinator!Without
<1> QED  BY <1>1, <1>2, <1>4

LEMMA StepTaskEnds ==
  ASSUME CoordinatorInv, Coordinator!MemberEnds \/ Coordinator!MaintenanceEnds
  PROVE  CoordinatorInv'
<1>1. CoordinatorTypes /\ StackSound /\ PhaseSound /\ OwnerSound
  BY DEF CoordinatorInv
<1>2. owner \in Owners /\ EndsEmpty(owner) /\ plane \in Planes
  BY <1>1 DEF CoordinatorTypes, OwnerSound, EndsEmpty
<1>3. Coordinator!Running \in {"turn", "maintenance"} /\ Coordinator!Returns /\ plane' = plane
  BY DEF Coordinator!MemberEnds, Coordinator!MaintenanceEnds
<1>4. owner.state # "closed"
  <2>1. stack # <<>> /\ stack[1].kind \in {"turn", "maintenance"}
    BY <1>1, <1>3, StackShapes DEF StackSound
  <2> QED  BY <1>1, <2>1 DEF OwnerSound
<1>5. phase # "closed"
  BY <1>1, <1>4 DEF PhaseSound
<1>6. Coordinator!Fenced(owner) \in Owners /\ EndsEmpty(Coordinator!Fenced(owner))
  BY <1>2, OwnerEndShapes
<1>7. owner' \in Owners /\ EndsEmpty(owner')
  <2>1. CASE owner' \in {owner, Coordinator!Fenced(owner)}
    BY <1>2, <1>6, <2>1
  <2>2. CASE owner' = Coordinator!Drained([Coordinator!ShutDown(owner) EXCEPT !.failed = TRUE])
    BY <1>2, <2>2, OwnerEndShapes
  <2>3. ASSUME NEW i \in DOMAIN owner.work, Coordinator!MoreLeft(owner.work[i]),
               owner' = [owner EXCEPT !.work[i] = @ - 1]
        PROVE  owner' \in Owners /\ EndsEmpty(owner')
    <3>1. owner.work \in Seq(Nat) /\ owner.work[i] \in Nat /\ i \in 1..Len(owner.work)
      BY <1>2, MembersLeft DEF Owners
    <3>2. owner.work[i] - 1 \in Nat
      BY <2>3, <3>1 DEF Coordinator!MoreLeft
    <3>3. [owner.work EXCEPT ![i] = owner.work[i] - 1] \in Seq(Nat)
      BY <3>1, <3>2
    <3>4. owner' = [owner EXCEPT !.work = [owner.work EXCEPT ![i] = owner.work[i] - 1]]
      BY <2>3
    <3> QED  BY <1>2, <1>4, <3>3, <3>4 DEF Owners, EndsEmpty
  <2>4. ASSUME NEW i \in DOMAIN owner.work, NEW ended,
               ended = [owner EXCEPT !.work = Coordinator!Without(owner.work, i)],
               owner' \in {Coordinator!Drained(ended),
                           Coordinator!Drained([Coordinator!ShutDown(ended) EXCEPT !.failed = TRUE])}
        PROVE  owner' \in Owners /\ EndsEmpty(owner')
    <3>1. Coordinator!Without(owner.work, i) \in Seq(Nat)
      BY <1>2, MembersLeft
    <3>2. ended \in Owners /\ EndsEmpty(ended)
      BY <1>2, <1>4, <2>4, <3>1 DEF Owners, EndsEmpty
    <3>3. /\ Coordinator!Drained(ended) \in Owners /\ EndsEmpty(Coordinator!Drained(ended))
      BY <3>2, OwnerShapes
    <3>4. LET fault == Coordinator!Drained([Coordinator!ShutDown(ended) EXCEPT !.failed = TRUE]) IN
          fault \in Owners /\ EndsEmpty(fault)
      BY <3>2, OwnerEndShapes
    <3> QED  BY <2>4, <3>3, <3>4
  <2>5. \/ owner' \in {owner, Coordinator!Fenced(owner)}
        \/ owner' = Coordinator!Drained([Coordinator!ShutDown(owner) EXCEPT !.failed = TRUE])
        \/ \E i \in DOMAIN owner.work :
             LET ended == [owner EXCEPT !.work = Coordinator!Without(owner.work, i)] IN
             \/ Coordinator!MoreLeft(owner.work[i]) /\ owner' = [owner EXCEPT !.work[i] = @ - 1]
             \/ owner' \in {Coordinator!Drained(ended),
                            Coordinator!Drained([Coordinator!ShutDown(ended) EXCEPT !.failed = TRUE])}
    BY DEF Coordinator!MemberEnds, Coordinator!MaintenanceEnds
  <2> QED  BY <2>1, <2>2, <2>3, <2>4, <2>5
<1> QED  BY <1>2, <1>3, <1>5, <1>7, ReturnIsSound DEF Calls

\* Both close together, once neither is entered, and the owner's end is waited for.
LEMMA ToldIsBoth ==
  ASSUME Coordinator!BeginsClosing, ~Coordinator!OwnerBusy
  PROVE  told' = ToldBoth
<1>1. Coordinator!OwnerBusy = FALSE
  BY Zenon DEF Coordinator!OwnerBusy, Coordinator!OnStack
<1>2. told' = [owner |-> Coordinator!OwnerBusy, plane |-> FALSE]
  BY Zenon DEF Coordinator!BeginsClosing
<1> QED  BY <1>1, <1>2, Zenon DEF ToldBoth

LEMMA BeginIsSound ==
  ASSUME CoordinatorInv, stack = <<>>, phase = "accepting", Coordinator!BeginsClosing,
         ~Coordinator!OwnerBusy, UNCHANGED <<owner, plane, joint, factory>>
  PROVE  CoordinatorInv'
<1>1. CoordinatorTypes /\ StackSound /\ PhaseSound /\ OwnerSound
  BY DEF CoordinatorInv
<1>2. told' = ToldBoth
  BY ToldIsBoth
<1>3. phase' = "closing" /\ stack' = <<Coordinator!Frame("closing", None)>>
  BY AppendToNothing DEF Coordinator!BeginsClosing
<1>4. /\ stack' \in Seq(Frames) /\ Len(stack') = 1 /\ stack' # <<>>
      /\ stack'[1].kind = "closing" /\ stack'[1].saved = None
  BY <1>3, AloneIsSound DEF FrameKinds
<1>5. CoordinatorTypes' /\ StackSound' /\ OwnerSound'
  BY <1>1, <1>2, <1>3, <1>4 DEF CoordinatorTypes, StackSound, OwnerSound
<1>6. PhaseSound'
  BY <1>1, <1>3 DEF PhaseSound
<1> QED  BY <1>5, <1>6 DEF CoordinatorInv

LEMMA IdleIsNotBusy == ASSUME stack = <<>> PROVE ~Coordinator!OwnerBusy
<1>1. DOMAIN stack = {}
  OBVIOUS
<1> QED  BY <1>1 DEF Coordinator!OwnerBusy, Coordinator!OnStack

LEMMA StepClose ==
  ASSUME CoordinatorInv, Coordinator!Close
  PROVE  CoordinatorInv'
<1>1. CoordinatorTypes /\ StackSound /\ PhaseSound
  BY DEF CoordinatorInv
<1>2. /\ factory = "resolved" /\ ~Coordinator!Delegating(phase) /\ phase # "read-callback"
      /\ phase \notin {"construction-cleanup", "draining", "closed"}
  BY DEF Coordinator!Close, Coordinator!Call, Coordinator!Gate
<1>3. ~Coordinator!OwnerBusy
  BY DEF Coordinator!Close, Coordinator!Gate
<1>4. phase \notin {"none", "constructing"}
  BY <1>1, <1>2 DEF PhaseSound
<1>5. phase = "accepting"
  BY <1>1, <1>2, <1>4 DEF StackSound, Coordinator!Delegating
<1>6. stack = <<>>
  BY <1>1, <1>3, <1>5, GateMeetsNothing
<1>7. Coordinator!BeginsClosing /\ UNCHANGED <<owner, plane, joint, factory>>
  BY DEF Coordinator!Close
<1> QED  BY <1>3, <1>5, <1>6, <1>7, BeginIsSound

LEMMA StepCloseBoth ==
  ASSUME CoordinatorInv, Coordinator!CloseOwner \/ Coordinator!ClosePlane
  PROVE  CoordinatorInv'
<1>1. CoordinatorTypes /\ StackSound /\ PhaseSound /\ OwnerSound
  BY DEF CoordinatorInv
<1>2. /\ Len(stack) = 1 /\ stack[1].kind \in {"closing", "disposing"} /\ stack[1].saved = None
      /\ phase = "closing" /\ Coordinator!Running = stack[1].kind
  <2>1. Coordinator!Running \in {"closing", "disposing"}
    BY DEF Coordinator!CloseOwner, Coordinator!ClosePlane
  <2> QED  BY <1>1, <2>1, StackShapes DEF StackSound
<1>3. told = ToldBoth
  BY <1>1, <1>2 DEF CoordinatorTypes
<1>4. CASE Coordinator!CloseOwner
  <2>1. /\ owner' \in Coordinator!OwnerCloses(owner)
        /\ stack' = [stack EXCEPT ![1].kind = "disposing"]
        /\ UNCHANGED <<phase, plane, told, joint, factory>>
    BY <1>2, <1>3, <1>4 DEF Coordinator!CloseOwner, ToldBoth
  <2>2. owner' \in Owners /\ EndsEmpty(owner')
    BY <1>1, <2>1, OwnerEndShapes DEF CoordinatorTypes, OwnerSound, EndsEmpty
  <2>3. /\ stack' \in Seq(Frames) /\ Len(stack') = 1 /\ stack' # <<>>
        /\ stack'[1].kind = "disposing" /\ stack'[1].saved = None
    <3>1. stack \in Seq(Frames) /\ stack[1] \in Frames /\ 1 \in 1..Len(stack)
      BY <1>1, <1>2 DEF CoordinatorTypes
    <3> DEFINE frame == [stack[1] EXCEPT !.kind = "disposing"]
    <3>2. frame \in Frames /\ frame.kind = "disposing" /\ frame.saved = None
      BY <1>2, <3>1 DEF Frames, FrameKinds
    <3>3. stack' = [stack EXCEPT ![1] = frame]
      BY <2>1
    <3> HIDE DEF frame
    <3>4. stack' \in Seq(Frames) /\ Len(stack') = 1
      <4>1. [stack EXCEPT ![1] = frame] \in Seq(Frames)
            /\ Len([stack EXCEPT ![1] = frame]) = Len(stack)
        BY <3>1, <3>2, ExceptSeq
      <4> QED  BY <1>2, <3>3, <4>1
    <3>5. stack'[1] = frame
      BY <3>1, <3>3
    <3>6. stack' # <<>>
      BY <3>4
    <3> QED  BY <3>2, <3>4, <3>5, <3>6
  <2>4. CoordinatorTypes' /\ StackSound' /\ OwnerSound'
    BY <1>1, <1>2, <2>1, <2>2, <2>3 DEF CoordinatorTypes, StackSound, OwnerSound, EndsEmpty
  <2>5. PhaseSound'
    BY <1>1, <1>2, <2>1 DEF PhaseSound
  <2> QED  BY <2>4, <2>5 DEF CoordinatorInv
<1>5. CASE Coordinator!ClosePlane
  <2>1. ~Coordinator!PlaneBusy
    <3>1. stack[1].kind # "reading"
      BY <1>2
    <3> QED  BY <1>1, <1>2, <3>1, StackShapes DEF Coordinator!PlaneBusy
  <2>2. phase' = "draining" /\ stack' = <<>> /\ UNCHANGED <<owner, joint, factory>>
    BY <1>1, <1>2, <1>5, StackShapes DEF Coordinator!ClosePlane
  <2>3. PICK end \in {"closed", "failed"} :
          told' = told /\ plane' = [plane EXCEPT !.state = IF @ = "open" THEN end ELSE @]
    BY <1>5, <2>1 DEF Coordinator!ClosePlane
  <2>4. plane.state = "open"
    BY <1>1, <1>2 DEF PhaseSound
  <2>5. plane' \in Planes /\ plane'.state = end
    BY <1>1, <2>3, <2>4 DEF CoordinatorTypes, Planes
  <2>6. CoordinatorTypes' /\ StackSound' /\ OwnerSound'
    BY <1>1, <2>2, <2>3, <2>5 DEF CoordinatorTypes, StackSound, OwnerSound
  <2>7. PhaseSound'
    BY <1>1, <1>2, <2>2, <2>5 DEF PhaseSound
  <2> QED  BY <2>6, <2>7 DEF CoordinatorInv
<1> QED  BY <1>4, <1>5

LEMMA StepEnds ==
  ASSUME CoordinatorInv, Coordinator!OwnerFinished \/ Coordinator!JointSettles
  PROVE  CoordinatorInv'
<1>1. CoordinatorTypes /\ StackSound /\ PhaseSound /\ OwnerSound
  BY DEF CoordinatorInv
<1>2. CASE Coordinator!OwnerFinished
  <2>1. stack = <<>> /\ phase # "none" /\ UNCHANGED <<owner, plane, factory>>
    BY <1>2 DEF Coordinator!OwnerFinished, Coordinator!Owed
  <2>2. CASE phase \in {"construction-cleanup", "closed", "draining"}
    <3>1. UNCHANGED <<phase, stack, owner, plane, told, joint, factory>>
      BY <1>2, <2>1, <2>2 DEF Coordinator!OwnerFinished, Coordinator!OwnerEnds
    <3>2. CoordinatorTypes' /\ StackSound' /\ OwnerSound'
      BY <1>1, <3>1 DEF CoordinatorTypes, StackSound, OwnerSound
    <3>3. PhaseSound'
      BY <1>1, <3>1 DEF PhaseSound
    <3> QED  BY <3>2, <3>3 DEF CoordinatorInv
  <2>3. CASE phase \notin {"construction-cleanup", "closed", "draining"}
    <3>1. phase = "accepting"
      BY <1>1, <2>1, <2>3 DEF StackSound
    <3>2. ~Coordinator!OwnerBusy
      BY <2>1, IdleIsNotBusy
    <3>3. Coordinator!Gate(FALSE)
      BY <3>1, <3>2 DEF Coordinator!Gate, Coordinator!Delegating
    <3>4. Coordinator!BeginsClosing /\ UNCHANGED joint
      BY <1>2, <2>3, <3>3 DEF Coordinator!OwnerFinished, Coordinator!OwnerEnds
    <3> QED  BY <2>1, <3>1, <3>2, <3>4, BeginIsSound
  <2> QED  BY <2>2, <2>3
<1>3. CASE Coordinator!JointSettles
  <2>1. /\ phase = "draining" /\ stack = <<>> /\ phase' = "closed"
        /\ owner.state = "closed" /\ plane.state \in {"closed", "failed"}
        /\ joint' = Coordinator!Verdict /\ UNCHANGED <<stack, owner, plane, told, factory>>
    BY <1>3 DEF Coordinator!JointSettles, Coordinator!Task, Coordinator!Settled
  <2>2. /\ joint' \in {"rejected", "resolved"}
        /\ joint' = "resolved" => ~owner.failed /\ plane.state # "failed"
    BY <2>1 DEF Coordinator!Verdict
  <2>3. CoordinatorTypes' /\ StackSound' /\ OwnerSound'
    BY <1>1, <2>1 DEF CoordinatorTypes, StackSound, OwnerSound
  <2>4. PhaseSound'
    BY <1>1, <2>1, <2>2 DEF PhaseSound
  <2> QED  BY <2>3, <2>4 DEF CoordinatorInv
<1> QED  BY <1>2, <1>3

LEMMA StepCoordinator == CoordinatorInv /\ Coordinator!Next => CoordinatorInv'
<1> SUFFICES ASSUME CoordinatorInv, Coordinator!Next PROVE CoordinatorInv'
  OBVIOUS
<1>1. CASE \/ Coordinator!ReceivingFails \/ Coordinator!Receives \/ Coordinator!Constructed
           \/ Coordinator!ConstructionFails \/ Coordinator!ConstructionEnds
  BY <1>1, StepConstruction
<1>2. CASE Coordinator!Submit \/ Coordinator!ReadFor \/ Coordinator!Read
  BY <1>2, StepEnter DEF Coordinator!Submit, Coordinator!ReadFor, Coordinator!Read
<1>3. CASE \/ Coordinator!SubmitEnds \/ Coordinator!ReadForEnds \/ Coordinator!ReadEnds
           \/ Coordinator!CallbackEnds
  BY <1>3, StepCallEnds
<1>4. CASE Coordinator!Callback
  BY <1>4, StepCallback
<1>5. CASE Coordinator!Turn \/ Coordinator!Maintain
  BY <1>5, StepOwnerTasks
<1>6. CASE Coordinator!MemberEnds \/ Coordinator!MaintenanceEnds
  BY <1>6, StepTaskEnds
<1>7. CASE Coordinator!Close
  BY <1>7, StepClose
<1>8. CASE Coordinator!CloseOwner \/ Coordinator!ClosePlane
  BY <1>8, StepCloseBoth
<1>9. CASE Coordinator!OwnerFinished \/ Coordinator!JointSettles
  BY <1>9, StepEnds
<1> QED  BY <1>1, <1>2, <1>3, <1>4, <1>5, <1>6, <1>7, <1>8, <1>9
         DEF Coordinator!Next, Coordinator!Proceeds

LEMMA CoordinatorPromises ==
  CoordinatorInv => Coordinator!JointTellsBoth /\ Coordinator!OneEntry
<1> SUFFICES ASSUME CoordinatorInv PROVE Coordinator!JointTellsBoth /\ Coordinator!OneEntry
  OBVIOUS
<1>1. CoordinatorTypes /\ StackSound /\ PhaseSound /\ OwnerSound
  BY DEF CoordinatorInv
<1>2. phase \in {"none", "constructing", "construction-cleanup", "accepting", "submitting",
                 "binding-read", "reading", "read-callback", "closing", "draining", "closed"}
  BY <1>1 DEF StackSound
<1>3. Coordinator!JointTellsBoth
  BY <1>1, <1>2 DEF PhaseSound, OwnerSound, Coordinator!JointTellsBoth
<1>4. Coordinator!OneEntry
  <2>1. told # None => ~told.owner /\ ~told.plane
    BY <1>1 DEF CoordinatorTypes, ToldBoth
  <2>2. ASSUME NEW i \in DOMAIN stack, i > 1
        PROVE  stack[i].kind = "read-callback" /\ stack[i - 1].kind = "reading"
    <3>1. i = 2 /\ Len(stack) = 2
      BY <1>1, <2>2, StackShapes DEF CoordinatorTypes
    <3> QED  BY <1>1, <3>1 DEF StackSound
  <2> QED  BY <2>1, <2>2 DEF Coordinator!OneEntry
<1> QED  BY <1>3, <1>4

LEMMA CoordinatorDrains ==
  CoordinatorInv /\ Coordinator!Next => Coordinator!DrainingIsFinal
<1> SUFFICES ASSUME CoordinatorInv, Coordinator!Next,
                    phase \in {"construction-cleanup", "draining", "closed"}
             PROVE  phase' \in {phase, "closed"} /\ admitted' = admitted /\ plane' = plane
  BY DEF Coordinator!DrainingIsFinal, Coordinator!Draining
<1>1. CoordinatorTypes /\ StackSound /\ PhaseSound /\ OwnerSound
  BY DEF CoordinatorInv
<1>2. \/ stack = <<>> /\ Coordinator!Running = "nothing"
      \/ /\ Len(stack) = 1 /\ stack[1].saved = None /\ Coordinator!Running = stack[1].kind
         /\ stack[1].kind \in {"turn", "maintenance"}
  BY <1>1, StackShapes DEF StackSound
<1>3. Coordinator!Running \in {"nothing", "turn", "maintenance"}
  BY <1>2
<1>4. plane.state # "open"
  BY <1>1 DEF PhaseSound
<1> USE <1>3, <1>4
<1>5. CASE \/ Coordinator!ReceivingFails \/ Coordinator!Receives \/ Coordinator!Constructed
           \/ Coordinator!ConstructionFails \/ Coordinator!ConstructionEnds
  BY <1>5 DEF Coordinator!ReceivingFails, Coordinator!Receives, Coordinator!Constructed,
       Coordinator!ConstructionFails, Coordinator!ConstructionEnds
<1>6. CASE Coordinator!Submit \/ Coordinator!ReadFor \/ Coordinator!Read
  BY <1>6 DEF Coordinator!Submit, Coordinator!ReadFor, Coordinator!Read, Coordinator!Enter,
       Coordinator!Gate
<1>7. CASE \/ Coordinator!SubmitEnds \/ Coordinator!ReadForEnds \/ Coordinator!ReadEnds
           \/ Coordinator!CallbackEnds
  BY <1>7 DEF Coordinator!SubmitEnds, Coordinator!ReadForEnds, Coordinator!ReadEnds,
       Coordinator!CallbackEnds
<1>8. CASE Coordinator!Callback
  BY <1>8 DEF Coordinator!Callback
<1>9. CASE Coordinator!Turn \/ Coordinator!Maintain
  BY <1>9 DEF Coordinator!Turn, Coordinator!Maintain
<1>10. CASE Coordinator!MemberEnds \/ Coordinator!MaintenanceEnds
  <2>1. Coordinator!Returns /\ UNCHANGED <<plane, admitted>> /\ Coordinator!Running # "nothing"
    BY <1>10 DEF Coordinator!MemberEnds, Coordinator!MaintenanceEnds
  <2>2. phase' = phase
    BY <1>1, <1>2, <2>1, ReturnShapes
  <2> QED  BY <2>1, <2>2
<1>11. CASE \/ Coordinator!Close \/ Coordinator!CloseOwner \/ Coordinator!ClosePlane
            \/ Coordinator!OwnerFinished \/ Coordinator!JointSettles
  BY <1>11 DEF Coordinator!Close, Coordinator!CloseOwner, Coordinator!ClosePlane,
       Coordinator!OwnerFinished, Coordinator!OwnerEnds, Coordinator!JointSettles
<1> QED  BY <1>5, <1>6, <1>7, <1>8, <1>9, <1>10, <1>11
         DEF Coordinator!Next, Coordinator!Proceeds
-----------------------------------------------------------------------------
(* The matrix of scenarios. *)

LEMMA InitMatrix == Matrix!Init => MatrixInv
<1> SUFFICES ASSUME Matrix!Init PROVE MatrixInv
  OBVIOUS
<1>1. results = <<>> /\ place = "matrix" /\ running = {} /\ budget = "whole"
  BY DEF Matrix!Init
<1>2. MatrixTypes
  BY <1>1, PartsAssumption DEF MatrixTypes, Matrix!CountIsNatural
<1>3. RunningSound /\ VerdictSound
  BY <1>1 DEF RunningSound, VerdictSound, InScenario
<1>4. ReportsSound
  BY <1>1 DEF ReportsSound, PassesRest, Matrix!BlameIsTheTargets
<1> QED  BY <1>2, <1>3, <1>4 DEF MatrixInv

\* A scenario that is ended before its cleanup: it does not pass, and is a failure
\* only by what an operation did.
Ended(r) ==
  r \in Report /\ r.cleanup = None /\ r.state # "pass" /\ (r.state = "fail" => r.by = "operation")

LEMMA ResultShape ==
  ASSUME NEW end \in States, NEW category \in OrNone(Categories),
         NEW by \in {"operation", "matrix", "timeout", "abort"}
  PROVE  /\ Matrix!Result(end, category, by) \in Report
         /\ Matrix!Result(end, category, by).state = end
         /\ Matrix!Result(end, category, by).category = category
         /\ Matrix!Result(end, category, by).by = by
         /\ Matrix!Result(end, category, by).cleanup = None
         /\ Matrix!Result(end, category, by).recheck = None
BY DEF Matrix!Result, Report, OrNone

LEMMA VerdictShape == ASSUME NEW error PROVE Ended(Matrix!Verdict(error))
<1>1. Matrix!Category(error) \in OrNone(Categories)
  BY DEF Matrix!Category, OrNone, Categories
<1>2. Matrix!By(error) \in {"operation", "matrix", "timeout", "abort"}
  BY DEF Matrix!By
<1>3. error \in Matrix!OfTheTarget => Matrix!By(error) = "operation"
  BY DEF Matrix!OfTheTarget, Matrix!By
<1>4. None \in OrNone(Categories)
  BY DEF OrNone
<1> DEFINE by == Matrix!By(error)  category == Matrix!Category(error)
<1> HIDE DEF by, category
<1>5. /\ Ended(Matrix!Result("harness-error", category, by))
      /\ Ended(Matrix!Result("unsupported-profile", None, by))
      /\ by = "operation" => Ended(Matrix!Result("fail", None, by))
  BY <1>1, <1>2, <1>4, ResultShape DEF Ended, States, by, category
<1> QED  BY <1>3, <1>5 DEF Matrix!Verdict, by, category

LEMMA RecheckShape == ASSUME NEW error PROVE Ended(Matrix!Recheck(error))
<1>1. Matrix!RecheckCategory(error) \in OrNone(Reasons)
  BY DEF Matrix!RecheckCategory, OrNone, Reasons
<1>2. Matrix!By(error) \in {"operation", "matrix", "timeout", "abort"}
  BY DEF Matrix!By
<1> DEFINE by == Matrix!By(error)  reason == Matrix!RecheckCategory(error)
           r == Matrix!Result("harness-error", "not-run", by)
<1> HIDE DEF by, reason
<1>3. r \in Report /\ r.state = "harness-error" /\ r.cleanup = None
  BY <1>2, ResultShape DEF by, States, Categories, OrNone
<1> HIDE DEF r
<1>4. Ended([r EXCEPT !.recheck = reason])
  BY <1>1, <1>3 DEF Ended, Report, reason
<1> QED  BY <1>4 DEF Matrix!Recheck, by, reason, r

LEMMA JudgedShape == ASSUME NEW error PROVE Ended(Matrix!Judged(error))
BY VerdictShape, RecheckShape DEF Matrix!Judged

\* The reports with one more.
LEMMA OneMore ==
  ASSUME results \in Seq(Report), NEW r \in Report, results' = Append(results, r)
  PROVE  /\ results' \in Seq(Report) /\ results' # <<>>
         /\ Len(results) \in Nat /\ Len(results') = Len(results) + 1
         /\ DOMAIN results = 1..Len(results) /\ DOMAIN results' = 1..(Len(results) + 1)
         /\ \A i \in 1..Len(results) : results'[i] = results[i]
         /\ results'[Len(results) + 1] = r
<1>1. /\ results' \in Seq(Report) /\ results' # <<>>
      /\ Len(results') = Len(results) + 1
      /\ \A i \in 1..Len(results) : results'[i] = results[i]
      /\ results'[Len(results) + 1] = r
  BY AppendProperties
<1>2. Len(results) \in Nat /\ DOMAIN results = 1..Len(results)
  OBVIOUS
<1>3. DOMAIN results' = 1..Len(results')
  BY <1>1
<1> QED  BY <1>1, <1>2, <1>3

\* Where a scenario may begin, or runs, nothing was left behind.
NothingLeft == \A i \in DOMAIN results : results[i].by # "matrix" => i \in cleaned

LEMMA LeavesNothing ==
  ASSUME MatrixTypes, ReportsSound,
         place \in InScenario \/ (place = "matrix" /\ ~Matrix!Stops)
  PROVE  NothingLeft
<1> SUFFICES ASSUME NEW i \in DOMAIN results, results[i].by # "matrix", i \notin cleaned
             PROVE  FALSE
  BY DEF NothingLeft
<1>1. /\ results[i].cleanup # None
      /\ \/ i = Len(results) /\ place = "matrix"
         \/ place = "done"
  BY DEF ReportsSound
<1>2. i = Len(results) /\ place = "matrix" /\ ~Matrix!Stops
  BY <1>1 DEF InScenario
<1>3. results # <<>>
  BY <1>2 DEF MatrixTypes
<1>4. Matrix!MustStop(results[Len(results)])
  BY <1>1, <1>2 DEF Matrix!MustStop
<1> QED  BY <1>2, <1>3, <1>4 DEF Matrix!Stops

LEMMA NothingRuns ==
  ASSUME RunningSound, place = "matrix", ~Matrix!Stops
  PROVE  running = {}
BY DEF RunningSound, Matrix!Stops, Matrix!MustStop

\* A report that tells the truth of what was cleaned up.
LEMMA ReportIsSound ==
  ASSUME MatrixTypes, ReportsSound, NothingLeft, NEW r \in Report, Matrix!Reports(r),
         Len(results) < Count, cleaned \subseteq cleaned',
         r.by # "matrix" => Matrix!Current \in cleaned' \/ r.cleanup # None,
         r.state = "pass" => Matrix!Current \in cleaned' /\ ~Matrix!Unmet(Matrix!Current),
         r.state = "fail" => r.by = "operation",
         r.cleanup = None => running' = {}
  PROVE  MatrixInv'
<1>1. results' = Append(results, r) /\ place' = "matrix" /\ UNCHANGED <<plans, step, budget, verdict>>
  BY DEF Matrix!Reports
<1>2. results \in Seq(Report) /\ Count \in Nat
  BY PartsAssumption DEF MatrixTypes, Matrix!CountIsNatural
<1>3. /\ results' \in Seq(Report) /\ results' # <<>>
      /\ Len(results) \in Nat /\ Len(results') = Len(results) + 1
      /\ DOMAIN results = 1..Len(results) /\ DOMAIN results' = 1..(Len(results) + 1)
      /\ \A i \in 1..Len(results) : results'[i] = results[i]
      /\ results'[Len(results) + 1] = r
  BY <1>1, <1>2, OneMore
<1> DEFINE n == Len(results)
<1> HIDE DEF n
<1>4. /\ n \in Nat /\ Len(results') = n + 1 /\ DOMAIN results = 1..n /\ DOMAIN results' = 1..(n + 1)
      /\ \A i \in 1..n : results'[i] = results[i]
      /\ results'[n + 1] = r /\ n < Count /\ Matrix!Current = n + 1
  BY <1>3 DEF n, Matrix!Current
<1>5. MatrixTypes'
  BY <1>1, <1>2, <1>3, <1>4 DEF MatrixTypes, InScenario
<1>6. RunningSound' /\ VerdictSound'
  BY <1>1, <1>4 DEF RunningSound, VerdictSound, InScenario
<1>7. ASSUME NEW i \in DOMAIN results', results'[i].by # "matrix", i \notin cleaned'
      PROVE  results'[i].cleanup # None /\ i = Len(results')
  <2>1. i \notin 1..n
    BY <1>4, <1>7 DEF NothingLeft
  <2>2. i = n + 1
    BY <1>4, <2>1
  <2> QED  BY <1>4, <1>7, <2>2
<1>8. Matrix!BlameIsTheTargets'
  <2> SUFFICES ASSUME NEW i \in DOMAIN results', results'[i].state = "fail"
               PROVE  results'[i].by = "operation"
    BY DEF Matrix!BlameIsTheTargets
  <2>1. CASE i \in 1..n
    BY <1>4, <2>1 DEF ReportsSound, Matrix!BlameIsTheTargets
  <2>2. CASE i = n + 1
    BY <1>4, <2>2
  <2> QED  BY <1>4, <2>1, <2>2
<1>9. PassesRest'
  <2> SUFFICES ASSUME NEW i \in DOMAIN results', results'[i].state = "pass"
               PROVE  /\ i \in cleaned'
                      /\ \A k \in DOMAIN plans[i] : plans[i][k].recheck # 0 =>
                           /\ plans[i][k].recheck \in 1..(i - 1)
                           /\ results'[plans[i][k].recheck].state = "pass"
    BY <1>1 DEF PassesRest
  <2>1. ASSUME NEW k \in DOMAIN plans[i], plans[i][k].recheck # 0
        PROVE  /\ plans[i][k].recheck \in 1..(i - 1)
               /\ results'[plans[i][k].recheck].state = "pass"
    <3> DEFINE p == plans[i][k].recheck
    <3> HIDE DEF p
    <3>1. CASE i \in 1..n
      <4>1. p \in 1..(i - 1) /\ results[p].state = "pass"
        BY <1>4, <2>1, <3>1 DEF ReportsSound, PassesRest, p
      <4>2. p \in 1..n
        BY <1>4, <3>1, <4>1
      <4> QED  BY <1>4, <4>1, <4>2 DEF p
    <3>2. CASE i = n + 1
      <4>1. p \in DOMAIN results /\ results[p].state = "pass"
        BY <1>4, <2>1, <3>2 DEF Matrix!Unmet, p
      <4> QED  BY <1>4, <3>2, <4>1 DEF p
    <3> QED  BY <1>4, <3>1, <3>2
  <2>2. i \in cleaned'
    <3>1. CASE i \in 1..n
      BY <1>4, <3>1 DEF ReportsSound, PassesRest
    <3>2. CASE i = n + 1
      BY <1>4, <3>2
    <3> QED  BY <1>4, <3>1, <3>2
  <2> QED  BY <2>1, <2>2
<1> QED  BY <1>1, <1>5, <1>6, <1>7, <1>8, <1>9 DEF ReportsSound, MatrixInv

\* Inside of a scenario the reports stay as they are.
LEMMA InsideIsSound ==
  ASSUME MatrixTypes, ReportsSound, VerdictSound, place \in InScenario, place' \in InScenario,
         UNCHANGED <<plans, results, cleaned>>
  PROVE  /\ ReportsSound'
         /\ Len(results') < Count /\ plans'[Matrix!Current'] # None
         /\ ~Matrix!Unmet(Matrix!Current)'
         /\ results' \in Seq(Report) /\ Len(results') <= Count
<1>1. NothingLeft
  BY LeavesNothing
<1>2. ReportsSound'
  BY <1>1 DEF ReportsSound, PassesRest, Matrix!BlameIsTheTargets, NothingLeft
<1>3. Matrix!Current' = Matrix!Current
  BY DEF Matrix!Current
<1>4. Len(results) < Count /\ plans[Matrix!Current] # None /\ ~Matrix!Unmet(Matrix!Current)
  BY DEF VerdictSound
<1>5. ~Matrix!Unmet(Matrix!Current)'
  BY <1>4 DEF Matrix!Unmet, Matrix!Current
<1> QED  BY <1>2, <1>3, <1>4, <1>5 DEF MatrixTypes

\* A scenario goes on to its end, or within it.
LEMMA EndIsSound ==
  ASSUME MatrixInv, place \in InScenario, NEW r, Ended(r), Matrix!Ends(r),
         UNCHANGED <<plans, results, cleaned>>, budget' \in {"whole", "started", "over"},
         running' \subseteq {Matrix!Operation("prepare"), Matrix!Operation("action")}
  PROVE  MatrixInv'
<1>1. MatrixTypes /\ RunningSound /\ ReportsSound /\ VerdictSound
  BY DEF MatrixInv
<1>2. place' = "ending" /\ verdict' = r
  BY DEF Matrix!Ends
<1>3. /\ ReportsSound'
      /\ Len(results') < Count /\ plans'[Matrix!Current'] # None
      /\ ~Matrix!Unmet(Matrix!Current)'
      /\ results' \in Seq(Report) /\ Len(results') <= Count
  BY <1>1, <1>2, InsideIsSound DEF InScenario
<1>4. MatrixTypes'
  BY <1>2, <1>3 DEF MatrixTypes, InScenario, Ended
<1>5. RunningSound'
  BY <1>2 DEF RunningSound, Matrix!Operation, Matrix!Current
<1>6. VerdictSound'
  BY <1>2, <1>3 DEF VerdictSound, Ended
<1> QED  BY <1>3, <1>4, <1>5, <1>6 DEF MatrixInv

\* The matrix goes on to its next scenario, or stops.
LEMMA StepMatrixItself ==
  ASSUME MatrixInv, Matrix!StopMatrix \/ Matrix!PassOver \/ Matrix!Prepare
  PROVE  MatrixInv'
<1>1. MatrixTypes /\ RunningSound /\ ReportsSound /\ VerdictSound
  BY DEF MatrixInv
<1>2. place = "matrix"
  BY DEF Matrix!StopMatrix, Matrix!PassOver, Matrix!Prepare
<1>3. results \in Seq(Report) /\ Count \in Nat /\ Len(results) \in Nat /\ Len(results) <= Count
  BY <1>1, PartsAssumption DEF MatrixTypes, Matrix!CountIsNatural
<1>4. Matrix!NotRun \in Report /\ Matrix!NotRun.by = "matrix" /\ Matrix!NotRun.cleanup = None
      /\ Matrix!NotRun.state = "harness-error"
  BY ResultShape DEF Matrix!NotRun, States, Categories, OrNone
<1>5. CASE Matrix!StopMatrix
  <2> DEFINE n == Len(results)
             rest == [k \in 1..(Count - Len(results)) |-> Matrix!NotRun]
  <2>1. results' = results \o rest /\ place' = "done" /\ UNCHANGED <<plans, running, budget, verdict, cleaned>>
    BY <1>5 DEF Matrix!StopMatrix
  <2>2. /\ rest \in Seq(Report) /\ Len(rest) = Count - n
        /\ \A k \in 1..(Count - n) : rest[k] = Matrix!NotRun
    <3> DEFINE notRun == Matrix!NotRun
    <3>1. notRun \in Report /\ Count - n \in Nat
      BY <1>3, <1>4
    <3> HIDE DEF notRun
    <3> QED  BY <3>1 DEF notRun
  <2> HIDE DEF rest, n
  <2>3. n \in Nat /\ n = Len(results) /\ n <= Count /\ DOMAIN results = 1..n
    BY <1>3 DEF n
  <2>4. /\ results' \in Seq(Report) /\ Len(results') = n + Len(rest)
        /\ \A i \in 1..(n + Len(rest)) : results'[i] = IF i <= n THEN results[i] ELSE rest[i - n]
    BY <1>3, <2>1, <2>2, ConcatProperties DEF n
  <2>5. /\ Len(results') = Count /\ DOMAIN results' = 1..Count
        /\ \A i \in 1..n : results'[i] = results[i]
        /\ \A i \in (n + 1)..Count : results'[i] = Matrix!NotRun
    <3>1. Len(results') = Count /\ DOMAIN results' = 1..Count
      <4>1. Len(rest) = Count - n
        BY <2>2
      <4>2. n + Len(rest) = Count
        BY <1>3, <2>3, <4>1
      <4>3. DOMAIN results' = 1..Len(results')
        BY <2>4
      <4> QED  BY <2>4, <4>2, <4>3
    <3>2. \A i \in 1..n : results'[i] = results[i]
      BY <1>3, <2>2, <2>3, <2>4
    <3>3. ASSUME NEW i \in (n + 1)..Count PROVE results'[i] = Matrix!NotRun
      <4>1. i - n \in 1..(Count - n) /\ i \in 1..(n + Len(rest)) /\ ~(i <= n)
        BY <1>3, <2>2, <2>3
      <4> QED  BY <2>2, <2>4, <4>1
    <3> QED  BY <3>1, <3>2, <3>3
  <2>6. MatrixTypes' /\ RunningSound' /\ VerdictSound'
    BY <1>1, <1>3, <2>1, <2>4, <2>5 DEF MatrixTypes, RunningSound, VerdictSound, InScenario
  <2>7. ASSUME NEW i \in DOMAIN results', results'[i].by # "matrix", i \notin cleaned'
        PROVE  results'[i].cleanup # None /\ \A j \in DOMAIN results' : j > i => results'[j].by = "matrix"
    <3>1. i \in 1..n
      BY <1>3, <1>4, <2>3, <2>5, <2>7
    <3>2. results[i].cleanup # None /\ i = n
      BY <1>1, <1>2, <2>1, <2>3, <2>5, <2>7, <3>1 DEF ReportsSound
    <3> QED  BY <1>3, <1>4, <2>3, <2>5, <3>1, <3>2
  <2>8. Matrix!BlameIsTheTargets'
    <3> SUFFICES ASSUME NEW i \in DOMAIN results', results'[i].state = "fail"
                 PROVE  results'[i].by = "operation"
      BY DEF Matrix!BlameIsTheTargets
    <3>1. i \in 1..n
      BY <1>3, <1>4, <2>3, <2>5
    <3> QED  BY <1>1, <2>3, <2>5, <3>1 DEF ReportsSound, Matrix!BlameIsTheTargets
  <2>9. PassesRest'
    <3> SUFFICES ASSUME NEW i \in DOMAIN results', results'[i].state = "pass"
                 PROVE  /\ i \in cleaned
                        /\ \A k \in DOMAIN plans[i] : plans[i][k].recheck # 0 =>
                             /\ plans[i][k].recheck \in 1..(i - 1)
                             /\ results'[plans[i][k].recheck].state = "pass"
      BY <2>1 DEF PassesRest
    <3>1. i \in 1..n
      BY <1>3, <1>4, <2>3, <2>5
    <3>2. /\ i \in cleaned
          /\ \A k \in DOMAIN plans[i] : plans[i][k].recheck # 0 =>
               /\ plans[i][k].recheck \in 1..(i - 1)
               /\ results[plans[i][k].recheck].state = "pass"
      BY <1>1, <2>3, <2>5, <3>1 DEF ReportsSound, PassesRest
    <3>3. \A p \in 1..(i - 1) : results'[p] = results[p]
      BY <2>3, <2>5, <3>1
    <3> QED  BY <3>2, <3>3
  <2> QED  BY <2>1, <2>6, <2>7, <2>8, <2>9 DEF ReportsSound, MatrixInv
<1>6. ASSUME ~Matrix!Stops PROVE NothingLeft /\ running = {}
  BY <1>1, <1>2, <1>6, LeavesNothing, NothingRuns
<1>7. CASE Matrix!PassOver
  <2>1. NothingLeft /\ running = {} /\ Len(results) < Count /\ running' = running /\ cleaned' = cleaned
    BY <1>6, <1>7 DEF Matrix!PassOver
  <2>2. PICK r : /\ Matrix!Reports(r)
                 /\ r \in {Matrix!Result("harness-error", "not-implemented", "matrix"),
                           [Matrix!NotRun EXCEPT !.recheck = "none"],
                           Matrix!Result("unsupported-profile", None, "matrix")}
    BY <1>7 DEF Matrix!PassOver
  <2>3. /\ r \in Report /\ r.by = "matrix" /\ r.cleanup = None
        /\ r.state \in {"harness-error", "unsupported-profile"}
    <3>1. CASE r = Matrix!Result("harness-error", "not-implemented", "matrix")
      BY <3>1, ResultShape DEF States, Categories, OrNone
    <3>2. CASE r = Matrix!Result("unsupported-profile", None, "matrix")
      BY <3>2, ResultShape DEF States, Categories, OrNone
    <3>3. CASE r = [Matrix!NotRun EXCEPT !.recheck = "none"]
      BY <1>4, <3>3 DEF Report, Reasons, OrNone
    <3> QED  BY <2>2, <3>1, <3>2, <3>3
  <2> QED  BY <1>1, <2>1, <2>2, <2>3, ReportIsSound
<1>8. CASE Matrix!Prepare
  <2>1. /\ NothingLeft /\ running = {} /\ Len(results) < Count
        /\ plans[Matrix!Current] # None /\ ~Matrix!Unmet(Matrix!Current)
        /\ place' = "preparing" /\ budget' = "whole"
        /\ running' = running \cup {Matrix!Operation("prepare")}
        /\ UNCHANGED <<plans, results, verdict, cleaned>>
    BY <1>6, <1>8 DEF Matrix!Prepare
  <2>2. MatrixTypes'
    BY <1>1, <2>1 DEF MatrixTypes, InScenario
  <2>3. RunningSound'
    BY <2>1 DEF RunningSound, Matrix!Operation, Matrix!Current
  <2>4. ReportsSound'
    BY <1>1, <2>1 DEF ReportsSound, PassesRest, Matrix!BlameIsTheTargets, NothingLeft
  <2>5. VerdictSound'
    BY <1>3, <2>1 DEF VerdictSound, Matrix!Unmet, Matrix!Current
  <2> QED  BY <2>2, <2>3, <2>4, <2>5 DEF MatrixInv
<1> QED  BY <1>5, <1>7, <1>8

\* What a scenario prepares and acts, and what its errors end.
LEMMA StepPrepared ==
  ASSUME MatrixInv, Matrix!Prepared \/ Matrix!PrepareStops
  PROVE  MatrixInv'
<1>1. MatrixTypes /\ RunningSound /\ ReportsSound /\ VerdictSound
  BY DEF MatrixInv
<1>2. /\ place = "preparing" /\ UNCHANGED <<plans, results, budget, cleaned>>
      /\ budget = "whole" /\ running \subseteq {Matrix!Operation("prepare")}
      /\ running' \subseteq running
  BY <1>1 DEF Matrix!Prepared, Matrix!PrepareStops, Matrix!Settles, RunningSound, VerdictSound
<1>3. ASSUME NEW r, Matrix!Ends(r), Ended(r) PROVE MatrixInv'
  BY <1>2, <1>3, EndIsSound DEF InScenario
<1>4. CASE Matrix!PrepareStops
  <2>1. PICK error : Matrix!Fails(error)
    BY <1>4 DEF Matrix!PrepareStops
  <2> QED  BY <1>3, <2>1, JudgedShape DEF Matrix!Fails
<1>5. ASSUME NEW error, Matrix!Prepared, Matrix!Fails(error) PROVE MatrixInv'
  BY <1>3, <1>5, JudgedShape DEF Matrix!Fails
<1>6. ASSUME Matrix!Prepared, Matrix!Ends(Matrix!Result("not-applicable", None, "operation"))
      PROVE  MatrixInv'
  <2>1. Ended(Matrix!Result("not-applicable", None, "operation"))
    BY ResultShape DEF Ended, States, OrNone
  <2> QED  BY <1>3, <1>6, <2>1
<1>7. ASSUME Matrix!Prepared, place' = "between", verdict' = verdict PROVE MatrixInv'
  <2>1. running' = {}
    BY <1>2, <1>7 DEF Matrix!Prepared, Matrix!Settles
  <2>2. /\ ReportsSound'
        /\ Len(results') < Count /\ plans'[Matrix!Current'] # None
        /\ ~Matrix!Unmet(Matrix!Current)'
        /\ results' \in Seq(Report) /\ Len(results') <= Count
    BY <1>1, <1>2, <1>7, InsideIsSound DEF InScenario
  <2>3. MatrixTypes' /\ RunningSound' /\ VerdictSound'
    BY <1>2, <1>7, <2>1, <2>2 DEF MatrixTypes, RunningSound, VerdictSound, InScenario
  <2> QED  BY <2>2, <2>3 DEF MatrixInv
<1>8. Matrix!Prepared =>
        \/ place' = "between" /\ verdict' = verdict
        \/ \E error : Matrix!Fails(error)
        \/ Matrix!Ends(Matrix!Result("not-applicable", None, "operation"))
  BY DEF Matrix!Prepared
<1> QED  BY <1>4, <1>5, <1>6, <1>7, <1>8

LEMMA StepActs ==
  ASSUME MatrixInv, Matrix!AllActed \/ Matrix!Act
  PROVE  MatrixInv'
<1>1. MatrixTypes /\ RunningSound /\ ReportsSound /\ VerdictSound
  BY DEF MatrixInv
<1>2. /\ place = "between" /\ UNCHANGED <<plans, results, budget, cleaned>>
      /\ budget = "whole" /\ running = {}
  BY <1>1 DEF Matrix!AllActed, Matrix!Act, RunningSound, VerdictSound
<1>3. ASSUME place' \in InScenario
      PROVE  /\ ReportsSound'
             /\ Len(results') < Count /\ plans'[Matrix!Current'] # None
             /\ ~Matrix!Unmet(Matrix!Current)'
             /\ results' \in Seq(Report) /\ Len(results') <= Count
  BY <1>1, <1>2, <1>3, InsideIsSound DEF InScenario
<1>4. CASE Matrix!AllActed
  <2>1. /\ place' = "ending" /\ running' = running
        /\ verdict' = Matrix!Result("pass", None, "operation")
    BY <1>4 DEF Matrix!AllActed, Matrix!Ends
  <2>2. verdict' \in Report /\ verdict'.state = "pass" /\ verdict'.cleanup = None
    BY <2>1, ResultShape DEF States, OrNone
  <2>3. MatrixTypes' /\ RunningSound'
    BY <1>2, <1>3, <2>1, <2>2 DEF MatrixTypes, RunningSound, InScenario
  <2>4. ~Matrix!Unsettled'
    BY <1>2, <2>1 DEF Matrix!Unsettled
  <2>5. VerdictSound'
    BY <1>2, <1>3, <2>1, <2>2, <2>4 DEF VerdictSound, InScenario
  <2> QED  BY <1>3, <2>1, <2>3, <2>5 DEF MatrixInv, InScenario
<1>5. CASE Matrix!Act
  <2>1. ASSUME NEW error, Matrix!Fails(error), running' = running PROVE MatrixInv'
    BY <1>2, <2>1, JudgedShape, EndIsSound DEF Matrix!Fails, InScenario
  <2>2. ASSUME place' = "acting", running' = running \cup {Matrix!Operation("action")},
               verdict' = verdict
        PROVE  MatrixInv'
    <3>1. running' \subseteq {Matrix!Operation("action")'}
      BY <1>2, <2>2 DEF Matrix!Operation, Matrix!Current
    <3>2. MatrixTypes' /\ RunningSound' /\ VerdictSound'
      BY <1>2, <1>3, <2>2, <3>1 DEF MatrixTypes, RunningSound, VerdictSound, InScenario
    <3> QED  BY <1>3, <2>2, <3>2 DEF MatrixInv, InScenario
  <2> QED  BY <1>5, <2>1, <2>2 DEF Matrix!Act
<1> QED  BY <1>4, <1>5

LEMMA StepActed ==
  ASSUME MatrixInv,
         Matrix!Acted \/ Matrix!ActionStops \/ Matrix!ActedLate \/ Matrix!Collected
  PROVE  MatrixInv'
<1>1. MatrixTypes /\ RunningSound /\ ReportsSound /\ VerdictSound
  BY DEF MatrixInv
<1>2. /\ place \in {"acting", "collecting"} /\ UNCHANGED <<plans, results, cleaned>>
      /\ running \subseteq {Matrix!Operation("action")} /\ running' \subseteq running
  BY <1>1 DEF Matrix!Acted, Matrix!ActionStops, Matrix!ActedLate, Matrix!Collected,
              Matrix!Settles, RunningSound
<1>3. ASSUME place' \in InScenario
      PROVE  /\ ReportsSound'
             /\ Len(results') < Count /\ plans'[Matrix!Current'] # None
             /\ ~Matrix!Unmet(Matrix!Current)'
             /\ results' \in Seq(Report) /\ Len(results') <= Count
  BY <1>1, <1>2, <1>3, InsideIsSound DEF InScenario
<1>4. budget \in {"whole", "started", "over"}
  BY <1>1 DEF MatrixTypes
<1>5. ASSUME NEW error, Matrix!Fails(error), budget' = budget PROVE MatrixInv'
  BY <1>2, <1>4, <1>5, JudgedShape, EndIsSound DEF Matrix!Fails, InScenario
<1>6. ASSUME place' = "collecting", budget' = "started", verdict' = verdict PROVE MatrixInv'
  <2>1. Matrix!Operation("action")' = Matrix!Operation("action")
    BY <1>2 DEF Matrix!Operation, Matrix!Current
  <2>2. MatrixTypes' /\ RunningSound' /\ VerdictSound'
    BY <1>2, <1>3, <1>6, <2>1 DEF MatrixTypes, RunningSound, VerdictSound, InScenario
  <2> QED  BY <1>3, <1>6, <2>2 DEF MatrixInv, InScenario
<1>7. ASSUME NEW error, Matrix!Interrupted(error) PROVE MatrixInv'
  BY <1>5, <1>6, <1>7 DEF Matrix!Interrupted
<1>8. CASE Matrix!ActionStops \/ Matrix!ActedLate
  BY <1>7, <1>8 DEF Matrix!ActionStops, Matrix!ActedLate
<1>9. CASE Matrix!Collected
  BY <1>5, <1>9 DEF Matrix!Collected
<1>10. CASE Matrix!Acted
  <2>1. CASE \E error : Matrix!Fails(error)
    BY <1>5, <1>10, <2>1 DEF Matrix!Acted
  <2>2. CASE place' = "between" /\ verdict' = verdict
    <3>1. place = "acting" /\ running' = {} /\ budget = "whole" /\ budget' = budget
      BY <1>1, <1>2, <1>10 DEF Matrix!Acted, Matrix!Settles, VerdictSound
    <3>2. MatrixTypes' /\ RunningSound' /\ VerdictSound'
      BY <1>2, <1>3, <2>2, <3>1 DEF MatrixTypes, RunningSound, VerdictSound, InScenario
    <3> QED  BY <1>3, <2>2, <3>2 DEF MatrixInv, InScenario
  <2> QED  BY <1>10, <2>1, <2>2 DEF Matrix!Acted
<1> QED  BY <1>8, <1>9, <1>10

\* Time passes, what settles settles, and the caller's signal comes.
LEMMA StepAround ==
  ASSUME MatrixInv, Matrix!BudgetEnds \/ Matrix!SettlesLate \/ Matrix!Abort
  PROVE  MatrixInv'
<1>1. MatrixTypes /\ RunningSound /\ ReportsSound /\ VerdictSound
  BY DEF MatrixInv
<1>2. /\ UNCHANGED <<plans, results, place, verdict, cleaned>> /\ running' \subseteq running
      /\ \/ budget' = budget
         \/ budget = "started" /\ budget' = "over" /\ place \in {"collecting", "ending"}
  BY DEF Matrix!BudgetEnds, Matrix!SettlesLate, Matrix!Abort
<1>3. Matrix!Current' = Matrix!Current
  BY <1>2 DEF Matrix!Current
<1>4. MatrixTypes'
  BY <1>1, <1>2 DEF MatrixTypes
<1>5. RunningSound'
  BY <1>1, <1>2, <1>3 DEF RunningSound, Matrix!Operation
<1>6. ReportsSound'
  BY <1>1, <1>2 DEF ReportsSound, PassesRest, Matrix!BlameIsTheTargets
<1>7. ~Matrix!Unsettled => ~Matrix!Unsettled'
  BY <1>2, <1>3 DEF Matrix!Unsettled, Matrix!Operation
<1>8. ~Matrix!Unmet(Matrix!Current) => ~Matrix!Unmet(Matrix!Current)'
  BY <1>2 DEF Matrix!Unmet, Matrix!Current
<1>9. VerdictSound'
  BY <1>1, <1>2, <1>3, <1>7, <1>8 DEF VerdictSound, InScenario
<1> QED  BY <1>4, <1>5, <1>6, <1>9 DEF MatrixInv

\* The cleanup of a scenario that did not settle, or ran out of time, is skipped; and
\* what a cleanup does not restore is told.
LEMMA StepCleanup ==
  ASSUME MatrixInv,
         Matrix!SkipCleanup \/ Matrix!Clean \/ Matrix!CleanupSettles \/ Matrix!CleanupStops
  PROVE  MatrixInv'
<1>1. MatrixTypes /\ RunningSound /\ ReportsSound /\ VerdictSound
  BY DEF MatrixInv
<1>2. place \in {"ending", "cleaning"}
  BY DEF Matrix!SkipCleanup, Matrix!Clean, Matrix!CleanupSettles, Matrix!CleanupStops
<1>3. /\ NothingLeft /\ Len(results) < Count
      /\ ~Matrix!Unmet(Matrix!Current) /\ plans[Matrix!Current] # None
  BY <1>1, <1>2, LeavesNothing DEF VerdictSound, InScenario
<1>4. /\ verdict \in Report /\ verdict.cleanup = None
      /\ verdict.state = "fail" => verdict.by = "operation"
      /\ verdict.state = "pass" => budget = "whole" /\ ~Matrix!Unsettled
  BY <1>1, <1>2 DEF MatrixTypes, VerdictSound
<1>5. CASE Matrix!SkipCleanup
  <2>1. PICK reason \in {"skipped", "exhausted"} : Matrix!Reports(Matrix!Skipped(reason))
    BY <1>5 DEF Matrix!SkipCleanup
  <2>2. verdict.state # "pass"
    BY <1>4, <1>5 DEF Matrix!SkipCleanup
  <2> DEFINE r == Matrix!Skipped(reason)
  <2>3. r \in Report /\ r.cleanup = reason /\ r.state = verdict.state /\ r.by = verdict.by
    BY <1>4 DEF Matrix!Skipped, Report, Left, OrNone
  <2> HIDE DEF r
  <2>4. r.cleanup # None
    BY <2>3, NoneIsNothing DEF Words
  <2>5. Matrix!Reports(r) /\ cleaned' = cleaned
    BY <1>5, <2>1 DEF Matrix!SkipCleanup, r
  <2> QED  BY <1>1, <1>3, <1>4, <2>2, <2>3, <2>4, <2>5, ReportIsSound
<1>6. CASE Matrix!Clean
  <2>1. /\ place' = "cleaning" /\ running' = running \cup {Matrix!Operation("cleanup")}
        /\ place = "ending" /\ ~Matrix!Unsettled
        /\ UNCHANGED <<plans, results, budget, verdict, cleaned>>
    BY <1>6 DEF Matrix!Clean
  <2>2. running = {}
    BY <1>1, <2>1 DEF RunningSound, Matrix!Unsettled
  <2>3. Matrix!Current' = Matrix!Current
    BY <2>1 DEF Matrix!Current
  <2>4. /\ ReportsSound'
        /\ Len(results') < Count /\ plans'[Matrix!Current'] # None
        /\ ~Matrix!Unmet(Matrix!Current)'
        /\ results' \in Seq(Report) /\ Len(results') <= Count
    BY <1>1, <2>1, InsideIsSound DEF InScenario
  <2>5. ~Matrix!Unsettled'
    BY <2>1, <2>2 DEF Matrix!Unsettled, Matrix!Operation
  <2>6. MatrixTypes'
    BY <1>1, <2>1, <2>4 DEF MatrixTypes, InScenario
  <2>7. RunningSound'
    BY <2>1, <2>2, <2>3 DEF RunningSound, Matrix!Operation
  <2>8. VerdictSound'
    BY <1>4, <2>1, <2>4, <2>5 DEF VerdictSound, InScenario
  <2> QED  BY <2>4, <2>6, <2>7, <2>8 DEF MatrixInv
<1>7. ASSUME NEW category \in {"cleanup", "deadline"}, NEW reason \in {"failed", "timeout"},
             Matrix!Reports(Matrix!CleanupFailed(category, reason)), cleaned' = cleaned
      PROVE  MatrixInv'
  <2> DEFINE r == Matrix!CleanupFailed(category, reason)
             end == IF verdict.state = "pass" THEN "harness-error" ELSE verdict.state
             cause == IF verdict.category = None THEN category ELSE verdict.category
  <2>1. /\ end \in States /\ end # "pass" /\ (end = "fail" => verdict.state = "fail")
        /\ cause \in OrNone(Categories) /\ reason \in OrNone(Left)
    BY <1>4 DEF Report, States, Categories, Left, OrNone
  <2>2. r = [verdict EXCEPT !.state = end, !.category = cause, !.cleanup = reason]
    BY DEF Matrix!CleanupFailed
  <2> HIDE DEF r, end, cause
  <2>3. r \in Report
    BY <1>4, <2>1, <2>2 DEF Report
  <2>4. r.state = end /\ r.cleanup = reason /\ r.by = verdict.by
    BY <1>4, <2>2 DEF Report
  <2>5. r.cleanup # None
    BY <2>4, NoneIsNothing DEF Words
  <2> QED  BY <1>1, <1>3, <1>4, <1>7, <2>1, <2>3, <2>4, <2>5, ReportIsSound DEF r
<1>8. CASE Matrix!CleanupStops
  BY <1>7, <1>8 DEF Matrix!CleanupStops
<1>9. CASE Matrix!CleanupSettles
  <2>1. CASE Matrix!Reports(Matrix!CleanupFailed("cleanup", "failed")) /\ cleaned' = cleaned
    BY <1>7, <2>1
  <2>2. CASE Matrix!Reports(verdict) /\ cleaned' = cleaned \cup {Matrix!Current}
    <3>1. running' = {}
      BY <1>1, <1>9 DEF Matrix!CleanupSettles, Matrix!Settles, RunningSound
    <3> QED  BY <1>1, <1>3, <1>4, <2>2, <3>1, ReportIsSound
  <2> QED  BY <1>9, <2>1, <2>2 DEF Matrix!CleanupSettles
<1> QED  BY <1>5, <1>6, <1>8, <1>9

LEMMA StepMatrix == MatrixInv /\ Matrix!Next => MatrixInv'
<1> SUFFICES ASSUME MatrixInv, Matrix!Next PROVE MatrixInv'
  OBVIOUS
<1>1. CASE Matrix!StopMatrix \/ Matrix!PassOver \/ Matrix!Prepare
  BY <1>1, StepMatrixItself
<1>2. CASE Matrix!Prepared \/ Matrix!PrepareStops
  BY <1>2, StepPrepared
<1>3. CASE Matrix!AllActed \/ Matrix!Act
  BY <1>3, StepActs
<1>4. CASE Matrix!Acted \/ Matrix!ActionStops \/ Matrix!ActedLate \/ Matrix!Collected
  BY <1>4, StepActed
<1>5. CASE Matrix!BudgetEnds \/ Matrix!SettlesLate \/ Matrix!Abort
  BY <1>5, StepAround
<1>6. CASE Matrix!SkipCleanup \/ Matrix!Clean \/ Matrix!CleanupSettles \/ Matrix!CleanupStops
  BY <1>6, StepCleanup
<1> QED  BY <1>1, <1>2, <1>3, <1>4, <1>5, <1>6 DEF Matrix!Next, Matrix!Runner

LEMMA MatrixPromises ==
  MatrixInv => /\ Matrix!NothingOverlaps /\ Matrix!CleanupIsOwed
               /\ Matrix!PassIsEarned /\ Matrix!BlameIsTheTargets
<1> SUFFICES ASSUME MatrixInv
             PROVE  /\ Matrix!NothingOverlaps /\ Matrix!CleanupIsOwed
                    /\ Matrix!PassIsEarned /\ Matrix!BlameIsTheTargets
  OBVIOUS
<1>1. MatrixTypes /\ RunningSound /\ ReportsSound
  BY DEF MatrixInv
<1>2. Matrix!NothingOverlaps
  BY <1>1 DEF RunningSound, Matrix!NothingOverlaps, Matrix!Operation
<1>3. Matrix!CleanupIsOwed
  <2> SUFFICES ASSUME NEW i \in DOMAIN results, results[i].by # "matrix", i \notin cleaned
               PROVE  /\ results[i].cleanup # None
                      /\ \A j \in DOMAIN results : j > i => results[j].by = "matrix"
    BY DEF Matrix!CleanupIsOwed
  <2>1. \/ i = Len(results)
        \/ \A j \in DOMAIN results : j > i => results[j].by = "matrix"
    BY <1>1 DEF ReportsSound
  <2>2. i = Len(results) => \A j \in DOMAIN results : ~(j > i)
    BY <1>1 DEF MatrixTypes
  <2>3. results[i].cleanup # None
    BY <1>1 DEF ReportsSound
  <2> QED  BY <2>1, <2>2, <2>3
<1>4. Matrix!PassIsEarned
  <2> SUFFICES ASSUME NEW i \in DOMAIN results, results[i].state = "pass",
                      NEW k \in DOMAIN plans[i], plans[i][k].recheck # 0
               PROVE  /\ plans[i][k].recheck < i
                      /\ results[plans[i][k].recheck].state = "pass"
    BY <1>1 DEF Matrix!PassIsEarned, ReportsSound, PassesRest
  <2>1. /\ plans[i][k].recheck \in 1..(i - 1)
        /\ results[plans[i][k].recheck].state = "pass"
    BY <1>1 DEF ReportsSound, PassesRest
  <2>2. i \in Nat
    BY <1>1 DEF MatrixTypes
  <2> QED  BY <2>1, <2>2
<1>5. Matrix!BlameIsTheTargets
  BY <1>1 DEF ReportsSound
<1> QED  BY <1>2, <1>3, <1>4, <1>5
-----------------------------------------------------------------------------
(* The composition. *)

LEMMA InitLifecycles == LifecyclesInit => LifecyclesInv
<1> SUFFICES ASSUME LifecyclesInit PROVE LifecyclesInv
  OBVIOUS
<1>1. part \in Parts /\ Delivery!Init
  BY DEF LifecyclesInit
<1>2. /\ part = "server" => Init
      /\ part = "development" => Development!Init
      /\ part = "coordinator" => Coordinator!Init
      /\ part = "matrix" => Matrix!Init
      /\ part = "exchange" => Exchange!Init
  BY DEF LifecyclesInit
<1> QED  BY <1>1, <1>2, InitServer, InitDevelopment, InitCoordinator, InitDelivery, InitMatrix,
            InitExchange DEF LifecyclesInv

\* What does not move keeps its invariant, and goes no way back.
LEMMA StutterServer == UNCHANGED vars => (ServerInv => ServerInv') /\ CloseIsClean
<1> SUFFICES ASSUME UNCHANGED vars PROVE (ServerInv => ServerInv') /\ CloseIsClean
  OBVIOUS
<1>1. ServerInv => ServerInv'
  BY StepServer
<1>2. CloseIsClean
  BY DEF CloseIsClean, vars, server
<1> QED  BY <1>1, <1>2

LEMMA StutterCoordinator ==
  UNCHANGED coordinator => (CoordinatorInv => CoordinatorInv') /\ Coordinator!DrainingIsFinal
<1> SUFFICES ASSUME UNCHANGED coordinator
             PROVE  (CoordinatorInv => CoordinatorInv') /\ Coordinator!DrainingIsFinal
  OBVIOUS
<1>1. UNCHANGED <<phase, stack, owner, plane, told, joint, factory, admitted>>
  BY DEF coordinator
<1>2. Coordinator!DrainingIsFinal
  BY <1>1 DEF Coordinator!DrainingIsFinal, Coordinator!Draining
<1>3. /\ CoordinatorTypes => CoordinatorTypes'
      /\ StackSound => StackSound'
      /\ PhaseSound => PhaseSound'
      /\ OwnerSound => OwnerSound'
  BY <1>1 DEF CoordinatorTypes, StackSound, PhaseSound, OwnerSound
<1> QED  BY <1>2, <1>3 DEF CoordinatorInv

LEMMA StutterMatrix == UNCHANGED matrix /\ MatrixInv => MatrixInv'
<1> SUFFICES ASSUME UNCHANGED matrix, MatrixInv PROVE MatrixInv'
  OBVIOUS
<1>1. MatrixTypes /\ RunningSound /\ ReportsSound /\ VerdictSound
  BY DEF MatrixInv
<1>2. UNCHANGED <<plans, results, place, running, budget, verdict, cleaned>>
  BY DEF matrix
<1>3. MatrixTypes'
  BY <1>1, <1>2 DEF MatrixTypes
<1>4. Matrix!Current' = Matrix!Current
  BY <1>2 DEF Matrix!Current
<1>5. RunningSound'
  BY <1>1, <1>2, <1>4 DEF RunningSound, Matrix!Operation
<1>6. ReportsSound'
  BY <1>1, <1>2 DEF ReportsSound, PassesRest, Matrix!BlameIsTheTargets
<1>7. ~Matrix!Unsettled => ~Matrix!Unsettled'
  BY <1>2, <1>4 DEF Matrix!Unsettled, Matrix!Operation
<1>8. ~Matrix!Unmet(Matrix!Current) => ~Matrix!Unmet(Matrix!Current)'
  BY <1>2 DEF Matrix!Unmet, Matrix!Current
<1>9. VerdictSound'
  BY <1>1, <1>2, <1>4, <1>7, <1>8 DEF VerdictSound, InScenario
<1> QED  BY <1>3, <1>5, <1>6, <1>9 DEF MatrixInv

\* A step of the composition, part by part: the one that moves and the others.
LEMMA EachPart ==
  ASSUME [LifecyclesNext]_everything, part \in Parts
  PROVE  /\ part' = part
         /\ [Next]_vars /\ (part # "server" => UNCHANGED vars)
         /\ [Development!Next]_development
         /\ Coordinator!Next \/ UNCHANGED coordinator
         /\ [Delivery!Next]_delivery
         /\ Matrix!Next \/ UNCHANGED matrix
         /\ [Exchange!Next]_raw
         /\ part # "coordinator" => UNCHANGED coordinator
         /\ part # "development" => UNCHANGED development
         /\ part # "delivery" => UNCHANGED delivery
BY DEF LifecyclesNext, everything, Keeps, Parts

LEMMA StepLifecycles == LifecyclesInv /\ [LifecyclesNext]_everything => LifecyclesInv'
<1> SUFFICES ASSUME LifecyclesInv, [LifecyclesNext]_everything PROVE LifecyclesInv'
  OBVIOUS
<1>1. part \in Parts
  BY DEF LifecyclesInv
<1>2. /\ part' = part /\ [Next]_vars /\ [Development!Next]_development
      /\ Coordinator!Next \/ UNCHANGED coordinator
      /\ [Delivery!Next]_delivery
      /\ Matrix!Next \/ UNCHANGED matrix
      /\ [Exchange!Next]_raw
  BY <1>1, EachPart
<1>3. part = "server" => ServerInv'
  BY <1>2, StepServer DEF LifecyclesInv
<1>4. part = "development" => DevelopmentInv'
  BY <1>2, StepDevelopment DEF LifecyclesInv
<1>5. part = "coordinator" => CoordinatorInv'
  BY <1>2, StepCoordinator, StutterCoordinator DEF LifecyclesInv
<1>6. part = "delivery" => DeliveryInv'
  BY <1>2, StepDelivery DEF LifecyclesInv
<1>7. part = "matrix" => MatrixInv'
  BY <1>2, StepMatrix, StutterMatrix DEF LifecyclesInv
<1>8. part = "exchange" => ExchangeInv'
  BY <1>2, StepExchange DEF LifecyclesInv
<1> QED  BY <1>1, <1>2, <1>3, <1>4, <1>5, <1>6, <1>7, <1>8 DEF LifecyclesInv

LEMMA InvGivesEnds == LifecyclesInv => EndsAreTrue
BY ServerPromises, DevelopmentPromises, CoordinatorPromises, DeliveryPromises, MatrixPromises,
   ExchangePromises DEF LifecyclesInv, EndsAreTrue

LEMMA StepIsFinal == LifecyclesInv /\ [LifecyclesNext]_everything => StepsAreFinal
<1> SUFFICES ASSUME LifecyclesInv, [LifecyclesNext]_everything PROVE StepsAreFinal
  OBVIOUS
<1>1. part \in Parts
  BY DEF LifecyclesInv
<1>2. /\ [Next]_vars /\ (part # "server" => UNCHANGED vars)
      /\ [Development!Next]_development /\ [Delivery!Next]_delivery
      /\ Coordinator!Next \/ UNCHANGED coordinator
      /\ part # "coordinator" => UNCHANGED coordinator
      /\ part # "development" => UNCHANGED development
      /\ part # "delivery" => UNCHANGED delivery
  BY <1>1, EachPart
<1>3. CloseIsClean
  BY <1>2, ServerCloses, StutterServer DEF LifecyclesInv
<1>4. Development!OwnerClosesOnce
  <2>1. CASE part = "development"
    BY <1>2, <2>1, DevelopmentCloses DEF LifecyclesInv
  <2>2. CASE part # "development"
    BY <1>2, <2>2 DEF development, Development!OwnerClosesOnce
  <2> QED  BY <2>1, <2>2
<1>5. Coordinator!DrainingIsFinal
  BY <1>2, CoordinatorDrains, StutterCoordinator DEF LifecyclesInv
<1>6. Delivery!OneEntry /\ Delivery!SettlesTruly
  <2>1. CASE part = "delivery"
    BY <1>2, <2>1, DeliverySettles DEF LifecyclesInv
  <2>2. CASE part # "delivery"
    BY <1>2, <2>2 DEF delivery, Delivery!OneEntry, Delivery!SettlesTruly
  <2> QED  BY <2>1, <2>2
<1> QED  BY <1>3, <1>4, <1>5, <1>6 DEF StepsAreFinal

\* The inductive invariant of the composition: each part keeps its own.
THEOREM LifecyclesInvariant == LifecyclesSpec => []LifecyclesInv
<1>1. LifecyclesInit => LifecyclesInv
  BY InitLifecycles
<1>2. LifecyclesInv /\ [LifecyclesNext]_everything => LifecyclesInv'
  BY StepLifecycles
<1> QED  BY <1>1, <1>2, PTL DEF LifecyclesSpec

\* What ends says what is true: no process of the Read server ends before its listener
\* and what runs in it, the owner of the development server closes last, the joint
\* promise of the coordinator tells of both components, a read is delivered while it is
\* active, a passing scenario was cleaned up and rests on passing ones, and an exchange
\* gives evidence of what it has written and of a whole answer.
THEOREM LifecyclesEndsAreTrue == LifecyclesSpec => []EndsAreTrue
<1>1. LifecyclesSpec => []LifecyclesInv
  BY LifecyclesInvariant
<1>2. LifecyclesInv => EndsAreTrue
  BY InvGivesEnds
<1> QED  BY <1>1, <1>2, PTL

\* Closing goes one way, and once: in every step of every part what drains admits
\* nothing, what has begun to close is not closed again, and no read takes over
\* another's entry (the safety half of EverythingEnds).
THEOREM LifecyclesStepsAreFinal == LifecyclesSpec => [][StepsAreFinal]_everything
<1>1. LifecyclesSpec => []LifecyclesInv
  BY LifecyclesInvariant
<1>2. LifecyclesInv /\ [LifecyclesNext]_everything => StepsAreFinal
  BY StepIsFinal
<1> QED  BY <1>1, <1>2, PTL DEF LifecyclesSpec
===============================================================================
