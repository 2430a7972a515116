------------------------------ MODULE MCLifecycles ------------------------------
(***************************************************************************)
(* What has to end, side by side: the Read server and the development      *)
(* server, the coordinator of owner and read plane and one read of that    *)
(* plane, the runs of the conformance runner and its raw exchanges, and    *)
(* the operations, calls and closing of the clients.  They share no state: *)
(* a behaviour is one of them, while the others are where nothing happens. *)
(***************************************************************************)
EXTENDS ReadServer, Sequences, FiniteSets, TLC

CONSTANTS
  c1, c2, anyone, NoUrl, NoLease,
  Users,           \* of the development server and of clients: who calls and asks
  Reads,           \* that the authority is asked for
  AttemptLengths, MaxAttempts,
  Count, SomePlans,                    \* the scenarios of a matrix
  ServerStreams, Limit                 \* what servers send, and how much of it is read

VARIABLES
  part,                                                      \* whose behaviour this is
  start, port, store, requests, peers, closing, stage, waited, callers, \* DevelopmentServer
  phase, stack, owner, plane, told, reacted, joint, factory, admitted,  \* ReadSequenceLifecycle
  busy, stopped, pages, active, inside, entered, captured, withdrawn, failure, promise,
                                                             \* AuthorityDelivery
  plans, results, place, step, running, budget, verdict, interrupted, cleaned, \* ScenarioMatrix
  exact, pieces, stream, point, socket, writes, written, flushed, received, fin, cleanup,
  evidence, cut,                                             \* RawExchange
  plan, waits, now, signals, exchange, ending, dispatched,   \* ClientOperation
  traversals, entries, size, held, discovery, behind, client, \* ClientSession
  calls, continuation, closed                                \* UpdateClient

development == <<start, port, store, requests, peers, closing, stage, waited, callers>>
coordinator == <<phase, stack, owner, plane, told, reacted, joint, factory, admitted>>
delivery ==
  <<busy, stopped, pages, active, inside, entered, captured, withdrawn, failure, promise>>
matrix == <<plans, results, place, step, running, budget, verdict, interrupted, cleaned>>
raw == <<exact, pieces, stream, point, socket, writes, written, flushed, received, fin,
         cleanup, evidence, cut>>
operation == <<plan, waits, now, signals, exchange, ending, dispatched>>
session == <<traversals, entries, size, held, discovery, behind, client>>
updates == <<calls, continuation, closed>>
-----------------------------------------------------------------------------
Development == INSTANCE DevelopmentServer WITH
  Requests <- Users, Callers <- Users, listener <- port, owner <- store

Coordinator == INSTANCE ReadSequenceLifecycle WITH
  drain <- told, Lengths <- AttemptLengths

Delivery == INSTANCE AuthorityDelivery WITH
  Calls <- Reads, at <- inside, entries <- entered, aborted <- withdrawn, result <- promise

Do(kind, recheck) == [kind |-> kind, recheck |-> recheck]
FivePlans ==
  {<<Do("http", 0)>>, <<Do("exact", 0)>>, <<Do("program", 0), Do("http", 0)>>,
   <<Do("http", 2)>>, <<Do("exact", 1)>>}

Matrix == INSTANCE ScenarioMatrix WITH
  Plans <- SomePlans, at <- place, outcome <- verdict, aborted <- interrupted

SixStreams ==
  {<<"framed", "part", "last">>, <<"info", "framed", "last">>, <<"framed", "last", "extra">>,
   <<"unframed", "part", "part">>, <<"info", "bad">>, <<"framed", "part", "part", "part", "last">>}

Exchange == INSTANCE RawExchange WITH
  Streams <- ServerStreams, at <- point, state <- writes, result <- evidence,
  aborted <- cut

\* bindWrite, a page with its discovery, a read that may meet an alias, a write.
EveryPlan == {<<"probe", "read", "read">>, <<"follow", "read">>, <<"submit">>}

Operation == INSTANCE ClientOperation WITH
  Plans <- EveryPlan, OperationTime <- 5, ExchangeTime <- 3, CleanupTime <- 2,
  at <- waits, result <- ending, x <- exchange

TwoUrls == {"u1", "u2"}
Lists == {[kind |-> "collection", subject |-> "beads", variant |-> "all"]}
OneOwner == {anyone}

Session == INSTANCE ClientSession WITH
  Callers <- Users, Urls <- TwoUrls, Contexts <- Lists, Owners <- OneOwner,
  MaxContexts <- 2, MaxHistory <- 3, MaxLate <- 1, ops <- traversals, late <- behind

EitherKind == {"directory", "mutate"}

Updating == INSTANCE UpdateClient WITH
  Callers <- Users, Kinds <- EitherKind, place <- continuation

ASSUME PartsAssumption ==
  Coordinator!LengthsArePositive /\ Matrix!CountIsNatural /\ Exchange!LimitIsPositive
ASSUME Operation!TimesArePositive /\ Session!SessionAssumption /\ Updating!KindsAreKnown

\* What the parts tell of operations, reads, cleanups and exchanges, and the phase
\* that a call restores.
Words ==
  {"answer", "problem", "error", "aborted", "unavailable", "reentrant", "closed", "fault",
   "refused-entry", "refused", "body", "page", "skipped", "exhausted", "failed", "timeout",
   "accepting"}

\* None is none of the values it stands for the lack of.
ASSUME NoneIsNothing == None \notin Words /\ None \notin Reads

\* What follows the last unit of a framed answer is extra.
ASSUME LastIsLast ==
  /\ ServerStreams \subseteq Seq(STRING)
  /\ \A s \in ServerStreams : \A i, j \in DOMAIN s : i < j /\ s[i] = "last" => s[j] = "extra"
-----------------------------------------------------------------------------
Parts == {"server", "development", "coordinator", "delivery", "matrix", "exchange",
          "operation", "session", "updates"}

\* A part that is not the behaviour's is over, or has not begun.
LifecyclesInit ==
  /\ part \in Parts
  /\ Delivery!Init /\ Session!Init /\ Updating!Init
  /\ IF part = "server" THEN Init
     ELSE /\ ops = [r \in Requests |-> NoOp] /\ conn = [r \in Requests |-> "none"]
          /\ state = "closed" /\ drain = "over" /\ draining = {} /\ engine = FALSE
          /\ listener = "closed" /\ serve = "ended" /\ outcome = "error"
          /\ signalled = FALSE /\ failed = FALSE /\ late = FALSE
  /\ IF part = "development" THEN Development!Init
     ELSE /\ start = "failed" /\ port = "none" /\ store = "none"
          /\ requests = [r \in Users |-> "none"] /\ peers = {} /\ closing = FALSE
          /\ stage = "none" /\ waited = {} /\ callers = [c \in Users |-> "none"]
  /\ IF part = "coordinator" THEN Coordinator!Init
     ELSE /\ phase = "none" /\ stack = <<>> /\ told = None /\ reacted = FALSE
          /\ owner = [state |-> "accepting", work |-> <<>>, failed |-> FALSE]
          /\ plane = [state |-> "none", facet |-> FALSE]
          /\ joint = "pending" /\ factory = "caller" /\ admitted = 0
  /\ IF part = "matrix" THEN Matrix!Init
     ELSE /\ plans = <<>> /\ results = <<>> /\ place = "done" /\ step = 1 /\ running = {}
          /\ budget = "whole" /\ verdict = None /\ interrupted = FALSE /\ cleaned = {}
  /\ IF part = "exchange" THEN Exchange!Init
     ELSE /\ exact = FALSE /\ pieces = 1 /\ stream = <<>> /\ point = "over" /\ socket = "none"
          /\ writes = "not-started" /\ written = 0 /\ flushed = 0 /\ received = 0
          /\ fin = FALSE /\ cleanup = FALSE /\ evidence = None /\ cut = FALSE
  /\ IF part = "operation" THEN Operation!Init
     ELSE /\ plan = <<>> /\ waits = "over" /\ now = 0 /\ signals = <<>>
          /\ exchange = Operation!NewExchange /\ ending = None /\ dispatched = 0

Keeps(changing) ==
  /\ UNCHANGED part
  /\ changing # "server" => UNCHANGED vars
  /\ changing # "development" => UNCHANGED development
  /\ changing # "coordinator" => UNCHANGED coordinator
  /\ changing # "delivery" => UNCHANGED delivery
  /\ changing # "matrix" => UNCHANGED matrix
  /\ changing # "exchange" => UNCHANGED raw
  /\ changing # "operation" => UNCHANGED operation
  /\ changing # "session" => UNCHANGED session
  /\ changing # "updates" => UNCHANGED updates

LifecyclesNext ==
  \/ part = "server" /\ Next /\ Keeps("server")
  \/ part = "development" /\ Development!Next /\ Keeps("development")
  \/ part = "coordinator" /\ Coordinator!Next /\ Keeps("coordinator")
  \/ part = "delivery" /\ Delivery!Next /\ Keeps("delivery")
  \/ part = "matrix" /\ Matrix!Next /\ Keeps("matrix")
  \/ part = "exchange" /\ Exchange!Next /\ Keeps("exchange")
  \/ part = "operation" /\ Operation!Next /\ Keeps("operation")
  \/ part = "session" /\ Session!Next /\ Keeps("session")
  \/ part = "updates" /\ Updating!Next /\ Keeps("updates")

everything == <<part, vars, development, coordinator, delivery, matrix, raw, operation, session,
                updates>>

\* Each part's own steps and timers; nothing of what it calls or waits for.
LifecyclesSpec ==
  /\ LifecyclesInit /\ [][LifecyclesNext]_everything
  /\ Fairness /\ Development!Fairness /\ Coordinator!Fairness /\ Delivery!Fairness
  /\ Matrix!Fairness /\ Exchange!Fairness /\ Operation!Fairness /\ Session!Fairness
  /\ Updating!Fairness
-----------------------------------------------------------------------------
\* What ends says what is true: a close has closed all of it and told everybody, an
\* exchange or a scenario gives evidence of what happened only, and a read is
\* delivered by the one entry that made it (server/src/index.ts close,
\* development-runtime.ts, read-sequence-lifecycle.ts, authority-read.ts,
\* http-executor.ts executeExact, runner.ts runScenario).
EndsAreTrue ==
  /\ part = "server" => EndIsComplete /\ EngineIsOpen /\ GraceIsKept
  /\ part = "development" =>
       /\ Development!OwnerClosesLast /\ Development!CloseIsTrue
       /\ Development!FailedStartKeepsNothing
  /\ part = "coordinator" => Coordinator!JointTellsBoth /\ Coordinator!OneEntry
  /\ part = "delivery" => Delivery!TakenWhileActive /\ Delivery!ClosedBetweenReads
  /\ part = "matrix" =>
       /\ Matrix!NothingOverlaps /\ Matrix!CleanupIsOwed
       /\ Matrix!PassIsEarned /\ Matrix!BlameIsTheTargets
  /\ part = "exchange" =>
       /\ Exchange!EvidenceIsTrue /\ Exchange!ResponsesAreWhole
       /\ Exchange!TrailingBytesAreSeen

\* Closing goes one way, and once: what drains admits nothing, what has begun to
\* close is not closed again, and no read takes over another's entry.
StepsAreFinal ==
  /\ CloseIsClean
  /\ Development!OwnerClosesOnce
  /\ Coordinator!DrainingIsFinal
  /\ Delivery!OneEntry /\ Delivery!SettlesTruly

\* What was begun, in each part: a process is signalled or its listener fails; a
\* close is waited for; the coordinator is constructed, closes, or its owner ends by
\* itself; an entry of the owner runs; a matrix; an exact exchange has its whole
\* answer; an operation; a session closes or a read of it is aborted; a call.
Owed ==
  \/ signalled \/ failed
  \/ callers[c1] = "waiting"
  \/ phase \in {"constructing", "closing"}
  \/ owner.state # "accepting" /\ factory = "resolved"
  \/ busy
  \/ part = "matrix"
  \/ exact /\ point = "exchanging" /\ Exchange!Complete(Exchange!Raw(received))
  \/ part = "operation"
  \/ client = "closing" \/ traversals[c1].aborted
  \/ Updating!Running(calls[c1])

\* What has to come of it; callers are alike, and c1 is one of them.
Told ==
  /\ part = "server" => serve = "ended"
  /\ part = "development" => callers[c1] # "waiting"
  /\ part = "coordinator" =>
       joint # "pending" \/ (phase = "accepting" /\ owner.state = "accepting")
  /\ part = "delivery" => ~busy
  /\ part = "matrix" => place = "done" /\ Len(results) = Count
  /\ part = "exchange" => point = "over"
  /\ part = "operation" => ending # None
  /\ part = "session" => client \in {"open", "closed"} /\ ~traversals[c1].aborted
  /\ part = "updates" => ~Updating!Running(calls[c1])

\* Everything that was begun or is closed ends, and is told, by its own steps and
\* timers alone, though clients, sources, sockets, harnesses and transports keep
\* silent; and it goes no way back (serveNodeHttpServer, close, ownerFinished,
\* runMatrix, earlyCleanup, settleWithin).
EverythingEnds == [][StepsAreFinal]_everything /\ (Owed ~> Told)
=============================================================================
