------------------------------ MODULE ReadServer ------------------------------
(***************************************************************************)
(* The Read server and its listener (server/src/index.ts): operations that *)
(* await an identity, the Scope port or the pagination engine; the close   *)
(* that drains them, and serveNodeHttpServer, which binds, waits for a     *)
(* reason to stop and ends both.  A connection has the name of the request *)
(* that it carries or is about to carry.                                   *)
(***************************************************************************)
EXTENDS Naturals

CONSTANTS Requests, None

VARIABLES
  ops,         \* request -> its operation
  conn,        \* request -> "none", "open" or "closed"
  state,       \* of the server: "open", "closing" or "closed"
  drain,       \* of its close: "none", "grace", "timeout" or "over"
  draining,    \* the operations that the close waits for
  engine,      \* whether the pagination engine is open
  listener,    \* "none", "listening", "closing" or "closed"
  serve,       \* "binding", "serving", "stopping", "cleanup" or "ended"
  outcome,     \* why it stops
  signalled,   \* the termination signal came
  failed,      \* the listener reported a failure
  late         \* ghost: the engine was used when it was closed

vars == <<ops, conn, state, drain, draining, engine, listener, serve, outcome, signalled,
          failed, late>>

server == <<state, drain, draining, engine>>
process == <<serve, outcome, signalled, failed>>

\* at: "none", "identity", "port" or "settled".  own: its client left.
NoOp == [kind |-> None, at |-> "none", own |-> FALSE, result |-> None]

Running == {r \in Requests : ops[r].at \in {"identity", "port"}}
-----------------------------------------------------------------------------
(* Operations. *)

\* The result is told once; the operation may run on behind it.
Tell(op, result) == IF op.result = None THEN [op EXCEPT !.result = result] ELSE op

\* Mutant: what was awaited is used, whatever happened meanwhile.
IsAborted_never(op) == FALSE

\* By its own signal or by the server's.
IsAborted(op) == op.own \/ op.result = "aborted"

Settle(r, result) ==
  ops' = [ops EXCEPT ![r] = [Tell(@, result) EXCEPT !.at = "settled", !.kind = None]]

\* A connection may be kept after an answer.
Answered(r, result) ==
  /\ Settle(r, result)
  /\ conn' \in {conn, [conn EXCEPT ![r] = "closed"]}

\* The end of an operation that was aborted is its own: nobody hears of it.
Unheard(r) == Settle(r, "aborted") /\ UNCHANGED conn

Admitted(kind) ==
  IF state = "open" THEN [NoOp EXCEPT !.kind = kind, !.at = "identity"]
  ELSE [NoOp EXCEPT !.at = "settled", !.result = "unavailable"]

Connects(r) ==
  /\ conn[r] = "none" /\ listener = "listening" /\ conn' = [conn EXCEPT ![r] = "open"]
  /\ UNCHANGED <<ops, server, listener, process, late>>

Arrives(r, kind) ==
  /\ conn[r] = "open" /\ ops[r].at = "none" /\ ops' = [ops EXCEPT ![r] = Admitted(kind)]
  /\ UNCHANGED <<conn, server, listener, process, late>>

\* A connection that was kept is used again.
Reuses(r, kept) ==
  /\ conn[r] = "none" /\ conn[kept] = "open" /\ ops[kept].at = "settled"
  /\ conn' = [conn EXCEPT ![kept] = "closed", ![r] = "open"]
  /\ UNCHANGED <<ops, server, listener, process, late>>

\* Its operation is aborted.
Gone(op) == IF op.at \in {"identity", "port"}
            THEN [Tell(op, "aborted") EXCEPT !.own = TRUE] ELSE op

Leaves(r) ==
  /\ conn[r] = "open" /\ conn' = [conn EXCEPT ![r] = "closed"]
  /\ ops' = [ops EXCEPT ![r] = Gone(@)]
  /\ UNCHANGED <<server, listener, process, late>>

\* The engine retains a snapshot for the page it makes, or makes the next page.
UsesEngine(r) == Answered(r, "answer") /\ late' = (late \/ ~engine)

\* An Alias is looked up behind a discovery; what is no Alias is read as a Resource.
LooksUp(r) ==
  \/ Answered(r, "answer")
  \/ ops' = [ops EXCEPT ![r] = Admitted("resource")] /\ UNCHANGED conn

Identified(r) ==
  /\ ops[r].at = "identity"
  /\ \/ IsAborted(ops[r]) /\ Unheard(r) /\ UNCHANGED late
     \/ /\ ~IsAborted(ops[r])
        /\ \/ Answered(r, "problem") /\ UNCHANGED late
           \/ ops[r].kind = "discovery" /\ Answered(r, "answer") /\ UNCHANGED late
           \/ ops[r].kind = "alias" /\ LooksUp(r) /\ UNCHANGED late
           \/ ops[r].kind = "continue" /\ UsesEngine(r)
           \/ /\ ops[r].kind \in {"resource", "page"}
              /\ ops' = [ops EXCEPT ![r].at = "port"] /\ UNCHANGED <<conn, late>>
  /\ UNCHANGED <<server, listener, process>>

Performed(r) ==
  /\ ops[r].at = "port"
  /\ \/ IsAborted(ops[r]) /\ Unheard(r) /\ UNCHANGED late
     \/ /\ ~IsAborted(ops[r])
        /\ \/ Answered(r, "problem") /\ UNCHANGED late
           \/ ops[r].kind = "resource" /\ Answered(r, "answer") /\ UNCHANGED late
           \/ ops[r].kind = "page" /\ UsesEngine(r)
  /\ UNCHANGED <<server, listener, process>>

\* A fault of the identity or of the port.
Faults(r) ==
  /\ r \in Running
  /\ IF IsAborted(ops[r]) THEN Unheard(r) ELSE Answered(r, "error")
  /\ UNCHANGED <<server, listener, process, late>>
-----------------------------------------------------------------------------
(* The close of the server. *)

\* The engine is closed when the drain is over.
Over == drain' = "over" /\ state' = "closed" /\ engine' = FALSE

StartDrain ==
  /\ draining' = Running
  /\ IF Running = {} THEN Over
     ELSE drain' = "grace" /\ state' = "closing" /\ UNCHANGED engine

Drained ==
  /\ drain \in {"grace", "timeout"} /\ draining \cap Running = {}
  /\ Over
  /\ UNCHANGED <<ops, conn, draining, listener, process, late>>

\* Every operation is aborted.
Abandoned(op) == IF op.at \in {"identity", "port"} THEN Tell(op, "aborted") ELSE op

\* The connections of aborted operations are destroyed.
GraceEnds ==
  /\ drain = "grace" /\ drain' = "timeout"
  /\ ops' = [r \in Requests |-> Abandoned(ops[r])]
  /\ conn' = [r \in Requests |-> IF r \in Running THEN "closed" ELSE conn[r]]
  /\ UNCHANGED <<state, draining, engine, listener, process, late>>

\* A port that does not settle is abandoned.
TimeoutEnds ==
  /\ drain = "timeout" /\ Over
  /\ UNCHANGED <<ops, conn, draining, listener, process, late>>
-----------------------------------------------------------------------------
(* serveNodeHttpServer. *)

Bind ==
  /\ serve = "binding"
  /\ \/ listener' = "listening" /\ serve' = "serving" /\ UNCHANGED outcome
     \* the callback of the start throws, or the listener is not bound
     \/ listener' \in {"listening", "closed"} /\ serve' = "stopping" /\ outcome' = "error"
  /\ UNCHANGED <<ops, conn, server, signalled, failed, late>>

Signal ==
  /\ ~signalled /\ serve \in {"binding", "serving"} /\ signalled' = TRUE
  /\ UNCHANGED <<ops, conn, server, listener, serve, outcome, failed, late>>

ListenerFails ==
  /\ serve = "serving" /\ ~failed /\ failed' = TRUE
  /\ listener' \in {listener, "closed"}
  /\ UNCHANGED <<ops, conn, server, serve, outcome, signalled, late>>

Stops ==
  /\ serve = "serving"
  /\ \/ signalled /\ outcome' = "signal"
     \/ failed /\ outcome' = "listener-failure"
  /\ serve' = "stopping"
  /\ UNCHANGED <<ops, conn, server, listener, signalled, failed, late>>

ClosesListener == listener = "listening"

\* Idle connections are closed at once, those that carry half a request stay.
CleanUp ==
  /\ serve = "stopping" /\ serve' = "cleanup"
  /\ IF ClosesListener
     THEN /\ listener' = "closing"
          /\ \E half \in SUBSET {r \in Requests : ops[r].at = "none"} :
               conn' = [r \in Requests |->
                          IF conn[r] = "open" /\ r \notin Running \cup half
                          THEN "closed" ELSE conn[r]]
     ELSE UNCHANGED <<listener, conn>>
  /\ StartDrain
  /\ UNCHANGED <<ops, outcome, signalled, failed, late>>

Forces == listener = "closing"

\* Slow or silent peers are disconnected after a time.
ForcedEnd ==
  /\ Forces
  /\ conn' = [r \in Requests |-> IF conn[r] = "open" THEN "closed" ELSE conn[r]]
  /\ ops' = [r \in Requests |-> IF conn[r] = "open" THEN Gone(ops[r]) ELSE ops[r]]
  /\ UNCHANGED <<server, listener, process, late>>

ListenerCloses ==
  /\ listener = "closing" /\ \A r \in Requests : conn[r] # "open"
  /\ listener' = "closed"
  /\ UNCHANGED <<ops, conn, server, process, late>>

\* Both are waited for, whichever fails.
Ends ==
  /\ serve = "cleanup" /\ listener # "closing" /\ drain = "over"
  /\ serve' = "ended"
  /\ UNCHANGED <<ops, conn, server, listener, outcome, signalled, failed, late>>
-----------------------------------------------------------------------------
Init ==
  /\ ops = [r \in Requests |-> NoOp] /\ conn = [r \in Requests |-> "none"]
  /\ state = "open" /\ drain = "none" /\ draining = {} /\ engine = TRUE
  /\ listener = "none" /\ serve = "binding" /\ outcome = None
  /\ signalled = FALSE /\ failed = FALSE /\ late = FALSE

Kinds == {"discovery", "alias", "continue", "resource", "page"}

Next ==
  \/ \E r \in Requests :
       \/ Connects(r) \/ \E kind \in Kinds : Arrives(r, kind)
       \/ \E kept \in Requests : Reuses(r, kept)
       \/ Leaves(r) \/ Identified(r) \/ Performed(r) \/ Faults(r)
  \/ Drained \/ GraceEnds \/ TimeoutEnds
  \/ Bind \/ Signal \/ ListenerFails \/ Stops \/ CleanUp \/ ForcedEnd \/ ListenerCloses \/ Ends

Spec == Init /\ [][Next]_vars
-----------------------------------------------------------------------------
(* What the end of the server promises. *)

\* When the process is told that its server ended, no connection of its
\* listener is open, unless the listener failed by itself; no operation can
\* begin, and each one that was admitted has told its result: those that still
\* run are abandoned, and nobody waits for them.
EndIsComplete ==
  serve = "ended" =>
    /\ listener = "closed" /\ state = "closed" /\ ~engine
    /\ (~failed => \A r \in Requests : conn[r] # "open")
    /\ \A r \in Requests : ops[r].at # "none" => ops[r].result # None

\* An identity or a port may answer long after its client left or the server
\* abandoned it: its page is made by no engine that is closed.
EngineIsOpen == ~late

\* An operation is aborted only when its client left, or when the close has
\* waited for it the whole grace period.
GraceIsKept ==
  \A r \in Requests :
    ops[r].result = "aborted" => ops[r].own \/ drain \in {"timeout", "over"}

\* A close that ends before its grace does leaves nothing behind that runs.
CloseIsClean == drain = "grace" /\ drain' = "over" => Running' = {}

\* Timers fire, and the server's own steps happen; no client, identity or port has
\* to do anything.
Fairness ==
  /\ WF_vars(Drained) /\ WF_vars(GraceEnds) /\ WF_vars(TimeoutEnds)
  /\ WF_vars(Bind) /\ WF_vars(Stops) /\ WF_vars(CleanUp)
  /\ WF_vars(ForcedEnd) /\ WF_vars(ListenerCloses) /\ WF_vars(Ends)
===============================================================================
