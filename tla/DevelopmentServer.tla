--------------------------- MODULE DevelopmentServer ---------------------------
(***************************************************************************)
(* The development server (server/src/development-runtime.ts): a start     *)
(* that binds, opens the owner of the store and views it for every         *)
(* principal; requests, which read a body and then are inside the owner    *)
(* whatever their clients do; and a close in stages, shared by its callers *)
(* and tried again when it failed.                                         *)
(***************************************************************************)
EXTENDS Naturals

CONSTANTS Requests, Callers

VARIABLES
  start,      \* "listening", "opening", "viewing", "serving", "cleanup" or "failed"
  listener,   \* "none", "open", "closing", "closed" or "faulty", what fails to close
  owner,      \* "none", "open", "closing", "closed" or "faulty"
  requests,   \* request -> "none", "reading", "inside" or "done"
  peers,      \* the requests whose connections are open
  closing,
  stage,      \* of the close: "none", "listener", "requests" or "owner"
  waited,     \* the requests the close waits for
  callers     \* caller of the close -> "none", "waiting", "closed" or "failed"

vars == <<start, listener, owner, requests, peers, closing, stage, waited, callers>>

shutdown == <<closing, stage, waited, callers>>

Pending == {r \in Requests : requests[r] \in {"reading", "inside"}}
-----------------------------------------------------------------------------
(* Requests. *)

Ready == start = "serving" /\ ~closing

\* Reads have no body; what is not ready, or not admitted, is refused.
Arrive(r) ==
  /\ requests[r] = "none" /\ listener \in {"open", "faulty"}
  /\ peers' = peers \cup {r}
  /\ \E at \in {"reading", "inside", "done"} :
       requests' = [requests EXCEPT ![r] = IF Ready THEN at ELSE "done"]
  /\ UNCHANGED <<start, listener, owner, shutdown>>

Admits(r) == r \in peers /\ ~closing

BodyRead(r) ==
  /\ requests[r] = "reading"
  /\ requests' = [requests EXCEPT ![r] = IF Admits(r) THEN "inside" ELSE "done"]
  /\ UNCHANGED <<start, listener, owner, peers, shutdown>>

\* A body that is too large, or ends with its connection.
BodyFails(r) ==
  /\ requests[r] = "reading" /\ requests' = [requests EXCEPT ![r] = "done"]
  /\ UNCHANGED <<start, listener, owner, peers, shutdown>>

\* The owner answers, or fails.
Settles(r) ==
  /\ requests[r] = "inside" /\ requests' = [requests EXCEPT ![r] = "done"]
  /\ UNCHANGED <<start, listener, owner, peers, shutdown>>

\* The client leaves, or its socket is idle too long.
Disconnects(r) ==
  /\ r \in peers /\ peers' = peers \ {r}
  /\ UNCHANGED <<start, listener, owner, requests, shutdown>>
-----------------------------------------------------------------------------
(* Start. *)

Listen ==
  /\ start = "listening"
  /\ \/ start' = "opening" /\ listener' = "open"
     \/ start' = "cleanup" /\ UNCHANGED listener
  /\ UNCHANGED <<owner, requests, peers, shutdown>>

Open ==
  /\ start = "opening"
  /\ \/ start' = "viewing" /\ owner' = "open"
     \/ start' = "cleanup" /\ UNCHANGED owner
  /\ UNCHANGED <<listener, requests, peers, shutdown>>

\* Each principal's Read is tried before serving.
View ==
  /\ start = "viewing" /\ start' \in {"serving", "cleanup"}
  /\ UNCHANGED <<listener, owner, requests, peers, shutdown>>

\* Both are closed at once, and neither waits for the other's failure.
Undone ==
  /\ listener' \in IF listener = "open" THEN {"closed", "faulty"} ELSE {listener}
  /\ owner' \in IF owner = "open" THEN {"closed", "faulty"} ELSE {owner}

CleanUp ==
  /\ start = "cleanup" /\ start' = "failed"
  /\ Undone /\ peers' = IF listener' = "closed" THEN {} ELSE peers
  /\ UNCHANGED <<requests, shutdown>>
-----------------------------------------------------------------------------
(* Close. *)

Destroyed == peers

\* All connections are destroyed; what does not listen is closed.
CloseListener ==
  IF listener \in {"open", "faulty"}
  THEN /\ peers' = peers \ Destroyed /\ listener' = "closing"
  ELSE UNCHANGED <<peers, listener>>

Close(c) ==
  /\ start = "serving" /\ callers[c] = "none"
  /\ callers' = [callers EXCEPT ![c] = "waiting"] /\ closing' = TRUE
  /\ IF stage = "none" THEN stage' = "listener" /\ CloseListener
     ELSE UNCHANGED <<stage, listener, peers>>
  /\ UNCHANGED <<start, owner, requests, waited>>

ListenerCloses ==
  /\ stage = "listener" /\ listener = "closing"
  /\ \/ peers = {} /\ listener' = "closed"
     \/ listener' = "faulty"
  /\ UNCHANGED <<start, owner, requests, peers, shutdown>>

Waited == Pending

\* Whether the listener closed or not.
WaitForRequests ==
  /\ stage = "listener" /\ listener # "closing"
  /\ stage' = "requests" /\ waited' = Waited
  /\ UNCHANGED <<start, listener, owner, requests, peers, closing, callers>>

\* The owner's close is terminal: an attempt that comes later takes its result.
OwnerAfter == IF owner = "open" THEN "closing" ELSE owner

CloseOwner ==
  /\ stage = "requests" /\ waited \cap Pending = {}
  /\ stage' = "owner" /\ owner' = OwnerAfter
  /\ UNCHANGED <<start, listener, requests, peers, closing, waited, callers>>

OwnerCloses ==
  /\ owner = "closing" /\ owner' \in {"closed", "faulty"}
  /\ UNCHANGED <<start, listener, requests, peers, shutdown>>

Succeeds == listener = "closed" /\ owner = "closed"

\* All callers are told; one that calls after a failure begins another attempt.
Tell ==
  /\ stage = "owner" /\ owner # "closing"
  /\ stage' = IF Succeeds THEN "owner" ELSE "none"
  /\ \E c \in Callers : callers[c] = "waiting"
  /\ callers' = [c \in Callers |-> IF callers[c] # "waiting" THEN callers[c]
                                   ELSE IF Succeeds THEN "closed" ELSE "failed"]
  /\ UNCHANGED <<start, listener, owner, requests, peers, closing, waited>>
-----------------------------------------------------------------------------
Init ==
  /\ start = "listening" /\ listener = "none" /\ owner = "none"
  /\ requests = [r \in Requests |-> "none"] /\ peers = {}
  /\ closing = FALSE /\ stage = "none" /\ waited = {}
  /\ callers = [c \in Callers |-> "none"]

Next ==
  \/ \E r \in Requests : Arrive(r) \/ BodyRead(r) \/ BodyFails(r) \/ Settles(r) \/ Disconnects(r)
  \/ Listen \/ Open \/ View \/ CleanUp
  \/ \E c \in Callers : Close(c)
  \/ ListenerCloses \/ WaitForRequests \/ CloseOwner \/ OwnerCloses \/ Tell

Spec == Init /\ [][Next]_vars
-----------------------------------------------------------------------------
(* Correctness. *)

\* The owner is closed behind every request that is or will be inside it, also
\* when the listener failed to close and goes on accepting.
OwnerClosesLast == owner \in {"closing", "closed", "faulty"} => Pending = {}

\* A caller is told that the server closed only if all of it did: a fault of the
\* owner's close is not forgotten by an attempt that comes after it.
CloseIsTrue ==
  \A c \in Callers : callers[c] = "closed" =>
    listener = "closed" /\ owner = "closed" /\ Pending = {}

\* A start that fails keeps nothing that it opened, whichever part failed.
FailedStartKeepsNothing ==
  start = "failed" => listener \in {"none", "closed", "faulty"} /\ owner # "open"

\* The owner is closed once, however many attempts there are.
OwnerClosesOnce == owner' = "closing" => owner \in {"open", "closing"}

\* The server's own steps: bodies whose connections are gone end, the owner, which
\* is local, answers and closes, and a listener without peers closes.
Fairness ==
  /\ \A r \in Requests :
       /\ WF_vars(Settles(r)) /\ WF_vars(r \notin peers /\ BodyFails(r))
  /\ WF_vars(ListenerCloses) /\ WF_vars(WaitForRequests) /\ WF_vars(CloseOwner)
  /\ WF_vars(OwnerCloses) /\ WF_vars(Tell)
================================================================================
