------------------------ MODULE ReadSequenceLifecycle ------------------------
(***************************************************************************)
(* The coordinator of the Read+Update owner and its read plane             *)
(* (read-sequence-lifecycle.ts), with what it uses of both: the owner of   *)
(* attempts (sequence-executor.ts) and the plane (authority-read.ts).      *)
(*                                                                         *)
(* Everything runs in one thread, yet every call may run foreign code      *)
(* (policies, clocks, getters, schedulers) that calls back.  stack is the  *)
(* calls that have not returned; a promise's reactions run once it is      *)
(* empty, before any other task.                                           *)
(***************************************************************************)
EXTENDS Naturals, Sequences

CONSTANTS
  Lengths,      \* how many members an attempt may have
  MaxAttempts,  \* bound: attempts admitted in a behaviour
  None

LengthsArePositive == Lengths \subseteq Nat \ {0}

VARIABLES
  phase,    \* of the coordinator
  stack,    \* of frames: what runs, and the phase its end restores
  owner,    \* its state, the members its attempts have left, how it ended
  plane,
  drain,    \* what calling close of both components told, or None
  reacted,  \* the reaction to the owner's end has run
  joint, factory,
  admitted  \* ghost: how many attempts there were

vars == <<phase, stack, owner, plane, drain, reacted, joint, factory, admitted>>

Frame(kind, saved) == [kind |-> kind, saved |-> saved]
Running == IF stack = <<>> THEN "nothing" ELSE stack[Len(stack)].kind
OnStack(kinds) == \E i \in DOMAIN stack : stack[i].kind \in kinds

\* The owner is entered by submissions, reads, its own turns and its closing.
OwnerBusy == OnStack({"submitting", "reading", "turn", "maintenance", "closing"})
PlaneBusy == OnStack({"reading"})

Delegating(p) == p \in {"submitting", "binding-read", "reading", "closing"}

Gate(admission) ==
  /\ ~Delegating(phase) /\ phase # "read-callback"
  /\ ~OwnerBusy
  /\ admission => phase = "accepting" /\ owner.state = "accepting"

\* Reactions come before every other task.
Owed == phase # "none" /\ owner.state = "closed" /\ ~reacted
Task == stack = <<>> /\ ~Owed
-----------------------------------------------------------------------------
(* The owner: closing drains its attempts, which run on. *)

Drained(o) == IF o.state = "draining" /\ o.work = <<>> THEN [o EXCEPT !.state = "closed"] ELSE o
ShutDown(o) == IF o.state = "closed" THEN o ELSE [o EXCEPT !.state = "draining"]

\* A fault of its store ends every attempt, and the owner.
Fenced(o) == Drained([ShutDown(o) EXCEPT !.work = <<>>, !.failed = TRUE])

\* Cancelling its timer may fault; the owner tells at its end.
OwnerCloses(o) == {Drained(ShutDown(o)), Drained([ShutDown(o) EXCEPT !.failed = TRUE])}

MoreLeft(n) == n > 1
Without(work, i) == SubSeq(work, 1, i - 1) \o SubSeq(work, i + 1, Len(work))
-----------------------------------------------------------------------------
(* Construction. *)

\* Refused while it receives its options: the owner stays its caller's.
ReceivingFails ==
  /\ phase = "none" /\ factory = "pending" /\ Task
  /\ factory' = "caller"
  /\ UNCHANGED <<phase, stack, owner, plane, drain, reacted, joint, admitted>>

Receives ==
  /\ phase = "none" /\ factory = "pending" /\ Task /\ owner.state = "accepting"
  /\ phase' = "constructing" /\ stack' = <<Frame("constructing", None)>>
  /\ UNCHANGED <<owner, plane, drain, reacted, joint, factory, admitted>>

Constructed ==
  /\ Running = "constructing"
  /\ phase' = "accepting" /\ stack' = <<>> /\ factory' = "resolved"
  /\ plane' = [plane EXCEPT !.state = "open"]
  /\ UNCHANGED <<owner, drain, reacted, joint, admitted>>

Cleanup == phase' = "construction-cleanup" /\ owner' \in OwnerCloses(owner)

ConstructionFails ==
  /\ Running = "constructing"
  /\ stack' = <<>> /\ Cleanup
  /\ UNCHANGED <<plane, drain, reacted, joint, factory, admitted>>

ConstructionEnds ==
  /\ phase = "construction-cleanup" /\ stack = <<>> /\ owner.state = "closed" /\ reacted
  /\ phase' = "closed" /\ joint' = "rejected" /\ factory' = "coordinator"
  /\ UNCHANGED <<stack, owner, plane, drain, reacted, admitted>>
-----------------------------------------------------------------------------
(* Calls.  Callers have the coordinator once the factory resolved, and make  *)
(* them from tasks of their own or from inside of any frame.                 *)

Call == factory = "resolved" /\ (stack = <<>> => Task)

Enter(kind) ==
  /\ Call /\ Gate(TRUE)
  /\ phase' = kind /\ stack' = Append(stack, Frame(kind, phase))
  /\ UNCHANGED <<owner, plane, drain, reacted, joint, factory, admitted>>

Submit == admitted < MaxAttempts /\ Enter("submitting")
ReadFor == Enter("binding-read")
Read == plane.facet /\ Enter("reading")

\* The pagination's clock and tokens: inside a read, or when its timer fires.
Callback ==
  /\ \/ Running = "reading"
     \/ Task /\ plane.state = "open"
  /\ IF Delegating(phase) \/ phase = "read-callback"
     THEN stack' = Append(stack, Frame("read-callback", None)) /\ UNCHANGED phase
     ELSE stack' = Append(stack, Frame("read-callback", phase)) /\ phase' = "read-callback"
  /\ UNCHANGED <<owner, plane, drain, reacted, joint, factory, admitted>>

Returns ==
  LET frame == stack[Len(stack)] IN
  /\ stack' = SubSeq(stack, 1, Len(stack) - 1)
  /\ phase' = IF frame.saved = None THEN phase ELSE frame.saved
  /\ UNCHANGED <<drain, reacted, joint, factory>>

\* An attempt is admitted, refused or its admission faults.
SubmitEnds ==
  /\ Running = "submitting" /\ Returns /\ UNCHANGED plane
  /\ \/ \E n \in Lengths : /\ owner.state = "accepting" /\ admitted' = admitted + 1
                           /\ owner' = [owner EXCEPT !.work = Append(@, n)]
     \/ owner' \in {owner, Fenced(owner)} /\ UNCHANGED admitted

ReadForEnds ==
  /\ Running = "binding-read" /\ Returns
  /\ plane' = [plane EXCEPT !.facet = TRUE]
  /\ UNCHANGED <<owner, admitted>>

ReadEnds ==
  /\ Running = "reading" /\ Returns
  /\ owner' \in {owner, Fenced(owner)}
  /\ UNCHANGED <<plane, admitted>>

CallbackEnds == Running = "read-callback" /\ Returns /\ UNCHANGED <<owner, plane, admitted>>
-----------------------------------------------------------------------------
(* The owner's tasks: a member of an attempt, or its own maintenance. *)

Turn ==
  /\ Task /\ owner.work # <<>>
  /\ stack' = <<Frame("turn", None)>>
  /\ UNCHANGED <<phase, owner, plane, drain, reacted, joint, factory, admitted>>

Maintain ==
  /\ Task /\ owner.state = "accepting"
  /\ stack' = <<Frame("maintenance", None)>>
  /\ UNCHANGED <<phase, owner, plane, drain, reacted, joint, factory, admitted>>

\* A member is done; its attempt ends with its last, with a fault, or with a
\* fault that ends the owner too.
MemberEnds ==
  /\ Running = "turn" /\ Returns /\ UNCHANGED <<plane, admitted>>
  /\ \/ \E i \in DOMAIN owner.work :
          LET ended == [owner EXCEPT !.work = Without(owner.work, i)] IN
          \/ MoreLeft(owner.work[i]) /\ owner' = [owner EXCEPT !.work[i] = @ - 1]
          \/ owner' \in {Drained(ended), Drained([ShutDown(ended) EXCEPT !.failed = TRUE])}
     \/ owner' = Fenced(owner)

\* Maintenance may fault, and shuts the owner down.
MaintenanceEnds ==
  /\ Running = "maintenance" /\ Returns /\ UNCHANGED <<plane, admitted>>
  /\ owner' \in {owner, Fenced(owner), Drained([ShutDown(owner) EXCEPT !.failed = TRUE])}
-----------------------------------------------------------------------------
(* Closing. *)

\* Both components are told, the owner first.  A component that is entered
\* throws instead, and does not close.
BeginsClosing ==
  /\ phase' = "closing" /\ stack' = Append(stack, Frame("closing", None))
  /\ drain' = [owner |-> OwnerBusy, plane |-> FALSE]

Close ==
  /\ Call /\ Gate(FALSE)
  /\ phase \notin {"construction-cleanup", "draining", "closed"}
  /\ BeginsClosing
  /\ UNCHANGED <<owner, plane, reacted, joint, factory, admitted>>

CloseOwner ==
  /\ Running = "closing"
  /\ owner' \in IF drain.owner THEN {owner} ELSE OwnerCloses(owner)
  /\ stack' = [stack EXCEPT ![Len(stack)].kind = "disposing"]
  /\ UNCHANGED <<phase, plane, drain, reacted, joint, factory, admitted>>

\* Disposing of the pagination may fault.
ClosePlane ==
  /\ Running = "disposing"
  /\ stack' = SubSeq(stack, 1, Len(stack) - 1) /\ phase' = "draining"
  /\ IF PlaneBusy THEN drain' = [drain EXCEPT !.plane = TRUE] /\ UNCHANGED plane
     ELSE /\ UNCHANGED drain
          /\ \E end \in {"closed", "failed"} :
               plane' = [plane EXCEPT !.state = IF @ = "open" THEN end ELSE @]
  /\ UNCHANGED <<owner, reacted, joint, factory, admitted>>

\* Mutant: nobody looks when the owner ends by itself.
OwnerEnds_nothing == UNCHANGED <<phase, stack, drain, joint>>

\* The owner ended by itself: the plane has to follow.
OwnerEnds ==
  IF phase \in {"construction-cleanup", "closed", "draining"}
  THEN UNCHANGED <<phase, stack, drain, joint>>
  ELSE IF Gate(FALSE) THEN BeginsClosing /\ UNCHANGED joint
  ELSE phase' = "closed" /\ joint' = "rejected" /\ UNCHANGED <<stack, drain>>

OwnerFinished ==
  /\ stack = <<>> /\ Owed /\ reacted' = TRUE
  /\ OwnerEnds
  /\ UNCHANGED <<owner, plane, factory, admitted>>

Verdict ==
  IF owner.failed \/ drain.owner \/ drain.plane \/ plane.state = "failed"
  THEN "rejected" ELSE "resolved"

Settled == owner.state = "closed" /\ plane.state \in {"closed", "failed"}

JointSettles ==
  /\ phase = "draining" /\ Task /\ Settled
  /\ phase' = "closed" /\ joint' = Verdict
  /\ UNCHANGED <<stack, owner, plane, drain, reacted, factory, admitted>>
-----------------------------------------------------------------------------
Init ==
  /\ phase = "none" /\ stack = <<>> /\ drain = None /\ reacted = FALSE
  /\ owner = [state |-> "accepting", work |-> <<>>, failed |-> FALSE]
  /\ plane = [state |-> "none", facet |-> FALSE]
  /\ joint = "pending" /\ factory = "pending" /\ admitted = 0

\* Local code returns; what ran out of work goes on.
Proceeds ==
  \/ Constructed \/ ConstructionFails \/ ConstructionEnds
  \/ SubmitEnds \/ ReadForEnds \/ ReadEnds \/ CallbackEnds \/ MemberEnds
  \/ MaintenanceEnds
  \/ CloseOwner \/ ClosePlane \/ OwnerFinished \/ JointSettles

Next ==
  \/ ReceivingFails \/ Receives \/ Proceeds
  \/ Submit \/ ReadFor \/ Read \/ Callback \/ Turn \/ Maintain \/ Close

Spec == Init /\ [][Next]_vars
-----------------------------------------------------------------------------
(***************************************************************************)
(* What the coordinator of the owner and its read plane keeps, whatever    *)
(* the foreign code inside of calls calls back.                            *)
(***************************************************************************)

\* The joint promise settles only when both components have ended, with every
\* admitted attempt, and it resolves exactly when neither had a fault; a failed
\* construction rejects only when the owner it took has ended
\* (close, ReadSequenceCloseError, finish).
JointTellsBoth ==
  /\ joint # "pending" => /\ owner.state = "closed" /\ owner.work = <<>>
                          /\ plane.state \in {"closed", "failed"} \/ factory = "coordinator"
  /\ factory = "coordinator" => owner.state = "closed"
  /\ joint = "resolved" => ~owner.failed /\ plane.state = "closed"

\* Nothing is called on a component that is inside of a call already: the only
\* foreign calls that run in a frame are the clock and tokens of a read, and no
\* close meets a component that is entered (gate, invokeClose).
OneEntry ==
  /\ \A i \in DOMAIN stack :
       i > 1 => stack[i].kind = "read-callback" /\ stack[i - 1].kind = "reading"
  /\ drain # None => ~drain.owner /\ ~drain.plane

Draining == phase \in {"construction-cleanup", "draining", "closed"}

\* A call that returns restores the phase it found, and by that never admits again
\* what a close has ended: once it drains, nothing is admitted, no read starts and
\* the plane stays closed (close, callback, submit, deliver).
DrainingIsFinal ==
  Draining => /\ phase' \in {phase, "closed"}
              /\ admitted' = admitted /\ plane' = plane

\* The event loop: calls return, reactions run, and the tasks of the owner get
\* their turns among those of callers and timers.
Fairness ==
  /\ WF_vars(Proceeds)
  /\ SF_vars(Turn) /\ SF_vars(ReadEnds) /\ SF_vars(MemberEnds)
===============================================================================
