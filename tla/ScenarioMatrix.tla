---------------------------- MODULE ScenarioMatrix ----------------------------
(***************************************************************************)
(* The conformance runner (conformance/src/runner.ts): scenarios one after *)
(* the other, each prepared, acted and cleaned up by a harness and         *)
(* executors that may answer, fail, be late or never settle, under a       *)
(* deadline each and the signal of the caller.                             *)
(***************************************************************************)
EXTENDS Naturals, Sequences

CONSTANTS
  Count,    \* how many scenarios are selected
  Plans,    \* sequences of actions: a kind, and the scenario they check again
  None

CountIsNatural == Count \in Nat

VARIABLES
  plans,    \* of the selected scenarios; None without one
  results,  \* what the matrix reports
  at,       \* where the runner is
  step,     \* the action it is at
  running,  \* operations of harness and executors that have not settled
  budget,   \* of the cleanup: "whole", "started" by a witness, or "over"
  outcome,  \* of the running scenario, before its cleanup
  aborted,
  cleaned   \* ghost: scenarios whose cleanup succeeded

vars == <<plans, results, at, step, running, budget, outcome, aborted, cleaned>>

Current == Len(results) + 1
Operation(kind) == [scenario |-> Current, kind |-> kind]
Action == plans[Current][step]

\* by is a ghost: who ended the scenario.
Result(state, category, by) ==
  [state |-> state, category |-> category, recheck |-> None, cleanup |-> None, by |-> by]
-----------------------------------------------------------------------------
(* Verdicts. *)

OfTheTarget == {"assertion", "execution", "observation", "network"}

Category(error) ==
  CASE error = "timeout" -> "deadline"
    [] error = "abort" -> "aborted"
    [] error = "executor-missing" -> "not-implemented"
    [] error = "out-of-scope" -> "out-of-scope-target"
    [] error \in {"exact-configuration", "exact-observation", "observation-limit",
                  "wire-unavailable"} -> error
    [] OTHER -> None

By(error) == IF error \in {"timeout", "abort"} THEN error ELSE "operation"

Verdict(error) ==
  IF error \in OfTheTarget THEN Result("fail", None, By(error))
  ELSE IF error = "unsupported" THEN Result("unsupported-profile", None, By(error))
  ELSE Result("harness-error", Category(error), By(error))

\* What a failed recheck of a prerequisite tells of its reason.
RecheckCategory(error) ==
  CASE error = "timeout" -> "deadline"
    [] error = "out-of-scope" -> "containment"
    [] error \in {"exact-configuration", "exact-observation", "observation-limit"} -> error
    [] OTHER -> "none"

Recheck(error) ==
  [Result("harness-error", "not-run", By(error)) EXCEPT !.recheck = RecheckCategory(error)]

\* The caller's signal comes before every other reason.
Judged(error) ==
  IF aborted THEN Verdict("abort")
  ELSE IF at \in {"acting", "collecting", "between"} /\ Action.recheck # 0 THEN Recheck(error)
  ELSE Verdict(error)

MustStop(r) ==
  \/ r.cleanup # None
  \/ r.recheck \notin {None, "none"}
  \/ r.category \in {"aborted", "cleanup", "deadline", "out-of-scope-target",
                     "exact-configuration", "exact-observation"}
-----------------------------------------------------------------------------
(* The matrix. *)

Reports(r) ==
  /\ results' = Append(results, r) /\ at' = "matrix"
  /\ UNCHANGED <<plans, step, budget, outcome, aborted>>

Unmet(i) ==
  \E k \in DOMAIN plans[i] :
    LET p == plans[i][k].recheck IN
    p # 0 /\ (p \in DOMAIN results => results[p].state # "pass")

NotRun == Result("harness-error", "not-run", "matrix")

Stops == aborted \/ (results # <<>> /\ MustStop(results[Len(results)]))

StopMatrix ==
  /\ at = "matrix" /\ (Stops \/ Len(results) = Count)
  /\ at' = "done"
  /\ results' = results \o [k \in 1..(Count - Len(results)) |-> NotRun]
  /\ UNCHANGED <<plans, step, running, budget, outcome, aborted, cleaned>>

\* A scenario without a plan, without its prerequisites or beyond the profile.
PassOver ==
  /\ at = "matrix" /\ ~Stops /\ Len(results) < Count /\ UNCHANGED <<running, cleaned>>
  /\ \/ /\ plans[Current] = None
        /\ Reports(Result("harness-error", "not-implemented", "matrix"))
     \/ /\ plans[Current] # None /\ Unmet(Current)
        /\ Reports([NotRun EXCEPT !.recheck = "none"])
     \/ /\ plans[Current] # None /\ ~Unmet(Current)
        /\ Reports(Result("unsupported-profile", None, "matrix"))

Prepare ==
  /\ at = "matrix" /\ ~Stops /\ Len(results) < Count
  /\ plans[Current] # None /\ ~Unmet(Current)
  /\ at' = "preparing" /\ step' = 1 /\ budget' = "whole"
  /\ running' = running \cup {Operation("prepare")}
  /\ UNCHANGED <<plans, results, outcome, aborted, cleaned>>
-----------------------------------------------------------------------------
(* A scenario. *)

Ends(r) == outcome' = r /\ at' = "ending"
Fails(error) == Ends(Judged(error))

Settles(kind) ==
  Operation(kind) \in running /\ running' = running \ {Operation(kind)}

\* A signal that is aborted already wins over what settles.  A harness may reject
\* with the errors of the client it uses.
Prepared ==
  /\ at = "preparing" /\ ~aborted /\ Settles("prepare")
  /\ \/ at' = "between" /\ UNCHANGED outcome
     \/ \E error \in {"harness", "unsupported", "observation", "network", "timeout", "abort"} :
          Fails(error)
     \/ Ends(Result("not-applicable", None, "operation"))
  /\ UNCHANGED <<plans, results, step, budget, aborted, cleaned>>

PrepareStops ==
  /\ at = "preparing"
  /\ \/ ~aborted /\ Fails("timeout")
     \/ aborted /\ Fails("abort")
  /\ UNCHANGED <<plans, results, step, running, budget, aborted, cleaned>>

\* Errors of the runner itself, before anything is executed.
Refused(kind) ==
  CASE kind = "http" -> {"harness", "observation", "exact-configuration"}
    [] kind = "exact" -> {"harness", "observation", "exact-configuration"}
    [] kind = "program" -> {"executor-missing", "harness"}

\* What executors reject with, and what their answers are found to be.
Faults(kind) ==
  CASE kind = "http" -> {"network", "observation-limit", "timeout", "abort", "harness",
                         "assertion", "observation", "out-of-scope"}
    [] kind = "exact" -> {"exact-configuration", "exact-observation", "timeout", "abort",
                          "assertion", "observation", "out-of-scope", "wire-unavailable",
                          "network", "observation-limit", "harness"}
    [] kind = "program" -> {"execution", "assertion", "observation", "harness"}

AllActed ==
  /\ at = "between" /\ step > Len(plans[Current])
  /\ Ends(Result("pass", None, "operation"))
  /\ UNCHANGED <<plans, results, step, running, budget, aborted, cleaned>>

Act ==
  /\ at = "between" /\ step <= Len(plans[Current])
  /\ \/ /\ \E error \in Refused(Action.kind) : Fails(error)
        /\ UNCHANGED running
     \/ /\ at' = "acting" /\ running' = running \cup {Operation("action")}
        /\ UNCHANGED outcome
  /\ UNCHANGED <<plans, results, step, budget, aborted, cleaned>>

Acted ==
  /\ at = "acting" /\ ~aborted /\ Settles("action")
  /\ \/ at' = "between" /\ step' = step + 1 /\ UNCHANGED outcome
     \/ \E error \in Faults(Action.kind) : Fails(error) /\ UNCHANGED step
  /\ UNCHANGED <<plans, results, budget, aborted, cleaned>>

\* What an exact exchange has written is waited for, out of the cleanup's time.
Interrupted(error) ==
  IF Action.kind = "exact"
  THEN at' = "collecting" /\ budget' = "started" /\ UNCHANGED outcome
  ELSE Fails(error) /\ UNCHANGED budget

ActionStops ==
  /\ at = "acting"
  /\ Interrupted(IF aborted THEN "abort" ELSE "timeout")
  /\ UNCHANGED <<plans, results, step, running, aborted, cleaned>>

\* An exact exchange that settles after its end is one that timed out.
ActedLate ==
  /\ at = "acting" /\ ~aborted /\ Action.kind = "exact" /\ Settles("action")
  /\ Interrupted("timeout")
  /\ UNCHANGED <<plans, results, step, aborted, cleaned>>

BudgetEnds ==
  /\ budget = "started" /\ at \in {"collecting", "ending"} /\ budget' = "over"
  /\ UNCHANGED <<plans, results, at, step, running, outcome, aborted, cleaned>>

Witnessed == budget = "over" \/ Operation("action") \notin running

Collected ==
  /\ at = "collecting" /\ Witnessed
  /\ Fails("timeout")
  /\ UNCHANGED <<plans, results, step, running, budget, aborted, cleaned>>

\* What settles when nobody waits for it any more.
SettlesLate ==
  /\ \E op \in running :
       /\ \/ op.scenario # Current \/ at \in {"collecting", "ending", "done"}
          \/ aborted /\ op.kind # "cleanup"
       /\ running' = running \ {op}
  /\ UNCHANGED <<plans, results, at, step, budget, outcome, aborted, cleaned>>
-----------------------------------------------------------------------------
(* Its end. *)

Unsettled == Operation("action") \in running \/ Operation("prepare") \in running

Skipped(reason) == [outcome EXCEPT !.cleanup = reason]

SkipCleanup ==
  /\ at = "ending" /\ (Unsettled \/ budget = "over")
  /\ Reports(Skipped(IF Unsettled THEN "skipped" ELSE "exhausted"))
  /\ UNCHANGED <<running, cleaned>>

Clean ==
  /\ at = "ending" /\ ~Unsettled /\ budget # "over"
  /\ at' = "cleaning" /\ running' = running \cup {Operation("cleanup")}
  /\ UNCHANGED <<plans, results, step, budget, outcome, aborted, cleaned>>

CleanupFailed(category, reason) ==
  [outcome EXCEPT !.state = IF @ = "pass" THEN "harness-error" ELSE @,
                  !.category = IF @ = None THEN category ELSE @,
                  !.cleanup = reason]

CleanupSettles ==
  /\ at = "cleaning" /\ Settles("cleanup")
  /\ \/ Reports(outcome) /\ cleaned' = cleaned \cup {Current}
     \/ Reports(CleanupFailed("cleanup", "failed")) /\ UNCHANGED cleaned

CleanupStops ==
  /\ at = "cleaning"
  /\ Reports(CleanupFailed("deadline", "timeout"))
  /\ UNCHANGED <<running, cleaned>>

Abort ==
  /\ ~aborted /\ at # "done" /\ aborted' = TRUE
  /\ UNCHANGED <<plans, results, at, step, running, budget, outcome, cleaned>>
-----------------------------------------------------------------------------
Init ==
  /\ plans \in {p \in [1..Count -> Plans \cup {None}] :
                  \A i \in 1..Count : p[i] # None =>
                    \A k \in DOMAIN p[i] : p[i][k].recheck # i}
  /\ results = <<>> /\ at = "matrix" /\ step = 1 /\ running = {} /\ budget = "whole"
  /\ outcome = None /\ aborted = FALSE /\ cleaned = {}

\* What the runner and its timers do, whatever harness and executors do.
Runner ==
  \/ StopMatrix \/ PassOver \/ Prepare \/ PrepareStops \/ AllActed \/ Act \/ ActionStops
  \/ BudgetEnds \/ Collected \/ SkipCleanup \/ Clean \/ CleanupStops

Next ==
  \/ Runner \/ Prepared \/ Acted \/ ActedLate \/ SettlesLate \/ CleanupSettles \/ Abort

Spec == Init /\ [][Next]_vars
-----------------------------------------------------------------------------
(***************************************************************************)
(* What a report of the conformance runner can be relied on for.           *)
(***************************************************************************)

\* Scenarios share one target: nothing a scenario started is running when another
\* one is prepared or acts, and no cleanup runs beside what it cleans up
\* (runScenario, mustStopMatrixAfter).
NothingOverlaps ==
  /\ at \in {"preparing", "between", "acting"} => \A op \in running : op.scenario = Current
  /\ at = "cleaning" => \A op \in running : op = Operation("cleanup")

\* What was prepared is cleaned up, or the report says that it was not and is the
\* last one with a scenario that ran (cleanupError, stoppedScenarioResult).
CleanupIsOwed ==
  \A i \in DOMAIN results :
    results[i].by # "matrix" /\ i \notin cleaned =>
      /\ results[i].cleanup # None
      /\ \A j \in DOMAIN results : j > i => results[j].by = "matrix"

\* A scenario passes only when its target was restored and every prerequisite it
\* names passed before it (prerequisiteResultBeforeRun, runScenario).
PassIsEarned ==
  \A i \in DOMAIN results : results[i].state = "pass" =>
    /\ i \in cleaned
    /\ \A k \in DOMAIN plans[i] : plans[i][k].recheck # 0 =>
         plans[i][k].recheck < i /\ results[plans[i][k].recheck].state = "pass"

\* The target is blamed for what it did, never for the runner's own deadlines or
\* its caller's signal (runScenario, runProgrammaticAction, runRequest).
BlameIsTheTargets ==
  \A i \in DOMAIN results : results[i].state = "fail" => results[i].by = "operation"

\* The runner gets on by itself, with its timers: no operation has to settle.
Fairness == WF_vars(Runner)
===============================================================================
