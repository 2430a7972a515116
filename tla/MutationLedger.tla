---------------------------- MODULE MutationLedger ----------------------------
(***************************************************************************)
(* What the transactional authority promises about an idempotency key: it  *)
(* is held by at most one execution, an effect is decided under it at most *)
(* once and for ever, a failure may be forgotten (it had no effect), and   *)
(* whoever is told an effect is told that one.                             *)
(***************************************************************************)
CONSTANT Keys

VARIABLES
  held,      \* keys reserved by an execution that has not ended
  final,     \* key -> the effect decided under it
  failed,    \* key -> the failure that is still remembered
  told       \* the pairs <<key, effect>> callers were told

vars == <<held, final, failed, told>>

Free(k) == k \notin held \cup DOMAIN final \cup DOMAIN failed

Init == held = {} /\ DOMAIN final = {} /\ DOMAIN failed = {} /\ told = {}

Reserve ==
  /\ held \subseteq held' /\ held' \subseteq Keys
  /\ \A k \in held' \ held : Free(k)
  /\ UNCHANGED <<final, failed, told>>

Release ==
  /\ held' \subseteq held
  /\ UNCHANGED <<final, failed, told>>

Extends(g, f, k) ==
  /\ DOMAIN g = DOMAIN f \cup {k}
  /\ \A j \in DOMAIN f : g[j] = f[j]

\* An execution ends; what it decided is left open, and what it held besides may
\* be given up with it.
Effect(k) ==
  /\ k \in held \/ Free(k)
  /\ held' \subseteq held \ {k}
  /\ Extends(final', final, k)
  /\ told' = told \/ told' = told \cup {<<k, final'[k]>>}
  /\ UNCHANGED failed

Fail(k) ==
  /\ k \in held \/ Free(k)
  /\ held' \subseteq held \ {k}
  /\ Extends(failed', failed, k)
  /\ UNCHANGED <<final, told>>

Forget ==
  /\ DOMAIN failed' \subseteq DOMAIN failed
  /\ \A k \in DOMAIN failed' : failed'[k] = failed[k]
  /\ held' \subseteq held
  /\ UNCHANGED <<final, told>>

Tell(k) ==
  /\ k \in DOMAIN final
  /\ told' = told \cup {<<k, final[k]>>}
  /\ held' \subseteq held
  /\ UNCHANGED <<final, failed>>

Next ==
  \/ Reserve \/ Release
  \/ \E k \in Keys : Effect(k) \/ Fail(k) \/ Tell(k)
  \/ Forget

Spec == Init /\ [][Next]_vars
=============================================================================
