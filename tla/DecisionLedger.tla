---------------------------- MODULE DecisionLedger ----------------------------
(***************************************************************************)
(* What an idempotent decision service promises its callers, whatever it   *)
(* decides about: each claim (a principal's key) is decided at most once,  *)
(* a decision is never revised, and every answer a caller is told under a  *)
(* claim is the decision of that claim.                                    *)
(***************************************************************************)
CONSTANT Claims

VARIABLES
  decided,  \* the decision of every claim decided so far
  told      \* the pairs <<claim, answer>> callers have received

vars == <<decided, told>>

Init == DOMAIN decided = {} /\ told = {}

\* What is decided about a claim is left open.
Decide(c) ==
  /\ c \notin DOMAIN decided
  /\ DOMAIN decided' = DOMAIN decided \cup {c}
  /\ \A d \in DOMAIN decided : decided'[d] = decided[d]
  /\ told' = told \/ told' = told \cup {<<c, decided'[c]>>}

Tell(c) ==
  /\ c \in DOMAIN decided
  /\ told' = told \cup {<<c, decided[c]>>}
  /\ UNCHANGED decided

Next == \E c \in Claims : Decide(c) \/ Tell(c)

Spec == Init /\ [][Next]_vars
=============================================================================
