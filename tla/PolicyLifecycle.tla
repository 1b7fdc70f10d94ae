-------------------------- MODULE PolicyLifecycle --------------------------
(***************************************************************************)
(* What the policy files promise to whoever reads them: one policy is in   *)
(* force, and it changes in two ways only.  A governance cycle releases a  *)
(* candidate that was derived from some policy, or somebody goes back to a *)
(* policy that has been in force before.  Nothing else - a crash, a failed *)
(* write, a damaged file, a rejected candidate - puts a policy in force.   *)
(*                                                                         *)
(* PolicyStore.tla implements this with three files, two processes and a   *)
(* copy of the policy in the memory of each; EvolutionCycle.tla with the   *)
(* cycles and requests that decide when a policy is to change.             *)
(***************************************************************************)
CONSTANTS
    Policies,   \* every policy there may be
    Baseline,   \* the policy the package ships
    Children    \* Children[p]: the candidates a cycle derives from p

VARIABLES
    inForce,    \* the policy the active file holds
    released    \* every policy that has ever been in force

lifecycleVars == <<inForce, released>>

Init ==
    /\ inForce = Baseline
    /\ released = {Baseline}

\* A cycle puts a candidate in force.  The policy it was derived from had to
\* be in force at some time: candidates are derived from running policies.
Release(c) ==
    /\ inForce' = c
    /\ released' = released \cup {c}
    /\ \E p \in released : c \in Children[p]

\* A rollback or a recovery goes back to a policy that was in force before.
GoBack(p) ==
    /\ inForce' = p
    /\ p \in released
    /\ UNCHANGED released

Next == \E p \in Policies : GoBack(p) \/ Release(p)

Spec == Init /\ [][Next]_lifecycleVars
=============================================================================
