-------------------------- MODULE MCEvolutionCycle --------------------------
(***************************************************************************)
(* EvolutionCycle for TLC: two candidates per generation, so that one can  *)
(* take the other's place, and time in units of the gap between windows.   *)
(***************************************************************************)
EXTENDS EvolutionCycle, TLC

\* No runner loads the policies while a cycle runs, and the range stays narrow.
Undisturbed == (store # Nil => pc["cycle"] = "idle") /\ maxDelta = Narrow

Events == faults + calls + (IF maxDelta = Wide THEN 1 ELSE 0)

\* What is explored: long behaviours in which nothing happens but cycles, one after
\* the other, or cycles and one request, up to the point where an update of the state
\* file is lost (the properties about what really happened end there); and short ones
\* with runners that wait, any fault, any request, a wider range and any lost update.
Explored ==
    \/ Undisturbed /\ history # Nil /\ Events = 0
    \/ Undisturbed /\ history # Nil /\ faults = 0 /\ now <= 2 /\ cycles <= 4
    \/ now <= 2 /\ cycles <= 3 /\ Events <= 1
    \/ now <= 1 /\ cycles <= 2 /\ Events <= 2

\* No candidate is special.
Symmetry == Permutations(Slots)
=============================================================================
