----------------------------- MODULE MCReserve -----------------------------
(* Small instances of Reserve for TLC. *)
EXTENDS Reserve, TLC

CONSTANT MaxSteps \* bound: the length of a behaviour

VARIABLE steps

MCInit == Init /\ steps = 0
MCNext == steps < MaxSteps /\ steps' = steps + 1 /\ Next
MCSpec == MCInit /\ [][MCNext]_<<vars, steps>>

UserSymmetry == Permutations(Users)

\* A ray of a thousand; half a year is a unit of time.
Steep ==
  [optimalUsage |-> 800, optimalStableToTotalDebt |-> 200, baseVariableRate |-> 20,
   variableSlope1 |-> 100, variableSlope2 |-> 600, stableSlope1 |-> 80, stableSlope2 |-> 700,
   baseStableOffset |-> 50, stableExcessOffset |-> 100]
=============================================================================
