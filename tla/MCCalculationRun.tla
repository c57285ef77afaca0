--------------------------- MODULE MCCalculationRun ---------------------------
(* Values of the constants of CalculationRun for TLC.                      *)
EXTENDS CalculationRun, TLC

CONSTANTS r1, r2, a1, a2, a3, k1, k2, k3, s1, s2

MCRuns     == {r1, r2}
MCActors   == {a1, a2, a3}
MCKeys     == {k1, k2, k3}
MCSessions == {s1, s2}
MCProduction == {r1}
Symmetry == Permutations(MCActors) \cup Permutations(MCKeys) \cup Permutations(MCSessions)
==============================================================================
