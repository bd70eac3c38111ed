----------------------------- MODULE MCProfiler -----------------------------
(* Instances of Profiler for TLC.                                          *)
EXTENDS Profiler, TLC

CONSTANTS p1, p2, c1, c2

One       == {p1}
Two       == {p1, p2}
OneCaller == {c1}
TwoCallers == {c1, c2}
Symmetry == Permutations(TwoCallers)
=============================================================================
