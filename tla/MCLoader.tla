------------------------------ MODULE MCLoader -------------------------------
(* Instances of Loader for TLC.                                            *)
EXTENDS Loader, TLC

CONSTANTS o1, o2, o3, m1, m2, p1, p2

ThreeLoads == {o1, o2, o3}
TwoMaps    == {m1, m2}
TwoProgs   == {p1, p2}
Symmetry   == Permutations(ThreeLoads) \cup Permutations(TwoMaps)
              \cup Permutations(TwoProgs)
=============================================================================
