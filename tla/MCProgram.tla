------------------------------ MODULE MCProgram ------------------------------
(* Instances of Program for TLC.                                           *)
EXTENDS Program, TLC

CONSTANTS c1, c2, l1, l2

TwoCPUs  == {c1, c2}
TwoLocks == {l1, l2}
OneLock  == {l1}
Symmetry == Permutations(TwoCPUs) \cup Permutations(TwoLocks)
=============================================================================
