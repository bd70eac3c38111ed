------------------------------- MODULE MCMp2 --------------------------------
(* Instances of Mp2 for TLC.                                               *)
EXTENDS Mp2, TLC

CONSTANTS p1, p2, noproc, a, b

One   == {p1}
Two   == {p1, p2}
PidsAndNone == {p1, p2, noproc}

\* Every process names itself; or p2 speaks for anybody, and for a process
\* that is not there.
OwnPid     == [p \in Proc |-> {p}]
AnyAndNone == [p \in Proc |-> IF p = p2 THEN {p1, p2, noproc} ELSE {p}]

\* The number of calls p1 makes, and the number every other process makes.
Calls22 == [p \in Proc |-> 2]
Calls42 == [p \in Proc |-> IF p = p1 THEN 4 ELSE 2]

TwoSlots   == {a, b}
Symmetry   == Permutations(TwoSlots)
=============================================================================
