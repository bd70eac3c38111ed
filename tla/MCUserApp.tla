----------------------------- MODULE MCUserApp ------------------------------
(* Instances of UserApp for TLC: two applications.                         *)
EXTENDS UserApp, TLC

CONSTANTS p1, p2, a, b

Two == {p1, p2}
One == {p1}

OwnPid == [p \in Proc |-> {p}]

\* No bound: an application ends by itself.
Unbounded == [p \in Proc |-> 1000]

MCPeriod == [p \in Proc |-> IF p = p1 THEN 2 ELSE 1]
MCTime   == [p \in Proc |-> 0]
OneJob   == [p \in Proc |-> 1]

TwoSlots == {a, b}
OneSlot  == {a}
Symmetry == Permutations(TwoSlots)
=============================================================================
