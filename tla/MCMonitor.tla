----------------------------- MODULE MCMonitor ------------------------------
(* An instance of Monitor for TLC.                                         *)
EXTENDS Monitor, TLC

CONSTANTS p1, c1

One       == {p1}
OneCaller == {c1}
=============================================================================
