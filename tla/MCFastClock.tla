----------------------------- MODULE MCFastClock -----------------------------
(* Instances of FastClock for TLC.                                         *)
EXTENDS FastClock

CONSTANTS r1

OneReader == {r1}
=============================================================================
