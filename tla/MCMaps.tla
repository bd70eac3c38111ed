-------------------------------- MODULE MCMaps -------------------------------
(***************************************************************************)
(* Instances of Maps for TLC.                                              *)
(***************************************************************************)
EXTENDS Maps

TwoPids == 1 .. 2
=============================================================================
