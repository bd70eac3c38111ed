------------------------------ MODULE MCHelpers ------------------------------
(***************************************************************************)
(* Instances of Helpers for TLC.                                           *)
(***************************************************************************)
EXTENDS Helpers

SomeChars == 0 .. 2
SomeBits  == 0 .. 1
U8AndBool == {"u8", "bool"}
U8        == {"u8"}
=============================================================================
