--------------------------- MODULE MCHerdrSession ---------------------------
(***************************************************************************)
(* Two overlapping invocations, of any of the three commands and started   *)
(* again and again.                                                        *)
(***************************************************************************)
EXTENDS HerdrSession

CONSTANTS p1, p2

TwoProcs == {p1, p2}
=============================================================================
