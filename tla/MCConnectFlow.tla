--------------------------- MODULE MCConnectFlow ---------------------------
(***************************************************************************)
(* A browser that calls back twice and submits the form up to three times. *)
(* The requests of one kind are interchangeable, but liveness is checked,  *)
(* so no symmetry is declared.                                             *)
(***************************************************************************)
EXTENDS ConnectFlow

CONSTANTS c1, c2, f1, f2, f3

MCCallbacks == {c1, c2}
MCForms     == {f1, f2, f3}
=============================================================================
