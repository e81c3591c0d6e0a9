---------------------------- MODULE MCEnrollment ----------------------------
(***************************************************************************)
(* Two commands on one state directory, which the operator clears once.    *)
(***************************************************************************)
EXTENDS Enrollment

CONSTANTS p1, p2

TwoProcs == {p1, p2}
=============================================================================
