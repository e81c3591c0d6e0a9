-------------------------- MODULE OneShotEnrollment --------------------------
(***************************************************************************)
(* What `familiar-fleet connect' promises the user and the service, however *)
(* the browser, the timeout and the handlers interleave: the machine is    *)
(* enrolled at most once, what is saved was enrolled, it is saved for good, *)
(* and nobody is told of a success that is not on disk                     *)
(* (internal/client/oauth.go:279).                                         *)
(***************************************************************************)
EXTENDS Naturals

VARIABLES
  enrolled,  \* enrollments the service has carried out
  saved,     \* the state file exists
  told       \* what the command has returned and the browser has been shown

vars == <<enrolled, saved, told>>

Init == enrolled = 0 /\ saved = FALSE /\ told = {}

Enroll == enrolled = 0 /\ enrolled' = 1 /\ UNCHANGED <<saved, told>>

Save == enrolled = 1 /\ saved' = TRUE /\ UNCHANGED <<enrolled, told>>

TellError == told' = told \cup {"error"} /\ UNCHANGED <<enrolled, saved>>

TellConnected == saved /\ told' = told \cup {"connected"} /\ UNCHANGED <<enrolled, saved>>

Next == Enroll \/ Save \/ TellError \/ TellConnected

Spec == Init /\ [][Next]_vars
=============================================================================
