----------------------------- MODULE RuntimePair -----------------------------
(***************************************************************************)
(* What the runtime store promises to whoever reads its two pointers.      *)
(* Herdr panes resolve their tools through `current', and an operator      *)
(* relies on `previous' to get back.  The promise has two halves:          *)
(*                                                                         *)
(*   - the active runtime is only ever replaced by another runtime that    *)
(*     starts, never by nothing;                                           *)
(*   - it is only replaced once it has been backed up, so that at the      *)
(*     moment of a switch the runtime being left can be returned to.       *)
(*                                                                         *)
(* Backing up and switching are two separate steps: nothing is promised    *)
(* about a crash that falls between them beyond what the steps say.        *)
(***************************************************************************)

CONSTANTS Sound,    \* the runtimes whose required tool starts
          None      \* no runtime

VARIABLES active, backup

vars == <<active, backup>>

Init == active = None /\ backup = None

\* Remember the active runtime as the one to return to.
BackUp == /\ active # None
          /\ backup' = active
          /\ UNCHANGED active

\* Make another runtime active.  The one being left is already backed up.
Switch(t) == /\ t # active
             /\ active # None => backup = active
             /\ active' = t
             /\ UNCHANGED backup

Next == BackUp \/ \E t \in Sound : Switch(t)

Spec == Init /\ [][Next]_vars
=============================================================================
