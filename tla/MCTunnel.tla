------------------------------ MODULE MCTunnel ------------------------------
(***************************************************************************)
(* One invocation and two ports: it may pick one that another program is   *)
(* about to take, and what a killed invocation has left behind is met by   *)
(* the next.  Invocations that overlap are TunnelProofs' matter.           *)
(***************************************************************************)
EXTENDS Tunnel

CONSTANTS p1, q1, q2

OneProc  == {p1}
TwoPorts == {q1, q2}
=============================================================================
