---------------------------- MODULE MCControlPort ----------------------------
(* An instance of ControlPort for TLC: three clients of the control socket, *)
(* and a backlog small enough to be full.                                   *)
EXTENDS ControlPort, TLC

CONSTANTS c1, c2, c3
=============================================================================
