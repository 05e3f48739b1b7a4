---------------------------- MODULE MCDispatch ----------------------------
(* Dispatch for TLC: two processes, two commands, two briefs.              *)
EXTENDS Dispatch

CONSTANTS p1, p2, c1, c2, b1, b2
=============================================================================
