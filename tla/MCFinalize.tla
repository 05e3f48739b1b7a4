------------------------------ MODULE MCFinalize ------------------------------
(* Two controllers, two configurations, up to two tasks and two setbacks.   *)
EXTENDS Finalize

CONSTANTS p1, p2, c1, c2
=============================================================================
