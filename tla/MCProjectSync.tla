--------------------------- MODULE MCProjectSync ---------------------------
(* ProjectSync for TLC.  The ids of tasks are interchangeable: one is      *)
(* chosen by people or by the adapter, whichever is free.                  *)
EXTENDS ProjectSync, TLC

CONSTANTS t1, t2
Symmetry == Permutations(Tasks)
=============================================================================
