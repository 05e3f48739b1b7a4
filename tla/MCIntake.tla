------------------------------ MODULE MCIntake ------------------------------
(* Instances of Intake for TLC: two plans, two versions of every file.     *)
EXTENDS Intake

CONSTANTS p1, p2
=============================================================================
