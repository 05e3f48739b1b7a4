------------------------------- MODULE MCEpics -------------------------------
(* Two slugs and two keys: an epic that is parked or archived, and another. *)
EXTENDS Epics

CONSTANTS s1, s2, k1, k2
=============================================================================
