---------------------------- MODULE MCController ----------------------------
(* The loop over three tasks: two rivals and a dependent, one at a time    *)
(* shown by next, with two setbacks.                                       *)
EXTENDS Controller, MCTaskEngine

MCOrder == <<t1, t2, t3>>
LoopPlans ==
  {[p EXCEPT !.every = 2, !.policy = "risk_based", !.risk[t1] = "high"] :
     p \in {q \in AdmissionPlans : q.max # 1}}
=============================================================================
