--------------------------- MODULE MCTaskEngine ---------------------------
(* Instances of TaskEngine for TLC: three tasks and their plans.           *)
EXTENDS TaskEngine

CONSTANTS t1, t2, t3, auth, token, docs, main, dev

\* src/auth/** covers src/auth/token.py; docs/** is apart.
MCOverlap ==
  {<<auth, auth>>, <<token, token>>, <<docs, docs>>,
   <<auth, token>>, <<token, auth>>}

Scope(policy, max, baseRef, n) ==
  [policy |-> policy, max |-> max, baseRef |-> baseRef, every |-> n]

MkPlan(s, D, C, high) ==
  [tasks |-> DOMAIN C,
   deps |-> [t \in Tasks |-> IF t \in DOMAIN D THEN D[t] ELSE {}],
   domains |-> [t \in Tasks |-> IF t \in DOMAIN C THEN C[t] ELSE {}],
   risk |-> [t \in Tasks |-> IF t \in high THEN "high" ELSE "normal"],
   policy |-> s.policy, max |-> s.max, baseRef |-> s.baseRef,
   every |-> s.every]

C123 == [t \in {t1, t2, t3} |-> CASE t = t1 -> {auth} [] t = t2 -> {token}
                                  [] OTHER -> {docs}]
C12 == [t \in {t1, t2} |-> IF t = t1 THEN {auth} ELSE {docs}]
D23 == [t \in {t2} |-> {t3}]
D31 == [t \in {t3} |-> {t1}]

\* Two rivals and a dependent; a limit of one; t2 re-homed and t3 dropped,
\* rightly and with t2 still waiting for t3.
AdmissionPlans ==
  {MkPlan(Scope("none", 2, main, None), D31, C123, {}),
   MkPlan(Scope("none", 1, main, None), D31, C123, {}),
   MkPlan(Scope("none", None, main, None), <<>>, C12, {}),
   MkPlan(Scope("none", None, main, None), D23, C12, {})}

=============================================================================
