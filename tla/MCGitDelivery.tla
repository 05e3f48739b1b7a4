--------------------------- MODULE MCGitDelivery ---------------------------
(* GitDelivery on two files: one in the task's domain and one outside.     *)
EXTENDS GitDelivery, MCTaskEngine

CONSTANTS inside, outside

MCCommits == [on : Tasks \cup {Base}, n : 0 .. MaxCommits]
C1 == [t \in {t1} |-> {auth}]
SelfOverlap == {<<d, d>> : d \in Domains}
MCMatches == [d \in Domains |-> IF d = auth THEN {inside} ELSE {}]
GitPlans == {MkPlan(Scope("always", None, main, None), <<>>, C1, {})}
=============================================================================
