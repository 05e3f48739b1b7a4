------------------------------ MODULE Admission ------------------------------
(***************************************************************************)
(* What admission control promises, without reviews, heads or merges:      *)
(* jobs claim domains and wait for other jobs.  A job begins only when its *)
(* claims are free, what it waits for is finished and the crew has room.   *)
(* Jobs being worked on or finished cannot be re-planned.                  *)
(* TaskEngine implements it (see TaskEngine_proofs).                       *)
(***************************************************************************)
EXTENDS Naturals, FiniteSets

CONSTANTS Jobs, Claims, Clash, Unlimited

VARIABLES working, finished, claims, waits, limit

jobVars == <<working, finished, claims, waits, limit>>

Clashing(i, j) == \E c \in claims[i], d \in claims[j] : <<c, d>> \in Clash

JobsInit ==
  /\ working = {} /\ finished = {}
  /\ claims = [j \in Jobs |-> {}] /\ waits = [j \in Jobs |-> {}]
  /\ limit = Unlimited

Begin(j) ==
  /\ j \notin working \cup finished
  /\ waits[j] \subseteq finished
  /\ \A k \in working : ~Clashing(j, k)
  /\ limit # Unlimited => Cardinality(working) < limit
  /\ working' = working \cup {j}
  /\ UNCHANGED <<finished, claims, waits, limit>>

\* Set aside or abandoned.
Leave(j) ==
  /\ j \in working
  /\ working' = working \ {j}
  /\ UNCHANGED <<finished, claims, waits, limit>>

Finish(j) ==
  /\ j \in working
  /\ working' = working \ {j}
  /\ finished' = finished \cup {j}
  /\ UNCHANGED <<claims, waits, limit>>

Replan ==
  /\ UNCHANGED <<working, finished>>
  /\ claims' \in [Jobs -> SUBSET Claims]
  /\ waits' \in [Jobs -> SUBSET Jobs]
  /\ \A j \in working \cup finished :
       claims'[j] = claims[j] /\ waits'[j] = waits[j]
  /\ limit' \in Nat \cup {Unlimited}

JobsNext ==
  \/ Replan
  \/ \E j \in Jobs : Begin(j) \/ Leave(j) \/ Finish(j)

JobsSpec == JobsInit /\ [][JobsNext]_jobVars
=============================================================================
