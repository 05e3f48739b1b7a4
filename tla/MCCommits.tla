------------------------------ MODULE MCCommits ------------------------------
(* Three processes.  Two machines: a dead process has one survivor that may *)
(* reclaim its lock.  One machine: it may have two.                         *)
EXTENDS Commits

CONSTANTS p1, p2, p3, retried, here, there

TwoHosts == [p \in {p1, p2, p3} |-> IF p = p3 THEN there ELSE here]
OneHost == [p \in {p1, p2, p3} |-> here]

\* A command with a key, and one issued against the first revision.
MCCommands ==
  {[key |-> retried, expected |-> None], [key |-> None, expected |-> 0]}
=============================================================================
