------------------------------ MODULE NextQueue ------------------------------
(***************************************************************************)
(* wddctl next: the read-only action queue computed from the stored state  *)
(* (engine.next_actions, bounded_next_actions, GATE_ACTIONS).  Abstracted: *)
(* the command strings and models attached to an action, and the rendered  *)
(* size that makes bounded_next_actions choose its limit.                  *)
(***************************************************************************)
EXTENDS TaskEngine, SequencesExt

CONSTANT Order      \* the task ids, sorted

ASSUME OrderAssumption ==
  Order \in Seq(Tasks) /\ ToSet(Order) = Tasks /\ IsInjective(Order)

Unlimited == Len(Order) + 1

ReconcileDue == notes > 0 \/ (every # None /\ merges >= every)

GateActions ==
  [no_pr |-> "await_worker", reviewing |-> "run_review",
   needs_review |-> "run_review", needs_fixes |-> "assign_fix_writer",
   needs_verification |-> "run_verification",
   needs_freshness |-> "check_branch_freshness",
   ready_to_merge |-> "mark_merge_ready", merge_ready |-> "merge_task"]
UnfreshAction(gate) ==      \* Mutant: freshness is taken for granted
  GateActions[IF gate = "needs_freshness" THEN "merge_ready" ELSE gate]
GateAction(gate) == GateActions[gate]

Item(t, a) == [task |-> t, action |-> a]

\* admission_blocker's code for a task it refuses, in the order it decides.
BlockerCode(st, t) ==
  IF \E d \in deps[t] : st[d] # "done" THEN "dependencies"
  ELSE IF \E u \in WithStatus(st, Active) \ {t} : Collide(t, u)
    THEN "conflict_domains"
  ELSE "max_concurrent"

Skipped(t) == status[t] \in {"absent", "done", "cancelled"}

ProposedOnly(q, t) ==       \* Mutant: the projection is not updated
  [q EXCEPT !.actions = Append(@, Item(t, "start_task"))]
Started(q, t) ==
  [q EXCEPT !.actions = Append(@, Item(t, "start_task")),
            !.projected[t] = "in_progress"]

\* One turn of the loop over the sorted tasks.  q.projected is the status
\* table with the starts proposed so far applied.
Visit(limit, q, t) ==
  IF Len(q.actions) >= limit \/ Skipped(t) THEN q
  ELSE IF status[t] = "blocked"
    THEN [q EXCEPT !.blockers = Append(@, Item(t, "blocked"))]
  ELSE IF status[t] = "todo" /\ ~Admissible(q.projected, t)
    THEN [q EXCEPT !.blockers = Append(@, Item(t, BlockerCode(q.projected, t)))]
  ELSE IF status[t] = "todo" THEN Started(q, t)
  ELSE [q EXCEPT !.actions = Append(@, Item(t, GateAction(Gate(t))))]

\* The queue after the first n tasks, for every n.
Queue(limit) ==
  LET first == IF ReconcileDue THEN <<Item(None, "run_reconciliation")>>
                               ELSE <<>>
      queue[n \in 0 .. Len(Order)] ==
        IF n = 0
        THEN [actions |-> first, blockers |-> <<>>, projected |-> status]
        ELSE Visit(limit, queue[n - 1], Order[n])
  IN queue

NextActions(limit) ==
  IF Ratified THEN Queue(limit)[Len(Order)]
  ELSE [actions |-> <<>>,
        blockers |-> <<Item(None, "constitution_unratified")>>,
        projected |-> status]

CutActions(all, actions, blockers) ==   \* Mutant: cut blockers do not count
  Len(actions) < Len(all.actions)
Truncated(all, actions, blockers) ==
  \/ Len(actions) < Len(all.actions)
  \/ Len(blockers) < Len(all.blockers)

\* What is shown under a limit, beside the whole queue: that limit's actions,
\* and as many of the blockers of the whole queue.
BoundedNext(all, limit) ==
  LET cut == NextActions(limit)
      shown == SubSeq(all.blockers, 1,
                      IF limit < Len(all.blockers) THEN limit
                      ELSE Len(all.blockers))
  IN [actions |-> cut.actions, blockers |-> shown,
      truncated |-> Truncated(all, cut.actions, shown)]

Proposed == ToSet(NextActions(Unlimited).actions)

-----------------------------------------------------------------------------
(* Properties.                                                             *)

\* docs/wddctl.md: "A single pass never proposes two conflicting starts".  The
\* controller dispatches a pass's starts in any order, so the whole set must be
\* admissible beside the tasks already working, not only each in its turn.
StartsFitTogether ==
  LET starts == {i.task : i \in {j \in Proposed : j.action = "start_task"}}
      crew == WithStatus(status, Active) \cup starts
  IN /\ \A t \in starts, u \in crew : t # u => ~Collide(t, u)
     /\ \A t \in starts : \A d \in deps[t] : status[d] = "done"
     /\ starts # {} /\ scope.max # None => Cardinality(crew) <= scope.max

\* What the engine requires of the event that carries an action out.
Accepts(i) ==
  LET t == i.task IN
  CASE i.action = "run_reconciliation" -> Ratified
    [] i.action = "start_task" -> status[t] = "todo" /\ Admissible(status, t)
    [] i.action = "await_worker" -> status[t] = "in_progress" /\ ~pr[t]
    [] i.action = "assign_fix_writer" -> status[t] \in Active /\ pr[t]
    [] i.action = "run_review" ->
         status[t] \in Active /\ pr[t] /\ head[t] # None
    [] i.action \in {"run_verification", "mark_merge_ready"} ->
         status[t] = "in_progress" /\ head[t] # None
    [] i.action = "check_branch_freshness" -> status[t] = "merge_ready"
    [] i.action = "merge_task" ->
         status[t] = "merge_ready" /\ Gate(t) = "merge_ready"

\* Every proposed action is one the transition table accepts: the queue and
\* the transitions are separate readings of the same gates.
EveryProposalAccepted == \A i \in Proposed : Accepts(i)

\* A queue without actions means only a person can move the scope: nothing is
\* being worked on, and if tasks wait then some task is blocked or cancelled.
\* (Dependencies are acyclic, so tasks cannot all wait for each other.)
EmptyQueueIsStuck ==
  Ratified /\ Proposed = {} =>
    /\ WithStatus(status, Active) = {}
    /\ WithStatus(status, {"todo"}) # {} =>
         WithStatus(status, {"blocked", "cancelled"}) # {}

\* No open task falls out of the queue, and the truncated flag is honest: an
\* answer that is not cut names every open task, however small its limit.
UntruncatedIsComplete ==
  Ratified =>
    LET all == NextActions(Unlimited)
        open == WithStatus(status, {"todo", "blocked"} \cup Active)
    IN \A limit \in 0 .. Unlimited :
         LET shown == BoundedNext(all, limit)
             named == ToSet(shown.actions) \cup ToSet(shown.blockers)
         IN shown.truncated \/ open \subseteq {i.task : i \in named}
=============================================================================
