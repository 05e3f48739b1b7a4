------------------------------ MODULE Controller ------------------------------
(***************************************************************************)
(* The delivery loop: a controller that repeats `wddctl next`, carries out *)
(* what it proposed, however old the answer, and records the result,       *)
(* with the workers, reviewers and people it waits for.  The rules come    *)
(* from the loop's skill text (skills/wdd-run); the commands behind them   *)
(* from leases.py, review.py, freshness.py and merge.py.                   *)
(*                                                                         *)
(* Abstracted: Git.  behind is the set of tasks whose head check_freshness *)
(* would call materially stale or conflicted: any merge may put any other  *)
(* unmerged task there, and only a refresh takes it out.  A conflicting    *)
(* refresh is resolved in the worktree before the refresh step is taken.   *)
(***************************************************************************)
EXTENDS NextQueue

CONSTANTS
  Shown,          \* how many actions a call to next returns
  MaxSetbacks     \* bound: failed checks, blocks and notes in a run

VARIABLES behind, setbacks,
  queue           \* the actions the last call to next returned

loopVars == <<vars, behind, setbacks, queue>>

LoopInit ==
  /\ Init /\ behind = {} /\ setbacks = 0 /\ queue = {}

CallNext ==
  /\ queue' = ToSet(NextActions(Shown).actions)
  /\ UNCHANGED <<vars, behind, setbacks>>

Offered(a, t) == Item(t, a) \in queue

\* Failures and interruptions, as often as the bound allows.
Setback == setbacks < MaxSetbacks /\ setbacks' = setbacks + 1
Calm == UNCHANGED setbacks

\* Setting the scope up: the constitution is ratified and one plan applied.
SetUp ==
  /\ Ratify \/ (Ratified /\ scope = None /\ \E p \in Plans : ApplyPlan(p))
  /\ Calm /\ UNCHANGED <<behind, queue>>

\* wddctl start: leases.start_task refuses a scope without a base ref.
Dispatch(t) ==
  /\ Offered("start_task", t) /\ scope.baseRef # None
  /\ Start(t) /\ Calm /\ UNCHANGED <<behind, queue>>

\* A worker reports back and the controller submits its branch (pr_recorded
\* the first time, head_updated with the fix worker's new commits after).
Submit(t, h) ==
  /\ \/ Offered("await_worker", t) /\ RecordPR(t, h)
     \/ Offered("assign_fix_writer", t) /\ UpdateHead(t, h)
  /\ Calm /\ UNCHANGED <<behind, queue>>

ReviewResult(t, b) ==
  /\ Offered("run_review", t)
  /\ \/ RecordReview(t, b, "passed") /\ Calm
     \/ RecordReview(t, b, "blocking") /\ Setback
  /\ UNCHANGED <<behind, queue>>

\* review.evidence_shas pins verification to the base its review used.
VerifyResult(t, b) ==
  /\ Offered("run_verification", t) \/ Offered("mark_merge_ready", t)
  /\ \/ RecordVerification(t, b, "passed") /\ Calm
     \/ RecordVerification(t, b, "failed") /\ Setback
  /\ UNCHANGED <<behind, queue>>

CheckFreshness(t) ==
  /\ Offered("check_branch_freshness", t)
  /\ RecordFreshness(t, IF t \in behind THEN "stale" ELSE "fresh")
  /\ Calm /\ UNCHANGED <<behind, queue>>

StillFresh(t) == t \notin behind

\* merge_task classifies again before it merges, and refuses a stale head.
MergeTask(t) ==
  /\ Offered("merge_task", t) /\ StillFresh(t)
  /\ Merge(t)
  /\ \E touched \in SUBSET WithStatus(status, {"todo"} \cup Active) :
       behind' = (behind \cup touched) \ {t}
  /\ UNCHANGED queue
  /\ Calm

RecordedStale(t) ==         \* Mutant: a refused merge leads nowhere
  freshness[t] # None /\ freshness[t].class = "stale"
KnownStale(t) ==
  \/ freshness[t] # None /\ freshness[t].class = "stale"
  \/ Offered("merge_task", t)

\* A freshness record or a refused merge said stale: wddctl refresh.
Refresh(t, h) ==
  /\ t \in behind /\ status[t] = "merge_ready" /\ KnownStale(t)
  /\ UpdateHead(t, h)
  /\ behind' = behind \ {t} /\ Calm /\ UNCHANGED queue

Reconcile ==
  /\ Offered("run_reconciliation", None)
  /\ CompleteReconcile /\ Calm /\ UNCHANGED <<behind, queue>>

\* A worker returns BLOCKED; the user resolves it; notes come up.
HitBlock(t) == Block(t) /\ Setback /\ UNCHANGED <<behind, queue>>
Resolve(t) == Unblock(t) /\ Calm /\ UNCHANGED <<behind, queue>>
Discover == AddNote /\ Setback /\ UNCHANGED <<behind, queue>>

Work(t) ==
  \/ Dispatch(t)
  \/ \E h \in Heads : Submit(t, h) \/ Refresh(t, h)
  \/ \E b \in Bases : ReviewResult(t, b) \/ VerifyResult(t, b)
  \/ CheckFreshness(t) \/ MergeTask(t)

LoopNext ==
  \/ SetUp \/ CallNext \/ Reconcile \/ Discover
  \/ \E t \in Tasks : Work(t) \/ HitBlock(t) \/ Resolve(t)

\* The loop "only runs if you keep running it" (wdd-run): the controller calls
\* next again and acts on what it offers, workers report back, and the user
\* resolves a blocked task as long as admission lets it return.
LoopFairness ==
  /\ WF_loopVars(SetUp) /\ WF_loopVars(CallNext) /\ WF_loopVars(Reconcile)
  /\ \A t \in Tasks : WF_loopVars(Work(t)) /\ WF_loopVars(Resolve(t))

LoopSpec == LoopInit /\ [][LoopNext]_loopVars /\ LoopFairness

-----------------------------------------------------------------------------
(* Properties.                                                             *)

Drained == scope # None /\ \A t \in Present : status[t] = "done"

\* Following next delivers the scope: whatever fails, blocks or goes stale a
\* bounded number of times, every planned task is eventually merged.  next
\* neither starves a task behind its limit nor waits for what it never asks.
ScopeDelivered == <>[]Drained

\* Discoveries are not left behind: a due reconciliation is completed.
ReconcileHappens == ReconcileDue ~> ~ReconcileDue
=============================================================================
