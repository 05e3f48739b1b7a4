----------------------------- MODULE TaskEngine -----------------------------
(***************************************************************************)
(* The controller's task state machine: src/wave_delivery/engine.py        *)
(* (transition, admission_blocker, task_gate) together with the one        *)
(* mutator that rewrites the task table, plan.py's _apply_plan_to_state.   *)
(* Every action is one event applied under the state lock, so it is atomic *)
(* here; StateLock models the lock itself.                                 *)
(*                                                                         *)
(* A task is a struct in the code; here each of its fields is a function   *)
(* on Tasks.  Abstracted: timestamps, the event log, titles and brief      *)
(* paths, models, the text of notes, findings and block reasons, and the   *)
(* SHA-256 digests (evidence keeps the base and head commits it names).    *)
(***************************************************************************)
EXTENDS Naturals, FiniteSets

CONSTANTS
  Tasks,      \* every task id a plan may name
  Domains,    \* conflict domains
  Overlap,    \* domains_overlap as a relation on Domains
  Heads,      \* commits a task branch may point to
  Bases,      \* commits of the base branch
  Refs,       \* names a plan may give the base branch
  Plans,      \* plan files, with risk rules and config defaults overlaid
  None,       \* JSON null
  MaxNotes    \* bound: pending reconciliation notes

Limits == (Nat \ {0}) \cup {None}
Policies == {"none", "risk_based", "always"}

PlanType ==
  [tasks : SUBSET Tasks, deps : [Tasks -> SUBSET Tasks],
   domains : [Tasks -> SUBSET Domains], risk : [Tasks -> {"normal", "high"}],
   policy : Policies, max : Limits, baseRef : Refs \cup {None},
   every : Limits]

Scopes == [policy : Policies, max : Limits, baseRef : Refs \cup {None}]
Reviews == [base : Bases, head : Heads, outcome : {"passed", "blocking"}]
\* "failed" also stands for "unavailable", which the engine treats alike.
Verifications == [base : Bases, head : Heads, status : {"passed", "failed"}]
\* "fresh" is current or nonmaterially_stale, "stale" the other two classes.
Freshnesses == [head : Heads, class : {"fresh", "stale"}]
Merges == [head : Heads, baseRef : Refs]

ASSUME TasksAssumption == IsFiniteSet(Tasks)
ASSUME OverlapAssumption ==
  /\ Overlap \subseteq Domains \X Domains
  /\ \A d \in Domains : <<d, d>> \in Overlap
  /\ \A d, e \in Domains : <<d, e>> \in Overlap => <<e, d>> \in Overlap
ASSUME PlansAssumption == Plans \subseteq PlanType
ASSUME NoneAssumption ==
  /\ None \notin Refs \cup Heads \cup Bases
  /\ None \notin Nat
  /\ None \notin Scopes /\ None \notin Merges
  /\ MaxNotes \in Nat

VARIABLES
  constitution,   \* "draft" or "ratified"
  scope,          \* None until the first plan is applied
  status, deps, domains, risk,
  pr, head, review, verification, freshness, merge,
  every, merges, notes    \* the reconcile section of the state

planFields == <<deps, domains, risk>>
evidence == <<pr, head, review, verification, freshness, merge>>
reconcile == <<every, merges, notes>>
vars == <<constitution, scope, status, planFields, evidence, reconcile>>

Active == {"in_progress", "review", "merge_ready"}
Terminal == {"done", "blocked", "cancelled"}
Statuses == {"absent", "todo"} \cup Active \cup Terminal

-----------------------------------------------------------------------------
(* Guards of engine.py.  A definition marked "Mutant" is a slip the code   *)
(* could have made; nothing uses it here, and the property it breaks is    *)
(* listed beside it in PROJECT.json.                                       *)

Present == {t \in Tasks : status[t] # "absent"}
WithStatus(st, S) == {t \in Tasks : st[t] \in S}

Collide(t, u) == \E d \in domains[t], e \in domains[u] : <<d, e>> \in Overlap

\* admission_blocker returns None.  st is the status table it consults: the
\* stored one, or the projection next_actions builds.
Rivals(st, t) == WithStatus(st, Active) \ {t}
DepsClosed(st, t) ==    \* Mutant: a cancelled dependency counts
  \A d \in deps[t] : st[d] \in {"done", "cancelled"}
DepsDone(st, t) == \A d \in deps[t] : st[d] = "done"
HasSpareRoom(st, t) ==  \* Mutant: the task counts twice
  scope.max # None => Cardinality(Rivals(st, t)) + 1 < scope.max
HasRoom(st, t) == scope.max # None => Cardinality(Rivals(st, t)) < scope.max

Admissible(st, t) ==
  /\ DepsDone(st, t)
  /\ \A u \in Rivals(st, t) : ~Collide(t, u)
  /\ HasRoom(st, t)

ReviewRequired(t) ==
  \/ scope.policy = "always"
  \/ scope.policy = "risk_based" /\ risk[t] = "high"

\* A blocking outcome is exactly the presence of a P1 or P2 finding.
Blocking(r) == r # None /\ r.outcome = "blocking"
ReviewPassed(t, r) == r # None /\ r.head = head[t] /\ r.outcome = "passed"
Verified(t, v) == v # None /\ v.head = head[t] /\ v.status = "passed"
Fresh(t) ==
  /\ freshness[t] # None
  /\ freshness[t].head = head[t]
  /\ freshness[t].class = "fresh"

\* task_gate for a task whose status, review and verification are s, r and v.
TaskGate(t, s, r, v) ==
  IF s = "todo" THEN "not_started"
  ELSE IF s = "review" THEN "reviewing"
  ELSE IF s \in Terminal THEN s
  ELSE IF Blocking(r) THEN "needs_fixes"
  ELSE IF s = "in_progress" /\ ~pr[t] THEN "no_pr"
  ELSE IF ReviewRequired(t) /\ ~ReviewPassed(t, r) THEN "needs_review"
  ELSE IF ~Verified(t, v) THEN "needs_verification"
  ELSE IF s = "in_progress" THEN "ready_to_merge"
  ELSE IF Fresh(t) THEN "merge_ready"
  ELSE "needs_freshness"

GateOfMergeReady(t) ==  \* Mutant: a merge_ready task is only asked if fresh
  IF status[t] = "merge_ready"
  THEN IF Fresh(t) THEN "merge_ready" ELSE "needs_freshness"
  ELSE TaskGate(t, status[t], review[t], verification[t])
GateAtAnyBase(t) ==     \* Mutant: branch freshness is not asked
  IF Verified(t, verification[t]) /\ status[t] = "merge_ready"
  THEN "merge_ready" ELSE TaskGate(t, status[t], review[t], verification[t])
Gate(t) == TaskGate(t, status[t], review[t], verification[t])

-----------------------------------------------------------------------------
Blank == [t \in Tasks |-> None]

\* schema.new_setup_state: wddctl init leaves no scope and no task.
Init ==
  /\ constitution = "draft" /\ scope = None
  /\ status = [t \in Tasks |-> "absent"]
  /\ deps = [t \in Tasks |-> {}] /\ domains = [t \in Tasks |-> {}]
  /\ risk = [t \in Tasks |-> "normal"]
  /\ pr = [t \in Tasks |-> FALSE]
  /\ head = Blank /\ review = Blank /\ verification = Blank
  /\ freshness = Blank /\ merge = Blank
  /\ every = 3 /\ merges = 0 /\ notes = 0

Ratified == constitution = "ratified"

Ratify ==
  /\ constitution = "draft"
  /\ constitution' = "ratified"
  /\ UNCHANGED <<scope, status, planFields, evidence, reconcile>>

-----------------------------------------------------------------------------
(* _apply_plan_to_state: refuse, or replace the task table and the scope.  *)

\* validate_plan and detect_dependency_cycle.
ValidPlan(p) ==
  /\ p.tasks # {}
  /\ \A t \in p.tasks : p.deps[t] \subseteq p.tasks \ {t}
  /\ ~ \E S \in SUBSET p.tasks \ {{}} : \A t \in S : p.deps[t] \cap S # {}

SameBrief(p, t) == deps[t] = p.deps[t] /\ domains[t] = p.domains[t]

\* What removing and adding tasks leaves in the status table.
PlannedStatus(p) ==
  [t \in Tasks |-> IF t \notin p.tasks THEN "absent"
                   ELSE IF status[t] = "absent" THEN "todo" ELSE status[t]]

PlanApplicable(p) ==
  /\ \A t \in Present \ p.tasks : status[t] = "todo"
  /\ \A t \in Present \cap p.tasks : status[t] # "todo" => SameBrief(p, t)
  /\ (/\ scope # None
      /\ scope.baseRef # None
      /\ p.baseRef # scope.baseRef) =>
        \A t \in p.tasks : PlannedStatus(p)[t] \in {"todo", "cancelled"}

\* Fields of a task the plan removes are forgotten; the others keep theirs.
Kept(p, f, blank) == [t \in Tasks |-> IF t \in p.tasks THEN f[t] ELSE blank]

ApplyPlan(p) ==
  /\ ValidPlan(p) /\ PlanApplicable(p)
  /\ scope' = [policy |-> p.policy, max |-> p.max,
               baseRef |-> IF p.baseRef = None /\ scope # None
                           THEN scope.baseRef ELSE p.baseRef]
  /\ status' = PlannedStatus(p)
  /\ deps' = [t \in Tasks |-> IF t \in p.tasks THEN p.deps[t] ELSE {}]
  /\ domains' = [t \in Tasks |-> IF t \in p.tasks THEN p.domains[t] ELSE {}]
  /\ risk' = [t \in Tasks |-> IF t \in p.tasks THEN p.risk[t] ELSE "normal"]
  /\ pr' = Kept(p, pr, FALSE)
  /\ head' = Kept(p, head, None)
  /\ review' = Kept(p, review, None)
  /\ verification' = Kept(p, verification, None)
  /\ freshness' = Kept(p, freshness, None)
  /\ merge' = Kept(p, merge, None)
  /\ every' = p.every
  /\ UNCHANGED <<constitution, merges, notes>>

-----------------------------------------------------------------------------
(* The task events of engine.transition.                                   *)

SetStatus(t, s) == status' = [status EXCEPT ![t] = s]

Start(t) ==
  /\ Ratified /\ status[t] = "todo" /\ Admissible(status, t)
  /\ SetStatus(t, "in_progress")
  /\ UNCHANGED <<constitution, scope, planFields, evidence, reconcile>>

KeepFreshness(t) ==     \* Mutant: the freshness record survives a push
  /\ review' = [review EXCEPT ![t] = None]
  /\ verification' = [verification EXCEPT ![t] = None]
  /\ merge' = [merge EXCEPT ![t] = None]
  /\ UNCHANGED freshness
\* A new head makes every piece of evidence about the old one void.
DropEvidence(t) ==
  /\ review' = [review EXCEPT ![t] = None]
  /\ verification' = [verification EXCEPT ![t] = None]
  /\ freshness' = [freshness EXCEPT ![t] = None]
  /\ merge' = [merge EXCEPT ![t] = None]

\* Where a new head sends its task.
Pushed(t, submitted) ==
  IF submitted /\ ReviewRequired(t) THEN "review" ELSE "in_progress"

RecordPR(t, h) ==
  /\ Ratified /\ status[t] = "in_progress"
  /\ pr' = [pr EXCEPT ![t] = TRUE]
  /\ head' = [head EXCEPT ![t] = h]
  /\ DropEvidence(t)
  /\ SetStatus(t, Pushed(t, TRUE))
  /\ UNCHANGED <<constitution, scope, planFields, reconcile>>

UpdateHead(t, h) ==
  /\ Ratified /\ status[t] \in Active
  /\ head' = [head EXCEPT ![t] = h]
  /\ DropEvidence(t)
  /\ SetStatus(t, Pushed(t, pr[t]))
  /\ UNCHANGED <<constitution, scope, planFields, pr, reconcile>>

\* _require_head refuses evidence with no head, and its head must be the task's.
HasHead(t) == head[t] # None

RecordReview(t, b, o) ==
  LET r == [base |-> b, head |-> head[t], outcome |-> o] IN
    /\ Ratified /\ status[t] \in Active /\ pr[t]
    /\ HasHead(t)
    /\ review' = [review EXCEPT ![t] = r]
    /\ SetStatus(t, IF TaskGate(t, "in_progress", r, verification[t])
                         = "ready_to_merge"
                    THEN "merge_ready" ELSE "in_progress")
    /\ UNCHANGED <<constitution, scope, planFields, pr, head, verification,
                   freshness, merge, reconcile>>

RecordVerification(t, b, s) ==
  LET v == [base |-> b, head |-> head[t], status |-> s] IN
    /\ Ratified /\ status[t] = "in_progress"
    /\ HasHead(t)
    /\ review[t] # None => review[t].base = b
    /\ verification' = [verification EXCEPT ![t] = v]
    /\ SetStatus(t, IF /\ s = "passed"
                       /\ TaskGate(t, "in_progress", review[t], v)
                            = "ready_to_merge"
                    THEN "merge_ready" ELSE "in_progress")
    /\ UNCHANGED <<constitution, scope, planFields, pr, head, review,
                   freshness, merge, reconcile>>

RecordFreshness(t, c) ==
  /\ Ratified /\ status[t] = "merge_ready"
  /\ HasHead(t)
  /\ scope.baseRef # None
  /\ freshness' = [freshness EXCEPT ![t] = [head |-> head[t], class |-> c]]
  /\ UNCHANGED <<constitution, scope, status, planFields, pr, head, review,
                 verification, merge, reconcile>>

Merge(t) ==
  /\ Ratified /\ status[t] = "merge_ready" /\ Gate(t) = "merge_ready"
  /\ scope.baseRef # None
  /\ merge' = [merge EXCEPT ![t] = [head |-> head[t],
                                    baseRef |-> scope.baseRef]]
  /\ SetStatus(t, "done")
  /\ merges' = merges + 1
  /\ UNCHANGED <<constitution, scope, planFields, pr, head, review,
                 verification, freshness, every, notes>>

Open(t) == status[t] \in {"todo"} \cup Active

Block(t) ==
  /\ Ratified /\ Open(t)
  /\ SetStatus(t, "blocked")
  /\ UNCHANGED <<constitution, scope, planFields, evidence, reconcile>>

AlwaysReadmitted(t) == TRUE     \* Mutant: a submitted task resumes at once
Readmitted(t) == pr[t] => Admissible(status, t)

Unblock(t) ==
  /\ Ratified /\ status[t] = "blocked"
  /\ Readmitted(t)
  /\ SetStatus(t, IF pr[t] THEN "in_progress" ELSE "todo")
  /\ UNCHANGED <<constitution, scope, planFields, evidence, reconcile>>

Cancel(t) ==
  /\ Ratified /\ Open(t)
  /\ SetStatus(t, "cancelled")
  /\ UNCHANGED <<constitution, scope, planFields, evidence, reconcile>>

AddNote ==
  /\ Ratified /\ notes < MaxNotes
  /\ notes' = notes + 1
  /\ UNCHANGED <<constitution, scope, status, planFields, evidence,
                 every, merges>>

CompleteMerges ==       \* Mutant: the notes stay pending
  /\ Ratified
  /\ merges' = 0
  /\ UNCHANGED <<constitution, scope, status, planFields, evidence,
                 every, notes>>
CompleteReconcile ==
  /\ Ratified
  /\ merges' = 0 /\ notes' = 0
  /\ UNCHANGED <<constitution, scope, status, planFields, evidence, every>>

TaskStep(t) ==
  \/ Start(t) \/ Merge(t) \/ Block(t) \/ Unblock(t) \/ Cancel(t)
  \/ \E h \in Heads : RecordPR(t, h) \/ UpdateHead(t, h)
  \/ \E b \in Bases, o \in {"passed", "blocking"} : RecordReview(t, b, o)
  \/ \E b \in Bases, s \in {"passed", "failed"} : RecordVerification(t, b, s)
  \/ \E c \in {"fresh", "stale"} : RecordFreshness(t, c)

Next ==
  \/ Ratify \/ AddNote \/ CompleteReconcile
  \/ \E p \in Plans : ApplyPlan(p)
  \/ \E t \in Tasks : TaskStep(t)

Spec == Init /\ [][Next]_vars

-----------------------------------------------------------------------------
(* Properties.                                                             *)

\* Every field holds a value of the stored state's schema.
TypeOK ==
  /\ constitution \in {"draft", "ratified"}
  /\ scope \in Scopes \cup {None}
  /\ status \in [Tasks -> Statuses]
  /\ deps \in [Tasks -> SUBSET Tasks]
  /\ domains \in [Tasks -> SUBSET Domains]
  /\ risk \in [Tasks -> {"normal", "high"}]
  /\ pr \in [Tasks -> BOOLEAN]
  /\ head \in [Tasks -> Heads \cup {None}]
  /\ review \in [Tasks -> Reviews \cup {None}]
  /\ verification \in [Tasks -> Verifications \cup {None}]
  /\ freshness \in [Tasks -> Freshnesses \cup {None}]
  /\ merge \in [Tasks -> Merges \cup {None}]
  /\ every \in Limits /\ merges \in Nat /\ notes \in 0 .. MaxNotes

\* Two tasks being worked on never hold overlapping conflict domains, however
\* starts, blocks, unblocks and plan edits interleave (domains.py:8-11: the
\* miss costs "a silently lost diff").
DomainExclusion ==
  \A t, u \in WithStatus(status, Active) : t # u => ~Collide(t, u)

\* The dependencies of a task being worked on, or finished, are finished.  It
\* rests on "done" being final and on plans not editing started tasks.
DependenciesDone ==
  \A t \in WithStatus(status, Active \cup {"done"}) :
    \A d \in deps[t] : status[d] = "done"

\* admission_blocker indexes state["tasks"] by every dependency (engine.py:118):
\* no removal of a task may leave another one pointing at it.
PlanClosed ==
  /\ \A t \in Present : deps[t] \subseteq Present \ {t}
  /\ Present # {} => scope # None

\* Evidence stored on a task always names the task's current head, although
\* six events write heads or evidence separately.
EvidenceIsCurrent ==
  \A t \in Tasks :
    /\ review[t] # None => review[t].head = head[t]
    /\ verification[t] # None => verification[t].head = head[t]
    /\ freshness[t] # None => freshness[t].head = head[t]
    /\ pr[t] => head[t] # None

\* A task awaiting or past its merge was submitted, passed verification at its
\* head and carries no blocking finding, whichever of review and verification
\* came last and whatever the policy was then.
MergeReadyIsVerified ==
  \A t \in WithStatus(status, {"merge_ready", "done"}) :
    pr[t] /\ Verified(t, verification[t]) /\ ~Blocking(review[t])

\* What was merged is what was checked: the merge record of a finished task
\* names the head its evidence names, and exists for finished tasks alone.
MergedHeadWasChecked ==
  \A t \in Tasks :
    /\ merge[t] # None <=> status[t] = "done"
    /\ status[t] = "done" => Fresh(t) /\ merge[t].head = head[t]

\* A task enters work only with room under the limit in force (a later plan
\* may lower the limit below the number already working).
LimitOnEntry ==
  \A t \in Tasks :
    (status[t] \notin Active /\ status'[t] \in Active) =>
      \/ scope.max = None
      \/ Cardinality(WithStatus(status', Active)) <= scope.max
AdmissionLimit == [][LimitOnEntry]_vars

\* A task reaches done only reviewed, if at that moment the policy and its
\* risk require a review: tightening either re-gates merge_ready tasks.
ReviewedOnMerge ==
  \A t \in Tasks :
    (status[t] # "done" /\ status'[t] = "done" /\ ReviewRequired(t)) =>
      ReviewPassed(t, review[t])
MergeNeedsReview == [][ReviewedOnMerge]_vars

\* Finished work is final: done and cancelled never change, and no plan edit
\* touches the dependencies or domains of a task that has left todo.
FrozenFields ==
  \A t \in Tasks :
    /\ status[t] \in {"done", "cancelled"} => status'[t] = status[t]
    /\ status[t] \notin {"absent", "todo"} =>
         deps'[t] = deps[t] /\ domains'[t] = domains[t]
StartedIsFrozen == [][FrozenFields]_vars

-----------------------------------------------------------------------------
(* The engine is an admission controller: its active tasks are the jobs    *)
(* being worked on and its done tasks the finished ones.                   *)

Abstract == INSTANCE Admission WITH
  Jobs <- Tasks, Claims <- Domains, Clash <- Overlap, Unlimited <- None,
  working <- WithStatus(status, Active), finished <- WithStatus(status, {"done"}),
  claims <- domains, waits <- deps,
  limit <- IF scope = None THEN None ELSE scope.max

\* Every event of the engine is a step of the abstract controller or none.
ImplementsAdmission == Abstract!JobsSpec
=============================================================================
