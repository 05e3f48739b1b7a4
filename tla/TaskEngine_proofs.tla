--------------------------- MODULE TaskEngine_proofs ---------------------------
(***************************************************************************)
(* Theorems about TaskEngine, for every set of tasks, domains, commits and *)
(* plans: its invariants and the abstract admission controller, what next  *)
(* answers in every state, and the files inside the domains of admitted    *)
(* tasks.  Each invariant is proved inductive with the type invariant and, *)
(* where it needs them, the invariants before it.                          *)
(***************************************************************************)
EXTENDS Writers, FiniteSetTheorems, TLAPS

\* The stored state keeps its schema, one event at a time.  PlanClosed is
\* needed: a task can only be merged once a scope names the base branch.
LEMMA TypeStep == TypeOK /\ PlanClosed /\ [Next]_vars => TypeOK'
<1> SUFFICES ASSUME TypeOK, PlanClosed, [Next]_vars PROVE TypeOK'
  OBVIOUS
<1> USE DEF TypeOK, Statuses, Active, Terminal, SetStatus, DropEvidence
<1>1. CASE Ratify
  BY <1>1 DEF Ratify, planFields, evidence, reconcile
<1>2. CASE AddNote
  BY <1>2, NoneAssumption DEF AddNote, planFields, evidence
<1>3. CASE CompleteReconcile
  BY <1>3, NoneAssumption DEF CompleteReconcile, planFields, evidence
<1>4. ASSUME NEW p \in Plans, ApplyPlan(p) PROVE TypeOK'
  <2>1. p \in PlanType
    BY PlansAssumption
  <2> USE DEF PlanType
  <2>2. scope' \in Scopes
    BY <1>4, <2>1 DEF ApplyPlan, Scopes
  <2>3. status' \in [Tasks -> Statuses]
    BY <1>4, <2>1 DEF ApplyPlan, PlannedStatus
  <2>4. /\ deps' \in [Tasks -> SUBSET Tasks]
        /\ domains' \in [Tasks -> SUBSET Domains]
        /\ risk' \in [Tasks -> {"normal", "high"}]
    BY <1>4, <2>1 DEF ApplyPlan
  <2>5. /\ pr' \in [Tasks -> BOOLEAN]
        /\ head' \in [Tasks -> Heads \cup {None}]
        /\ review' \in [Tasks -> Reviews \cup {None}]
        /\ verification' \in [Tasks -> Verifications \cup {None}]
        /\ freshness' \in [Tasks -> Freshnesses \cup {None}]
        /\ merge' \in [Tasks -> Merges \cup {None}]
    BY <1>4 DEF ApplyPlan, Kept
  <2>6. /\ every' \in Limits /\ merges' \in Nat /\ notes' \in 0 .. MaxNotes
        /\ constitution' \in {"draft", "ratified"}
    BY <1>4, <2>1 DEF ApplyPlan
  <2> QED BY <2>2, <2>3, <2>4, <2>5, <2>6
<1>5. ASSUME NEW t \in Tasks, TaskStep(t) PROVE TypeOK'
  <2>1. CASE Start(t)
    BY <2>1 DEF Start, planFields, evidence, reconcile
  <2>2. CASE Merge(t)
    <3>1. PICK s \in Scopes : s = scope
      BY <2>2 DEF Merge, PlanClosed, Present
    <3>2. head[t] \in Heads
      BY <2>2
         DEF Merge, Gate, TaskGate, Verified, Verifications
    <3> QED BY <2>2, <3>1, <3>2
            DEF Merge, planFields, Scopes, Merges
  <2>3. CASE Block(t)
    BY <2>3 DEF Block, planFields, evidence, reconcile
  <2>4. CASE Unblock(t)
    BY <2>4 DEF Unblock, planFields, evidence, reconcile
  <2>5. CASE Cancel(t)
    BY <2>5 DEF Cancel, planFields, evidence, reconcile
  <2>6. ASSUME NEW h \in Heads, RecordPR(t, h) PROVE TypeOK'
    BY <2>6 DEF RecordPR, Pushed, planFields, reconcile
  <2>7. ASSUME NEW h \in Heads, UpdateHead(t, h) PROVE TypeOK'
    BY <2>7 DEF UpdateHead, Pushed, planFields, reconcile
  <2>8. ASSUME NEW b \in Bases, NEW o \in {"passed", "blocking"},
               RecordReview(t, b, o)
        PROVE  TypeOK'
    BY <2>8 DEF RecordReview, HasHead, Reviews, planFields, reconcile
  <2>9. ASSUME NEW b \in Bases, NEW s \in {"passed", "failed"},
               RecordVerification(t, b, s)
        PROVE  TypeOK'
    BY <2>9 DEF RecordVerification, HasHead, Verifications, planFields, reconcile
  <2>10. ASSUME NEW c \in {"fresh", "stale"}, RecordFreshness(t, c)
         PROVE  TypeOK'
    BY <2>10 DEF RecordFreshness, HasHead, Freshnesses, planFields, reconcile
  <2> QED BY <1>5, <2>1, <2>2, <2>3, <2>4, <2>5, <2>6, <2>7, <2>8, <2>9,
            <2>10 DEF TaskStep
<1>6. CASE UNCHANGED vars
  BY <1>6 DEF vars, planFields, evidence, reconcile
<1> QED BY <1>1, <1>2, <1>3, <1>4, <1>5, <1>6 DEF Next

\* How an event about task t moves it between statuses.  Only Start and
\* Unblock let a task enter work, and both consult admission.
LEMMA StatusStep ==
  ASSUME TypeOK, NEW t \in Tasks, TaskStep(t)
  PROVE  /\ UNCHANGED <<constitution, scope, deps, domains, risk>>
         /\ \E s \in Statuses :
              /\ status' = [status EXCEPT ![t] = s]
              /\ \/ s \in Active /\ status[t] \in Active
                 \/ /\ s = "in_progress" /\ status[t] \in {"todo", "blocked"}
                    /\ Admissible(status, t)
                 \/ s = "done" /\ status[t] = "merge_ready"
                 \/ /\ s \in {"todo", "blocked", "cancelled"}
                    /\ status[t] \in {"todo", "blocked"} \cup Active
<1> USE DEF SetStatus, Statuses, Active, Terminal, planFields
<1>1. CASE Start(t)
  BY <1>1 DEF Start
<1>2. CASE Merge(t)
  BY <1>2 DEF Merge
<1>3. CASE Block(t) \/ Cancel(t)
  BY <1>3 DEF Block, Cancel, Open
<1>4. CASE Unblock(t)
  BY <1>4 DEF Unblock, Readmitted
<1>5. ASSUME NEW h \in Heads, RecordPR(t, h) \/ UpdateHead(t, h)
      PROVE  /\ UNCHANGED <<constitution, scope, deps, domains, risk>>
             /\ \E s \in Active : SetStatus(t, s) /\ status[t] \in Active
  BY <1>5 DEF RecordPR, UpdateHead, Pushed
<1>6. ASSUME NEW b \in Bases, NEW o \in {"passed", "blocking"},
             RecordReview(t, b, o)
      PROVE  /\ UNCHANGED <<constitution, scope, deps, domains, risk>>
             /\ \E s \in Active : SetStatus(t, s) /\ status[t] \in Active
  BY <1>6 DEF RecordReview
<1>7. ASSUME NEW b \in Bases, NEW v \in {"passed", "failed"},
             RecordVerification(t, b, v)
      PROVE  /\ UNCHANGED <<constitution, scope, deps, domains, risk>>
             /\ \E s \in Active : SetStatus(t, s) /\ status[t] \in Active
  BY <1>7 DEF RecordVerification
<1>8. ASSUME NEW c \in {"fresh", "stale"}, RecordFreshness(t, c)
      PROVE  /\ UNCHANGED <<constitution, scope, deps, domains, risk>>
             /\ \E s \in Active : SetStatus(t, s) /\ status[t] \in Active
  <2>1. status = [status EXCEPT ![t] = "merge_ready"]
    BY <1>8 DEF RecordFreshness, TypeOK
  <2> QED BY <1>8, <2>1 DEF RecordFreshness
<1> QED BY <1>1, <1>2, <1>3, <1>4, <1>5, <1>6, <1>7, <1>8 DEF TaskStep

\* What a plan edit does to the statuses: it removes todo tasks, adds todo
\* tasks, and leaves every other task, its dependencies and domains alone.
LEMMA PlanStep ==
  ASSUME TypeOK, NEW p \in Plans, ApplyPlan(p)
  PROVE  \A t \in Tasks :
           /\ status[t] \notin {"absent", "todo"} =>
                status'[t] = status[t] /\ deps'[t] = deps[t]
                /\ domains'[t] = domains[t]
           /\ status[t] \in {"absent", "todo"} =>
                status'[t] \in {"absent", "todo"}
<1>1. p \in PlanType
  BY PlansAssumption
<1> QED BY <1>1 DEF ApplyPlan, PlanApplicable, PlannedStatus, SameBrief,
           Present, PlanType, TypeOK

\* Events leave the task table's shape alone; a plan edit replaces it by the
\* plan's tasks, which validate_plan closed under dependencies.
LEMMA PlanClosedStep == TypeOK /\ PlanClosed /\ [Next]_vars => PlanClosed'
<1> SUFFICES ASSUME TypeOK, PlanClosed, [Next]_vars PROVE PlanClosed'
  OBVIOUS
<1> USE DEF TypeOK, PlanClosed, Present
<1>1. ASSUME NEW p \in Plans, ApplyPlan(p) PROVE PlanClosed'
  <2>1. p \in PlanType /\ \A t \in p.tasks : p.deps[t] \subseteq p.tasks \ {t}
    BY <1>1, PlansAssumption DEF ApplyPlan, ValidPlan
  <2>2. Present' = p.tasks
    BY <1>1, <2>1 DEF ApplyPlan, PlannedStatus, PlanType
  <2>3. scope' # None
    <3>1. scope' \in Scopes
      BY <1>1, <2>1 DEF ApplyPlan, Scopes, PlanType
    <3> QED BY <3>1, NoneAssumption
  <2>4. \A t \in p.tasks : deps'[t] = p.deps[t]
    BY <1>1, <2>1 DEF ApplyPlan, PlanType
  <2> QED BY <2>1, <2>2, <2>3, <2>4
<1>2. ASSUME NEW t \in Tasks, TaskStep(t) PROVE PlanClosed'
  <2>1. Present' = Present
    BY <1>2, StatusStep DEF Statuses, Active, Terminal
  <2> QED BY <1>2, <2>1, StatusStep
<1>3. CASE UNCHANGED <<status, scope, deps>>
  BY <1>3
<1> QED BY <1>1, <1>2, <1>3
        DEF Next, Ratify, AddNote, CompleteReconcile, vars, planFields

\* Every field of the stored state keeps its schema: no event and no plan
\* edit writes a value validate_state would refuse.
THEOREM TypeCorrect == Spec => [](TypeOK /\ PlanClosed)
<1>1. Init => TypeOK /\ PlanClosed
  BY NoneAssumption
     DEF Init, TypeOK, PlanClosed, Present, Blank, Statuses, Limits
<1> QED BY <1>1, TypeStep, PlanClosedStep, PTL DEF Spec

-----------------------------------------------------------------------------
(* Admission: exclusion, dependencies, the concurrency limit.              *)

\* Two active tasks never hold overlapping domains: a task enters work only
\* through Admissible, and plans cannot edit the domains of an active task.
THEOREM DomainsExclusive == Spec => []DomainExclusion
<1>1. Init => DomainExclusion
  BY DEF Init, DomainExclusion, WithStatus, Active
<1>2. TypeOK /\ DomainExclusion /\ [Next]_vars => DomainExclusion'
  <2> SUFFICES ASSUME TypeOK, DomainExclusion, [Next]_vars,
                      NEW t \in Tasks, NEW u \in Tasks, t # u,
                      status'[t] \in Active, status'[u] \in Active
               PROVE  ~Collide(t, u)'
    BY DEF DomainExclusion, WithStatus
  <2>1. ASSUME status[t] \in Active, status[u] \in Active,
               domains'[t] = domains[t], domains'[u] = domains[u]
        PROVE  ~Collide(t, u)'
    BY <2>1 DEF DomainExclusion, WithStatus, Collide
  <2>2. ASSUME NEW p \in Plans, ApplyPlan(p) PROVE ~Collide(t, u)'
    BY <2>1, <2>2, PlanStep DEF Active, TypeOK, Statuses, Terminal
  <2>3. ASSUME NEW w \in Tasks, TaskStep(w) PROVE ~Collide(t, u)'
    <3>1. UNCHANGED domains
      BY <2>3, StatusStep
    <3>2. PICK s \in Statuses :
            /\ status' = [status EXCEPT ![w] = s]
            /\ s \in Active =>
                 status[w] \in Active \/ Admissible(status, w)
      BY <2>3, StatusStep DEF Active
    <3>3. CASE status[w] \in Active \/ w \notin {t, u}
      BY <2>1, <3>1, <3>2, <3>3 DEF TypeOK
    <3>4. CASE status[w] \notin Active /\ w \in {t, u}
      <4> DEFINE v == IF w = t THEN u ELSE t
      <4>1. Admissible(status, w)
        BY <3>2, <3>4 DEF TypeOK
      <4>2. v \in WithStatus(status, Active) \ {w}
        BY <3>2, <3>4 DEF WithStatus, TypeOK
      <4>3. ~Collide(w, v)
        BY <4>1, <4>2 DEF Admissible, Rivals
      <4>4. domains[t] \subseteq Domains /\ domains[u] \subseteq Domains
        BY DEF TypeOK
      <4>5. ~Collide(t, u)
        BY <3>4, <4>3, <4>4, OverlapAssumption DEF Collide
      <4> QED BY <3>1, <4>5 DEF Collide
    <3> QED BY <3>3, <3>4
  <2>4. CASE UNCHANGED <<status, domains>>
    BY <2>1, <2>4
  <2> QED BY <2>2, <2>3, <2>4
          DEF Next, Ratify, AddNote, CompleteReconcile, vars, planFields
<1> QED BY <1>1, <1>2, TypeCorrect, PTL DEF Spec

\* Work never runs ahead of its dependencies: done is final, and neither
\* plans nor events change the dependencies of a started task.
THEOREM DependenciesFirst == Spec => []DependenciesDone
<1>1. Init => DependenciesDone
  BY DEF Init, DependenciesDone, WithStatus, Active
<1>2. TypeOK /\ DependenciesDone /\ [Next]_vars => DependenciesDone'
  <2> SUFFICES ASSUME TypeOK, DependenciesDone, [Next]_vars,
                      NEW t \in Tasks, status'[t] \in Active \cup {"done"},
                      NEW d \in deps'[t]
               PROVE  status'[d] = "done"
    BY DEF DependenciesDone, WithStatus
  <2> USE DEF TypeOK
  <2>1. ASSUME status[t] \in Active \cup {"done"}, deps'[t] = deps[t],
               \A u \in Tasks : status[u] = "done" => status'[u] = "done"
        PROVE  status'[d] = "done"
    BY <2>1 DEF DependenciesDone, WithStatus
  <2>2. ASSUME NEW p \in Plans, ApplyPlan(p) PROVE status'[d] = "done"
    BY <2>1, <2>2, PlanStep DEF Active, Statuses, Terminal
  <2>3. ASSUME NEW w \in Tasks, TaskStep(w) PROVE status'[d] = "done"
    <3>1. UNCHANGED deps
      BY <2>3, StatusStep
    <3>2. PICK s \in Statuses :
            /\ status' = [status EXCEPT ![w] = s]
            /\ status[w] \in {"todo", "blocked"} \cup Active
            /\ s \in Active \cup {"done"} =>
                 status[w] \in Active \/ Admissible(status, w)
      BY <2>3, StatusStep DEF Active
    <3>3. \A u \in Tasks : status[u] = "done" => status'[u] = "done"
      BY <3>2 DEF Active
    <3>4. CASE status[t] \in Active \cup {"done"}
      BY <2>1, <3>1, <3>3, <3>4
    <3>5. CASE status[t] \notin Active \cup {"done"}
      <4>1. w = t /\ Admissible(status, t)
        BY <3>2, <3>5
      <4> QED BY <3>1, <3>3, <4>1 DEF Admissible, DepsDone
    <3> QED BY <3>4, <3>5
  <2>4. CASE UNCHANGED <<status, deps>>
    BY <2>1, <2>4
  <2> QED BY <2>2, <2>3, <2>4
          DEF Next, Ratify, AddNote, CompleteReconcile, vars, planFields
<1> QED BY <1>1, <1>2, TypeCorrect, PTL DEF Spec

\* Done and cancelled tasks stay so, and plans cannot edit started work.
THEOREM StartedStaysFrozen == Spec => StartedIsFrozen
<1>1. TypeOK /\ [Next]_vars => [FrozenFields]_vars
  <2> SUFFICES ASSUME TypeOK, [Next]_vars PROVE FrozenFields \/ UNCHANGED vars
    OBVIOUS
  <2>1. ASSUME NEW p \in Plans, ApplyPlan(p) PROVE FrozenFields
    BY <2>1, PlanStep DEF FrozenFields
  <2>2. ASSUME NEW w \in Tasks, TaskStep(w) PROVE FrozenFields
    BY <2>2, StatusStep DEF FrozenFields, TypeOK, Active
  <2>3. CASE UNCHANGED <<status, deps, domains>>
    BY <2>3 DEF FrozenFields
  <2> QED BY <2>1, <2>2, <2>3
          DEF Next, Ratify, AddNote, CompleteReconcile, vars, planFields
<1> QED BY <1>1, TypeCorrect, PTL DEF Spec, StartedIsFrozen

\* A task entering work leaves no more tasks working than the limit allows.
THEOREM LimitRespected == Spec => AdmissionLimit
<1>1. TypeOK /\ PlanClosed /\ [Next]_vars => [LimitOnEntry]_vars
  <2> SUFFICES ASSUME TypeOK, PlanClosed, [Next]_vars
               PROVE  LimitOnEntry \/ UNCHANGED vars
    OBVIOUS
  <2> SUFFICES ASSUME NEW t \in Tasks, status[t] \notin Active,
                      status'[t] \in Active, scope.max # None
               PROVE  Cardinality(WithStatus(status', Active)) <= scope.max
    BY DEF LimitOnEntry
  <2>1. ASSUME NEW p \in Plans, ApplyPlan(p) PROVE FALSE
    BY <2>1, PlanStep DEF Active, TypeOK, Statuses, Terminal
  <2>2. ASSUME NEW w \in Tasks, TaskStep(w)
        PROVE  Cardinality(WithStatus(status', Active)) <= scope.max
    <3>1. /\ Admissible(status, t)
          /\ status' = [status EXCEPT ![t] = "in_progress"]
      BY <2>2, StatusStep DEF TypeOK, Active
    <3> DEFINE rivals == WithStatus(status, Active) \ {t}
    <3>2. WithStatus(status', Active) = rivals \cup {t}
      BY <3>1 DEF WithStatus, TypeOK, Active
    <3>3. IsFiniteSet(rivals)
      BY TasksAssumption, FS_Subset DEF WithStatus
    <3>4. /\ Cardinality(rivals) \in Nat
          /\ Cardinality(rivals \cup {t}) = Cardinality(rivals) + 1
      BY <3>3, FS_CardinalityType, FS_AddElement
    <3>5. Cardinality(rivals) < scope.max
      BY <3>1 DEF Admissible, Rivals, HasRoom
    <3>6. scope.max \in Nat
      <4>1. scope \in Scopes
        BY <2>2, StatusStep DEF PlanClosed, Present, TypeOK, Active
      <4> QED BY <4>1 DEF Scopes, Limits
    <3> QED BY <3>2, <3>4, <3>5, <3>6
  <2>3. CASE UNCHANGED status
    BY <2>3
  <2> QED BY <2>1, <2>2, <2>3
          DEF Next, Ratify, AddNote, CompleteReconcile, vars
<1> QED BY <1>1, TypeCorrect, PTL DEF Spec, AdmissionLimit

-----------------------------------------------------------------------------
(* Evidence: what is merged is what was checked.                           *)

\* The three evidence invariants hold together: a task reaches merge_ready
\* only through a gate that read evidence of its current head.
EvidenceInv == EvidenceIsCurrent /\ MergeReadyIsVerified /\ MergedHeadWasChecked

\* One event about task t preserves them.
LEMMA EvidenceTaskStep ==
  ASSUME TypeOK, PlanClosed, EvidenceInv, NEW t \in Tasks, TaskStep(t)
  PROVE  EvidenceInv'
<1> USE DEF EvidenceInv, EvidenceIsCurrent, MergeReadyIsVerified,
            MergedHeadWasChecked, WithStatus, Verified, Blocking, Fresh,
            SetStatus, Active, evidence, planFields, TypeOK
<1>1. CASE Start(t) \/ Block(t) \/ Unblock(t) \/ Cancel(t)
  BY <1>1 DEF Start, Block, Unblock, Cancel, Open
<1>2. CASE Merge(t)
  <2>1. Fresh(t) /\ Verified(t, verification[t]) /\ ~Blocking(review[t])
    BY <1>2 DEF Merge, Gate, TaskGate, Terminal
  <2>2. merge'[t] # None /\ merge'[t].head = head[t]
    <3>1. scope \in Scopes /\ scope.baseRef \in Refs
      BY <1>2 DEF Merge, PlanClosed, Present, Scopes
    <3>2. head[t] \in Heads
      BY <2>1 DEF Freshnesses
    <3>3. merge'[t] = [head |-> head[t], baseRef |-> scope.baseRef]
      BY <1>2 DEF Merge
    <3> QED BY <3>1, <3>2, <3>3, NoneAssumption DEF Merges
  <2> QED BY <1>2, <2>1, <2>2 DEF Merge
<1>3. ASSUME NEW h \in Heads, RecordPR(t, h) PROVE EvidenceInv'
  BY <1>3, NoneAssumption DEF RecordPR, Pushed, DropEvidence
<1>4. ASSUME NEW h \in Heads, UpdateHead(t, h) PROVE EvidenceInv'
  BY <1>4, NoneAssumption DEF UpdateHead, Pushed, DropEvidence
<1>5. ASSUME NEW b \in Bases, NEW o \in {"passed", "blocking"},
             RecordReview(t, b, o)
      PROVE  EvidenceInv'
  <2> DEFINE r == [base |-> b, head |-> head[t], outcome |-> o]
  <2>1. status'[t] = "merge_ready" =>
          pr[t] /\ Verified(t, verification[t]) /\ ~Blocking(r)
    BY <1>5 DEF RecordReview, TaskGate, Terminal
  <2> QED BY <1>5, <2>1 DEF RecordReview
<1>6. ASSUME NEW b \in Bases, NEW s \in {"passed", "failed"},
             RecordVerification(t, b, s)
      PROVE  EvidenceInv'
  <2> DEFINE v == [base |-> b, head |-> head[t], status |-> s]
  <2>1. status'[t] = "merge_ready" =>
          pr[t] /\ Verified(t, v) /\ ~Blocking(review[t])
    BY <1>6 DEF RecordVerification, TaskGate, Terminal
  <2> QED BY <1>6, <2>1 DEF RecordVerification
<1>7. ASSUME NEW c \in {"fresh", "stale"}, RecordFreshness(t, c)
      PROVE  EvidenceInv'
  BY <1>7 DEF RecordFreshness
<1> QED BY <1>1, <1>2, <1>3, <1>4, <1>5, <1>6, <1>7 DEF TaskStep

\* Evidence always names the current head, a task awaiting its merge has
\* passed its checks, and a finished one was merged at the head they name.
THEOREM EvidenceBound ==
  Spec => [](EvidenceIsCurrent /\ MergeReadyIsVerified /\ MergedHeadWasChecked)
<1>1. Init => EvidenceInv
  BY DEF Init, Blank, EvidenceInv, EvidenceIsCurrent, MergeReadyIsVerified,
         MergedHeadWasChecked, WithStatus
<1>2. TypeOK /\ PlanClosed /\ EvidenceInv /\ [Next]_vars => EvidenceInv'
  <2> SUFFICES ASSUME TypeOK, PlanClosed, EvidenceInv, [Next]_vars
               PROVE  EvidenceInv'
    OBVIOUS
  <2>1. ASSUME NEW p \in Plans, ApplyPlan(p) PROVE EvidenceInv'
    <3>1. \A t \in Tasks :
            \/ /\ UNCHANGED <<pr[t], head[t], review[t], verification[t],
                              freshness[t], merge[t]>>
               /\ \/ status'[t] = status[t]
                  \/ status'[t] = "todo" /\ status[t] # "done"
            \/ /\ ~pr'[t] /\ review'[t] = None /\ verification'[t] = None
               /\ freshness'[t] = None /\ merge'[t] = None
               /\ status'[t] = "absent"
      <4>1. p \in PlanType
        BY PlansAssumption
      <4> QED BY <2>1, <4>1 DEF ApplyPlan, Kept, PlannedStatus, TypeOK, PlanType
    <3> QED BY <3>1
            DEF EvidenceInv, EvidenceIsCurrent, MergeReadyIsVerified,
                MergedHeadWasChecked, WithStatus, Verified, Blocking, Fresh,
                TypeOK
  <2>2. ASSUME NEW t \in Tasks, TaskStep(t) PROVE EvidenceInv'
    BY <2>2, EvidenceTaskStep
  <2>3. CASE UNCHANGED <<status, evidence>>
    BY <2>3 DEF EvidenceInv, EvidenceIsCurrent, MergeReadyIsVerified,
                MergedHeadWasChecked, WithStatus, Verified, Blocking, Fresh,
                evidence
  <2> QED BY <2>1, <2>2, <2>3
          DEF Next, Ratify, AddNote, CompleteReconcile, vars
<1>3. EvidenceInv => EvidenceIsCurrent /\ MergeReadyIsVerified /\ MergedHeadWasChecked
  BY DEF EvidenceInv
<1> QED BY <1>1, <1>2, <1>3, TypeCorrect, PTL DEF Spec

\* A task the policy wants reviewed is merged only with a passing review of
\* the merged head: the merge gate reads the policy and the risk anew.
THEOREM ReviewBeforeMerge == Spec => MergeNeedsReview
<1>1. TypeOK /\ [Next]_vars => [ReviewedOnMerge]_vars
  <2> SUFFICES ASSUME TypeOK, [Next]_vars, NEW t \in Tasks,
                      status[t] # "done", status'[t] = "done",
                      ReviewRequired(t)
               PROVE  ReviewPassed(t, review[t])
    BY DEF ReviewedOnMerge
  <2>1. ASSUME NEW p \in Plans, ApplyPlan(p) PROVE FALSE
    BY <2>1, PlanStep DEF TypeOK
  <2>2. ASSUME NEW w \in Tasks, TaskStep(w) PROVE ReviewPassed(t, review[t])
    <3>1. CASE Merge(w)
      BY <3>1 DEF Merge, SetStatus, Gate, TaskGate, Terminal, TypeOK
    <3>2. CASE ~Merge(w)
      BY <2>2, <3>2
         DEF TaskStep, TypeOK, SetStatus, Start, Block, Unblock, Cancel,
             RecordPR, UpdateHead, Pushed, RecordReview, RecordVerification,
             RecordFreshness
    <3> QED BY <3>1, <3>2
  <2> QED BY <2>1, <2>2 DEF Next, Ratify, AddNote, CompleteReconcile, vars
<1> QED BY <1>1, TypeCorrect, PTL DEF Spec, MergeNeedsReview

-----------------------------------------------------------------------------
(* Refinement.                                                             *)

\* The instance's copy of FiniteSets counts as the engine's does.
LEMMA SameCardinality ==
  ASSUME NEW S PROVE Abstract!Cardinality(S) = Cardinality(S)
  BY Zenon DEF Abstract!Cardinality, Cardinality

\* The engine implements the admission controller: every event is one of its
\* steps, or one it does not see.
THEOREM EngineImplementsAdmission == Spec => ImplementsAdmission
<1>1. Init => Abstract!JobsInit
  BY DEF Init, Abstract!JobsInit, WithStatus, Active
<1>2. TypeOK /\ PlanClosed /\ [Next]_vars
        => [Abstract!JobsNext]_Abstract!jobVars
  <2> SUFFICES ASSUME TypeOK, PlanClosed, [Next]_vars
               PROVE  Abstract!JobsNext \/ UNCHANGED Abstract!jobVars
    OBVIOUS
  <2>1. ASSUME NEW p \in Plans, ApplyPlan(p) PROVE Abstract!Replan
    <3>1. /\ WithStatus(status', Active) = WithStatus(status, Active)
          /\ WithStatus(status', {"done"}) = WithStatus(status, {"done"})
      BY <2>1, PlanStep DEF WithStatus, TypeOK, Active, Statuses, Terminal
    <3>2. /\ domains' \in [Tasks -> SUBSET Domains]
          /\ deps' \in [Tasks -> SUBSET Tasks]
          /\ scope' \in Scopes
      <4>1. p \in PlanType
        BY PlansAssumption
      <4> QED BY <2>1, <4>1 DEF ApplyPlan, PlanType, Scopes, TypeOK
    <3>3. \A t \in WithStatus(status, Active) \cup WithStatus(status, {"done"}) :
            domains'[t] = domains[t] /\ deps'[t] = deps[t]
      BY <2>1, PlanStep DEF WithStatus, Active
    <3>4. (IF scope' = None THEN None ELSE scope'.max) \in Nat \cup {None}
      BY <3>2 DEF Scopes, Limits
    <3> QED BY <3>1, <3>2, <3>3, <3>4 DEF Abstract!Replan
  <2>2. ASSUME NEW t \in Tasks, TaskStep(t)
        PROVE  Abstract!JobsNext \/ UNCHANGED Abstract!jobVars
    <3>1. UNCHANGED <<scope, deps, domains>>
      BY <2>2, StatusStep
    <3>2. PICK s \in Statuses :
            /\ status' = [status EXCEPT ![t] = s]
            /\ \/ s \in Active /\ status[t] \in Active
               \/ /\ s = "in_progress" /\ status[t] \in {"todo", "blocked"}
                  /\ Admissible(status, t)
               \/ s = "done" /\ status[t] = "merge_ready"
               \/ /\ s \in {"todo", "blocked", "cancelled"}
                  /\ status[t] \in {"todo", "blocked"} \cup Active
      BY <2>2, StatusStep
    <3> DEFINE working == WithStatus(status, Active)
               finished == WithStatus(status, {"done"})
    <3> USE DEF TypeOK, WithStatus, Active
    <3>3. CASE s \in Active /\ status[t] \in Active
      <4>1. working' = working /\ finished' = finished
        BY <3>2, <3>3
      <4> QED BY <3>1, <4>1 DEF Abstract!jobVars
    <3>4. CASE s = "in_progress" /\ status[t] \in {"todo", "blocked"}
      <4>1. Admissible(status, t)
        BY <3>2, <3>4
      <4>2. working' = working \cup {t} /\ finished' = finished
        BY <3>2, <3>4
      <4>3. t \notin working \cup finished /\ working \ {t} = working
        BY <3>4
      <4>4. scope # None
        BY <3>4 DEF PlanClosed, Present
      <4>5. Abstract!Begin(t)
        <5>1. deps[t] \subseteq finished
          BY <4>1 DEF Admissible, DepsDone
        <5>2. \A u \in working : ~Abstract!Clashing(t, u)
          BY <4>1, <4>3
             DEF Admissible, Rivals, Collide, Abstract!Clashing
        <5> DEFINE limit == IF scope = None THEN None ELSE scope.max
        <5>3. limit # None => Cardinality(working) < limit
          BY <4>1, <4>3, <4>4 DEF Admissible, Rivals, HasRoom
        <5>4. UNCHANGED <<finished, domains, deps, limit>>
          BY <3>1, <4>2
        <5> HIDE DEF working, finished, limit
        <5>5. /\ t \notin working \cup finished /\ deps[t] \subseteq finished
              /\ \A u \in working : ~Abstract!Clashing(t, u)
              /\ limit # None => Cardinality(working) < limit
              /\ working' = working \cup {t}
              /\ UNCHANGED <<finished, domains, deps, limit>>
          BY <4>2, <4>3, <5>1, <5>2, <5>3, <5>4
        <5> QED BY <5>5, SameCardinality DEF Abstract!Begin, working, finished, limit
      <4> QED BY <4>5 DEF Abstract!JobsNext
    <3>5. CASE s = "done" /\ status[t] = "merge_ready"
      <4>1. /\ working' = working \ {t} /\ finished' = finished \cup {t}
            /\ t \in working
        BY <3>2, <3>5
      <4> QED BY <3>1, <4>1 DEF Abstract!JobsNext, Abstract!Finish
    <3>6. CASE s \in {"todo", "blocked", "cancelled"}
                /\ status[t] \in {"todo", "blocked"} \cup Active
      <4>1. working' = working \ {t} /\ finished' = finished
        BY <3>2, <3>6
      <4>2. CASE t \in working
        BY <3>1, <4>1, <4>2 DEF Abstract!JobsNext, Abstract!Leave
      <4>3. CASE t \notin working
        BY <3>1, <4>1, <4>3 DEF Abstract!jobVars
      <4> QED BY <4>2, <4>3
    <3> QED BY <3>2, <3>3, <3>4, <3>5, <3>6
  <2>3. CASE UNCHANGED <<scope, status, deps, domains>>
    BY <2>3 DEF Abstract!jobVars, WithStatus
  <2> QED BY <2>1, <2>2, <2>3
          DEF Next, Ratify, AddNote, CompleteReconcile, vars, planFields,
              Abstract!JobsNext
<1> QED BY <1>1, <1>2, TypeCorrect, PTL
        DEF Spec, ImplementsAdmission, Abstract!JobsSpec

-----------------------------------------------------------------------------
(* Induction on numbers, with sets in place of predicates.                 *)

\* A set of numbers that is not empty has a least one.
LEMMA LeastNumber ==
  ASSUME NEW S \in SUBSET Nat, S # {}
  PROVE  \E n \in S : \A m \in S : n <= m
<1> DEFINE Below(n) == 0 .. (n - 1)
           T == {Below(n) : n \in S}
<1>1. T \subseteq FiniteSubsetsOf(Nat) /\ T # {}
  <2>1. ASSUME NEW n \in S PROVE Below(n) \in FiniteSubsetsOf(Nat)
    <3>1. n \in Nat OBVIOUS
    <3>2. IsFiniteSet(Below(n)) BY <3>1, FS_Interval
    <3> QED BY <3>1, <3>2 DEF FiniteSubsetsOf
  <2> QED BY <2>1
<1>2. PICK x \in T : \A y \in T : <<y, x>> \notin StrictSubsetOrdering(Nat)
  <2> HIDE DEF T
  <2> QED BY <1>1, FS_StrictSubsetOrderingWellFounded, WFMin
<1>3. PICK n \in S : x = Below(n)
  OBVIOUS
<1>4. ASSUME NEW m \in S PROVE n <= m
  <2> SUFFICES ASSUME m < n PROVE FALSE
    OBVIOUS
  <2>1. Below(m) \subseteq Below(n) /\ Below(m) # Below(n)
    <3>1. m \in Below(n) /\ m \notin Below(m)
      OBVIOUS
    <3> QED BY <3>1
  <2>2. <<Below(m), Below(n)>> \in StrictSubsetOrdering(Nat)
    BY <1>1, <2>1 DEF StrictSubsetOrdering, FiniteSubsetsOf
  <2> QED BY <1>2, <1>3, <2>2
<1> QED BY <1>4

\* A set that 0 is in, and n + 1 with n, holds every number.
LEMMA SetInduction ==
  ASSUME NEW S, 0 \in S, \A n \in Nat : n \in S => n + 1 \in S
  PROVE  Nat \subseteq S
<1> DEFINE Out == {n \in Nat : n \notin S}
<1> SUFFICES ASSUME Out # {} PROVE FALSE
  OBVIOUS
<1>1. PICK n \in Out : \A m \in Out : n <= m
  BY LeastNumber
<1>2. n # 0 /\ n - 1 \in Nat /\ n - 1 \in S
  BY <1>1
<1> QED BY <1>1, <1>2

-----------------------------------------------------------------------------
(* The action queue.                                                       *)

First ==
  [actions |-> IF ReconcileDue THEN <<Item(None, "run_reconciliation")>>
                               ELSE <<>>,
   blockers |-> <<>>, projected |-> status]

\* The recursion of Queue has a solution: one that is right up to n tasks
\* extends to one more.
LEMMA QueueRecursion ==
  ASSUME NEW limit
  PROVE  /\ Queue(limit)[0] = First
         /\ \A n \in 1 .. Len(Order) :
              Queue(limit)[n] = Visit(limit, Queue(limit)[n - 1], Order[n])
<1> DEFINE Turn(f, n) == IF n = 0 THEN First
                         ELSE Visit(limit, f[n - 1], Order[n])
           Solves(f, k) == f = [n \in 0 .. k |-> Turn(f, n)]
           Solved == {k \in Nat : \E f : Solves(f, k)}
<1>1. 0 \in Solved
  <2>1. Solves([n \in 0 .. 0 |-> First], 0)
    OBVIOUS
  <2> QED BY <2>1
<1>2. ASSUME NEW k \in Nat, k \in Solved PROVE k + 1 \in Solved
  <2>1. PICK f : Solves(f, k)
    BY <1>2
  <2> DEFINE g == [n \in 0 .. (k + 1) |->
                     IF n \in 0 .. k THEN f[n] ELSE Visit(limit, f[k], Order[k + 1])]
  <2>2. \A n \in 0 .. (k + 1) : g[n] = Turn(g, n)
    <3> SUFFICES ASSUME NEW n \in 0 .. (k + 1) PROVE g[n] = Turn(g, n)
      OBVIOUS
    <3> HIDE DEF Turn
    <3>1. CASE n = 0
      BY <2>1, <3>1 DEF Turn
    <3>2. CASE n \in 1 .. k
      <4>1. f[n] = Turn(f, n)
        BY <2>1, <3>2
      <4> QED BY <3>2, <4>1 DEF Turn
    <3>3. CASE n = k + 1
      BY <3>3 DEF Turn
    <3> QED BY <3>1, <3>2, <3>3
  <2>3. Solves(g, k + 1)
    <3> HIDE DEF Turn
    <3> QED BY <2>2
  <2> HIDE DEF Solves, g
  <2> QED BY <2>3
<1>3. Len(Order) \in Solved
  <2> HIDE DEF Solved
  <2>1. Len(Order) \in Nat
    BY OrderAssumption
  <2> QED BY <1>1, <1>2, <2>1, SetInduction
<1>4. Queue(limit) = CHOOSE f : Solves(f, Len(Order))
  BY DEF Queue, First
<1>5. Solves(Queue(limit), Len(Order))
  <2> HIDE DEF Solves
  <2> QED BY <1>3, <1>4
<1>6. \A n \in 0 .. Len(Order) : Queue(limit)[n] = Turn(Queue(limit), n)
  <2> HIDE DEF Turn
  <2> QED BY <1>5
<1> QED BY <1>6, OrderAssumption

-----------------------------------------------------------------------------
GateLabels ==
  {"await_worker", "run_review", "assign_fix_writer", "run_verification",
   "check_branch_freshness", "mark_merge_ready", "merge_task"}
Codes == {"blocked", "dependencies", "conflict_domains", "max_concurrent"}
Labels == GateLabels \cup Codes \cup {"run_reconciliation", "start_task"}
Items == [task : Tasks \cup {None}, action : Labels]
Queues == [actions : Seq(Items), blockers : Seq(Items),
           projected : [Tasks -> Statuses]]

\* The starts a queue proposes are the tasks its projection has moved.
Chosen(q) == {t \in Tasks : q.projected[t] # status[t]}
Crew(q) == WithStatus(q.projected, Active)

\* Why an item is among the actions.
Justified(i, q) ==
  \/ i.task = None /\ i.action = "run_reconciliation"
  \/ i.task \in Chosen(q) /\ i.action = "start_task"
  \/ /\ i.task \in WithStatus(status, Active)
     /\ i.action = GateAction(Gate(i.task))

\* The projected starts are admissible together.
Fits(q) ==
  /\ \A t \in Chosen(q) : /\ status[t] = "todo"
                         /\ q.projected[t] = "in_progress"
                         /\ DepsDone(status, t)
  /\ \A t \in Chosen(q), u \in Crew(q) : t # u => ~Collide(t, u)
  /\ Chosen(q) # {} /\ scope.max # None => Cardinality(Crew(q)) <= scope.max

Sound(q) ==
  /\ q \in Queues /\ Fits(q)
  /\ \A i \in ToSet(q.actions) : Justified(i, q)

LEMMA CollideSymmetric ==
  ASSUME TypeOK, NEW t \in Tasks, NEW u \in Tasks, Collide(t, u)
  PROVE  Collide(u, t)
BY OverlapAssumption DEF TypeOK, Collide

Gates == {"no_pr", "reviewing", "needs_review", "needs_fixes",
          "needs_verification", "needs_freshness", "ready_to_merge",
          "merge_ready"}

LEMMA ActiveGate ==
  ASSUME NEW t \in Tasks, status[t] \in Active
  PROVE  Gate(t) \in Gates
BY DEF Gate, TaskGate, Active, Terminal, Gates

LEMMA GateActionType ==
  ASSUME NEW g \in Gates
  PROVE  GateAction(g) \in GateLabels
BY DEF Gates, GateAction, GateActions, GateLabels

LEMMA GateTable ==
  /\ GateAction("no_pr") = "await_worker"
  /\ GateAction("reviewing") = "run_review"
  /\ GateAction("needs_review") = "run_review"
  /\ GateAction("needs_fixes") = "assign_fix_writer"
  /\ GateAction("needs_verification") = "run_verification"
  /\ GateAction("needs_freshness") = "check_branch_freshness"
  /\ GateAction("ready_to_merge") = "mark_merge_ready"
  /\ GateAction("merge_ready") = "merge_task"
BY DEF GateAction, GateActions

LEMMA BlockerCodeType ==
  ASSUME NEW st, NEW t
  PROVE  BlockerCode(st, t) \in Codes
BY DEF BlockerCode, Codes

\* Appending an item adds it to the set of items.
LEMMA AppendItem ==
  ASSUME NEW s \in Seq(Items), NEW i \in Items
  PROVE  /\ Append(s, i) \in Seq(Items)
         /\ ToSet(Append(s, i)) = ToSet(s) \cup {i}
         /\ Len(s) \in Nat /\ Len(Append(s, i)) = Len(s) + 1
         /\ \A k \in 1 .. Len(s) : Append(s, i)[k] = s[k]
<1>1. /\ Append(s, i) \in Seq(Items)
      /\ Len(Append(s, i)) = Len(s) + 1
      /\ Len(s) \in Nat
  OBVIOUS
<1>2. ASSUME NEW j \in 1 .. Len(s) PROVE Append(s, i)[j] = s[j]
  OBVIOUS
<1>3. Append(s, i)[Len(s) + 1] = i
  OBVIOUS
<1>4. DOMAIN s = 1 .. Len(s) /\ DOMAIN Append(s, i) = 1 .. Len(s) + 1
  BY <1>1
<1>5. ASSUME NEW j \in DOMAIN Append(s, i), j \notin DOMAIN s
      PROVE  j = Len(s) + 1
  BY <1>1, <1>4, <1>5
<1>6. /\ DOMAIN s \subseteq DOMAIN Append(s, i)
      /\ Len(s) + 1 \in DOMAIN Append(s, i)
  BY <1>1, <1>4
<1> QED BY <1>1, <1>2, <1>3, <1>4, <1>5, <1>6, Zenon DEF ToSet

LEMMA VisitSound ==
  ASSUME TypeOK, PlanClosed, NEW limit, NEW q, Sound(q), NEW t \in Tasks
  PROVE  Sound(Visit(limit, q, t))
<1> DEFINE r == Visit(limit, q, t)
<1> USE DEF Sound
<1>1. ASSUME NEW c \in Codes, r = [q EXCEPT !.blockers = Append(@, Item(t, c))]
      PROVE  Sound(r)
  <2>1. Item(t, c) \in Items
    BY DEF Items, Item, Labels
  <2>2. q.blockers \in Seq(Items)
    BY DEF Queues
  <2>3. r \in Queues /\ r.projected = q.projected /\ r.actions = q.actions
    <3> HIDE DEF r
    <3> QED BY <1>1, <2>1, <2>2, AppendItem DEF Queues
  <2> HIDE DEF r
  <2>4. Fits(r)
    BY <2>3, Zenon DEF Fits, Chosen, Crew
  <2>5. \A i \in ToSet(r.actions) : Justified(i, r)
    BY <2>3 DEF Justified, Chosen
  <2> QED BY <2>3, <2>4, <2>5
<1>2. ASSUME r = Started(q, t), status[t] = "todo", Admissible(q.projected, t)
      PROVE  Sound(r)
  <2> DEFINE i == Item(t, "start_task")
             rivals == Rivals(q.projected, t)
  <2>1. i \in Items
    BY DEF Items, Item, Labels
  <2>2. q.actions \in Seq(Items) /\ q.projected \in [Tasks -> Statuses]
    BY DEF Queues
  <2>3. /\ r \in Queues
        /\ r.projected = [q.projected EXCEPT ![t] = "in_progress"]
        /\ ToSet(r.actions) = ToSet(q.actions) \cup {i}
    <3> HIDE DEF r, i
    <3> QED BY <1>2, <2>1, <2>2, AppendItem
            DEF Started, Queues, Statuses, Active, i
  <2> HIDE DEF r
  <2>4. /\ Chosen(r) = Chosen(q) \cup {t}
        /\ Crew(r) = rivals \cup {t} /\ t \notin rivals
        /\ \A u \in Tasks \ {t} : r.projected[u] = q.projected[u]
        /\ r.projected[t] = "in_progress"
    BY <1>2, <2>2, <2>3 DEF Chosen, Crew, Rivals, WithStatus, Active
  <2>5. \A u \in Chosen(r) : /\ status[u] = "todo"
                           /\ r.projected[u] = "in_progress"
                           /\ DepsDone(status, u)
    <3>1. DepsDone(status, t)
      BY <1>2 DEF Admissible, DepsDone, Fits, Chosen, TypeOK
    <3> QED BY <1>2, <2>4, <3>1 DEF Fits, Chosen
  <2>6. ASSUME NEW u \in Chosen(r), NEW v \in Crew(r), u # v
        PROVE  ~Collide(u, v)
    <3>1. \A w \in rivals : ~Collide(t, w)
      BY <1>2 DEF Admissible
    <3>2. Crew(q) \ {t} = rivals /\ Chosen(q) \subseteq Crew(q)
      BY DEF Crew, Rivals, Fits, Chosen, WithStatus, Active
    <3>3. u \in Tasks /\ v \in Tasks
      BY DEF Chosen, Crew, WithStatus
    <3>4. CASE u = t
      BY <2>4, <2>6, <3>1, <3>4
    <3>5. CASE v = t
      <4>1. u \in rivals
        BY <2>4, <2>6, <3>2, <3>5
      <4> QED BY <3>1, <3>3, <3>5, <4>1, CollideSymmetric
    <3>6. CASE u # t /\ v # t
      BY <2>4, <3>2, <3>6, <2>6 DEF Fits
    <3> QED BY <3>4, <3>5, <3>6
  <2>7. scope.max # None => Cardinality(Crew(r)) <= scope.max
    <3> SUFFICES ASSUME scope.max # None PROVE Cardinality(Crew(r)) <= scope.max
      OBVIOUS
    <3>1. scope.max \in Nat
      <4>1. scope \in Scopes
        BY <1>2 DEF TypeOK, PlanClosed, Present
      <4> QED BY <4>1 DEF Scopes, Limits
    <3>2. rivals \in SUBSET Tasks
      BY DEF Rivals, WithStatus
    <3>3. IsFiniteSet(rivals) /\ Cardinality(rivals) \in Nat
      BY <3>2, TasksAssumption, FS_Subset, FS_CardinalityType
    <3>4. Cardinality(rivals) < scope.max
      BY <1>2 DEF Admissible, HasRoom
    <3>5. Cardinality(Crew(r)) = Cardinality(rivals) + 1
      <4> HIDE DEF rivals
      <4> QED BY <2>4, <3>3, FS_AddElement
    <3> HIDE DEF rivals
    <3> QED BY <3>1, <3>3, <3>4, <3>5
  <2>8. \A j \in ToSet(r.actions) : Justified(j, r)
    BY <2>3, <2>4 DEF Justified, Item
  <2> QED BY <2>3, <2>5, <2>6, <2>7, <2>8 DEF Fits
<1>3. ASSUME r = [q EXCEPT !.actions = Append(@, Item(t, GateAction(Gate(t))))],
             status[t] \in Active
      PROVE  Sound(r)
  <2> DEFINE i == Item(t, GateAction(Gate(t)))
  <2>1. i \in Items /\ Justified(i, q)
    BY <1>3, ActiveGate, GateActionType
       DEF Items, Item, Justified, WithStatus, Labels
  <2>2. /\ r \in Queues /\ r.projected = q.projected
        /\ ToSet(r.actions) = ToSet(q.actions) \cup {i}
    <3> HIDE DEF r, i
    <3>1. q.actions \in Seq(Items)
      BY DEF Queues
    <3> QED BY <1>3, <2>1, <3>1, AppendItem DEF Queues, i
  <2> HIDE DEF r, i
  <2>3. Fits(r)
    BY <2>2, Zenon DEF Fits, Chosen, Crew
  <2>4. \A j \in ToSet(r.actions) : Justified(j, r)
    BY <2>1, <2>2 DEF Justified, Chosen
  <2> QED BY <2>2, <2>3, <2>4
<1>4. status[t] \in Statuses
  BY DEF TypeOK
<1> QED BY <1>1, <1>2, <1>3, <1>4, BlockerCodeType
        DEF Visit, Skipped, Statuses, Terminal, Active, Codes

LEMMA FirstSound == TypeOK => Sound(First)
<1> SUFFICES ASSUME TypeOK PROVE Sound(First)
  OBVIOUS
<1>1. Item(None, "run_reconciliation") \in Items
  BY DEF Item, Items, Labels
<1>2. First \in Queues
  BY <1>1 DEF First, Queues, TypeOK
<1>3. Chosen(First) = {}
  BY DEF Chosen, First
<1>4. \A i \in ToSet(First.actions) : i = Item(None, "run_reconciliation")
  BY DEF First, ToSet
<1> QED BY <1>2, <1>3, <1>4 DEF Sound, Fits, Justified, Item

LEMMA QueueSound ==
  ASSUME TypeOK, PlanClosed, NEW limit
  PROVE  \A n \in 0 .. Len(Order) : Sound(Queue(limit)[n])
<1> DEFINE S == {n \in Nat : n \in 0 .. Len(Order) => Sound(Queue(limit)[n])}
<1>1. 0 \in S
  BY QueueRecursion, FirstSound
<1>2. ASSUME NEW n \in Nat, n \in S PROVE n + 1 \in S
  <2> SUFFICES ASSUME n + 1 \in 0 .. Len(Order)
               PROVE  Sound(Queue(limit)[n + 1])
    OBVIOUS
  <2>1. n + 1 \in 1 .. Len(Order) /\ Order[n + 1] \in Tasks
    BY OrderAssumption
  <2>2. Sound(Queue(limit)[n])
    BY <1>2
  <2>3. Queue(limit)[n + 1] = Visit(limit, Queue(limit)[n], Order[n + 1])
    BY <2>1, QueueRecursion
  <2> QED BY <2>1, <2>2, <2>3, VisitSound
<1>3. Nat \subseteq S
  <2> HIDE DEF S
  <2> QED BY <1>1, <1>2, SetInduction
<1> QED BY <1>3

\* The whole answer is sound, whatever its limit.
LEMMA AnswerSound ==
  ASSUME TypeOK, PlanClosed, Ratified, NEW limit
  PROVE  Sound(NextActions(limit))
BY QueueSound, OrderAssumption DEF NextActions

LEMMA ProposedJustified ==
  ASSUME TypeOK, PlanClosed, NEW i \in Proposed
  PROVE  Ratified /\ i \in Items /\ Justified(i, NextActions(Unlimited))
<1>1. Ratified
  BY DEF Proposed, NextActions, ToSet
<1>2. Sound(NextActions(Unlimited))
  BY <1>1, AnswerSound
<1>3. NextActions(Unlimited).actions \in Seq(Items)
  BY <1>2 DEF Sound, Queues
<1> QED BY <1>1, <1>2, <1>3 DEF Proposed, Sound, ToSet

LEMMA StartsFit == TypeOK /\ PlanClosed => StartsFitTogether
<1> SUFFICES ASSUME TypeOK, PlanClosed PROVE StartsFitTogether
  OBVIOUS
<1> DEFINE q == NextActions(Unlimited)
           starts == {i.task : i \in {j \in Proposed : j.action = "start_task"}}
           crew == WithStatus(status, Active) \cup starts
<1>1. CASE starts = {}
  BY <1>1 DEF StartsFitTogether
<1>2. CASE starts # {}
  <2>1. Ratified /\ Sound(q)
    BY <1>2, ProposedJustified, AnswerSound
  <2>2. starts \subseteq Chosen(q)
    <3> SUFFICES ASSUME NEW i \in Proposed, i.action = "start_task"
                 PROVE  i.task \in Chosen(q)
      OBVIOUS
    <3>1. Justified(i, q)
      BY ProposedJustified
    <3>2. ~(/\ i.task \in WithStatus(status, Active)
            /\ i.action = GateAction(Gate(i.task)))
      BY ActiveGate, GateActionType DEF WithStatus, GateLabels
    <3> QED BY <3>1, <3>2 DEF Justified
  <2>3. crew \subseteq Crew(q)
    <3>1. WithStatus(status, Active) \subseteq Crew(q)
      BY <2>1 DEF Sound, Fits, Crew, WithStatus, Chosen, Active
    <3>2. Chosen(q) \subseteq Crew(q)
      BY <2>1 DEF Sound, Fits, Crew, WithStatus, Chosen, Active
    <3> QED BY <2>2, <3>1, <3>2
  <2>4. ASSUME scope.max # None PROVE Cardinality(crew) <= scope.max
    <3>1. Cardinality(Crew(q)) <= scope.max
      BY <1>2, <2>1, <2>2, <2>4 DEF Sound, Fits
    <3>2. scope.max \in Nat
      <4>1. \E t \in Tasks : status[t] = "todo"
        BY <1>2, <2>1, <2>2 DEF Sound, Fits, Chosen
      <4>2. scope \in Scopes
        BY <4>1 DEF TypeOK, PlanClosed, Present
      <4> QED BY <2>4, <4>2 DEF Scopes, Limits
    <3>3. Crew(q) \in SUBSET Tasks
      BY DEF Crew, WithStatus
    <3> HIDE DEF crew, q
    <3>4. /\ Cardinality(crew) <= Cardinality(Crew(q))
          /\ Cardinality(crew) \in Nat /\ Cardinality(Crew(q)) \in Nat
      BY <2>3, <3>3, TasksAssumption, FS_Subset, FS_CardinalityType
    <3> QED BY <3>1, <3>2, <3>4
  <2>5. \A t \in starts, u \in crew : t # u => ~Collide(t, u)
    BY <2>1, <2>2, <2>3 DEF Sound, Fits
  <2>6. \A t \in starts : \A d \in deps[t] : status[d] = "done"
    BY <2>1, <2>2 DEF Sound, Fits, DepsDone
  <2> QED BY <2>4, <2>5, <2>6 DEF StartsFitTogether
<1> QED BY <1>1, <1>2

\* A pass of wddctl next never proposes starts that conflict.
THEOREM StartsAreCompatible == Spec => []StartsFitTogether
BY StartsFit, TypeCorrect, PTL

-----------------------------------------------------------------------------
\* A review is only ever asked of, or recorded for, a submitted task.
SubmittedFirst ==
  \A t \in Tasks : status[t] = "review" \/ review[t] # None => pr[t]

LEMMA SubmittedStep ==
  TypeOK /\ SubmittedFirst /\ [Next]_vars => SubmittedFirst'
<1> SUFFICES ASSUME TypeOK, SubmittedFirst, [Next]_vars, NEW t \in Tasks,
                    status'[t] = "review" \/ review'[t] # None
             PROVE  pr'[t]
  BY DEF SubmittedFirst
<1> USE DEF TypeOK, SubmittedFirst
<1>1. ASSUME NEW p \in Plans, ApplyPlan(p) PROVE pr'[t]
  BY <1>1 DEF ApplyPlan, PlannedStatus, Kept
<1>2. ASSUME NEW w \in Tasks, TaskStep(w) PROVE pr'[t]
  <2> USE DEF SetStatus, DropEvidence, evidence
  <2>1. CASE Start(w) \/ Merge(w) \/ Block(w) \/ Unblock(w) \/ Cancel(w)
    BY <2>1 DEF Start, Merge, Block, Unblock, Cancel
  <2>2. ASSUME NEW h \in Heads, RecordPR(w, h) \/ UpdateHead(w, h)
        PROVE  pr'[t]
    BY <2>2 DEF RecordPR, UpdateHead, Pushed
  <2>3. ASSUME NEW b \in Bases, NEW o \in {"passed", "blocking"},
               RecordReview(w, b, o)
        PROVE  pr'[t]
    BY <2>3 DEF RecordReview
  <2>4. ASSUME NEW b \in Bases, NEW s \in {"passed", "failed"},
               RecordVerification(w, b, s)
        PROVE  pr'[t]
    BY <2>4 DEF RecordVerification
  <2>5. ASSUME NEW c \in {"fresh", "stale"}, RecordFreshness(w, c)
        PROVE  pr'[t]
    BY <2>5 DEF RecordFreshness
  <2> QED BY <1>2, <2>1, <2>2, <2>3, <2>4, <2>5 DEF TaskStep
<1>3. CASE UNCHANGED <<status, evidence>>
  BY <1>3 DEF evidence
<1> QED BY <1>1, <1>2, <1>3
        DEF Next, Ratify, AddNote, CompleteReconcile, vars

LEMMA Accepted ==
  TypeOK /\ PlanClosed /\ SubmittedFirst /\ EvidenceIsCurrent
    /\ MergeReadyIsVerified => EveryProposalAccepted
<1> SUFFICES ASSUME TypeOK, PlanClosed, SubmittedFirst, EvidenceIsCurrent,
                    MergeReadyIsVerified, NEW i \in Proposed
             PROVE  Accepts(i)
  BY DEF EveryProposalAccepted
<1> DEFINE q == NextActions(Unlimited)
           t == i.task
<1>1. Ratified /\ Justified(i, q) /\ Sound(q)
  BY ProposedJustified, AnswerSound
<1> HIDE DEF q
<1>2. CASE i.action = "run_reconciliation"
  BY <1>1, <1>2 DEF Accepts
<1>3. CASE t \in Chosen(q) /\ i.action = "start_task"
  <2>1. /\ t \in Tasks /\ status[t] = "todo" /\ DepsDone(status, t)
        /\ \A u \in Crew(q) : t # u => ~Collide(t, u)
        /\ scope.max # None => Cardinality(Crew(q)) <= scope.max
    BY <1>1, <1>3 DEF Sound, Fits, Chosen
  <2>2. Rivals(status, t) \subseteq Crew(q) \ {t} /\ t \in Crew(q)
    BY <1>1, <1>3
       DEF Sound, Fits, Crew, Rivals, WithStatus, Chosen, Active
  <2>3. HasRoom(status, t)
    <3> SUFFICES ASSUME scope.max # None
                 PROVE  Cardinality(Rivals(status, t)) < scope.max
      BY DEF HasRoom
    <3> DEFINE rest == Crew(q) \ {t}
    <3>1. Crew(q) \in SUBSET Tasks
      BY DEF Crew, WithStatus
    <3>2. IsFiniteSet(Crew(q)) /\ Cardinality(Crew(q)) \in Nat
      BY <3>1, TasksAssumption, FS_Subset, FS_CardinalityType
    <3>3. /\ IsFiniteSet(rest) /\ Cardinality(rest) \in Nat
          /\ Cardinality(rest) = Cardinality(Crew(q)) - 1
      BY <2>2, <3>2, FS_RemoveElement, FS_CardinalityType
    <3>4. /\ Cardinality(Rivals(status, t)) <= Cardinality(rest)
          /\ Cardinality(Rivals(status, t)) \in Nat
      <4> HIDE DEF rest
      <4> QED BY <2>2, <3>3, FS_Subset, FS_CardinalityType DEF rest
    <3>5. scope.max \in Nat
      <4>1. scope \in Scopes
        BY <2>1 DEF TypeOK, PlanClosed, Present
      <4> QED BY <4>1 DEF Scopes, Limits
    <3> HIDE DEF rest
    <3> QED BY <2>1, <3>2, <3>3, <3>4, <3>5
  <2>4. Admissible(status, t)
    BY <2>1, <2>2, <2>3 DEF Admissible
  <2> QED BY <1>3, <2>1, <2>4 DEF Accepts
<1>4. CASE t \in WithStatus(status, Active) /\ i.action = GateAction(Gate(t))
  <2>1. t \in Tasks /\ status[t] \in Active
    BY <1>4 DEF WithStatus
  <2>2. pr[t] => head[t] # None
    BY <2>1 DEF EvidenceIsCurrent
  <2>3. review[t] # None \/ status[t] = "review" => pr[t]
    BY <2>1 DEF SubmittedFirst
  <2>4. status[t] = "merge_ready" =>
          pr[t] /\ Verified(t, verification[t]) /\ ~Blocking(review[t])
    BY <2>1 DEF MergeReadyIsVerified, WithStatus
  <2>5. /\ Gate(t) \in {"reviewing", "needs_review"} =>
             pr[t] /\ head[t] # None
        /\ Gate(t) = "needs_fixes" => pr[t]
        /\ Gate(t) = "no_pr" => status[t] = "in_progress" /\ ~pr[t]
        /\ Gate(t) \in {"needs_verification", "ready_to_merge"} =>
             status[t] = "in_progress" /\ head[t] # None
        /\ Gate(t) \in {"needs_freshness", "merge_ready"} =>
             status[t] = "merge_ready"
    BY <2>1, <2>2, <2>3, <2>4 DEF Gate, TaskGate, Blocking, Active, Terminal
  <2>6. Gate(t) \in Gates
    BY <2>1, ActiveGate
  <2>7. CASE Gate(t) = "no_pr"
    <3>1. i.action = "await_worker"
      BY <1>4, <2>7, GateTable
    <3> QED BY <2>5, <2>7, <3>1 DEF Accepts
  <2>8. CASE Gate(t) \in {"reviewing", "needs_review"}
    <3>1. i.action = "run_review"
      BY <1>4, <2>8, GateTable
    <3> QED BY <2>1, <2>5, <2>8, <3>1 DEF Accepts
  <2>9. CASE Gate(t) = "needs_fixes"
    <3>1. i.action = "assign_fix_writer"
      BY <1>4, <2>9, GateTable
    <3> QED BY <2>1, <2>5, <2>9, <3>1 DEF Accepts
  <2>10. CASE Gate(t) \in {"needs_verification", "ready_to_merge"}
    <3>1. i.action \in {"run_verification", "mark_merge_ready"}
      BY <1>4, <2>10, GateTable
    <3> QED BY <2>5, <2>10, <3>1 DEF Accepts
  <2>11. CASE Gate(t) = "needs_freshness"
    <3>1. i.action = "check_branch_freshness"
      BY <1>4, <2>11, GateTable
    <3> QED BY <2>5, <2>11, <3>1 DEF Accepts
  <2>12. CASE Gate(t) = "merge_ready"
    <3>1. i.action = "merge_task"
      BY <1>4, <2>12, GateTable
    <3> QED BY <2>5, <2>12, <3>1 DEF Accepts
  <2> QED BY <2>6, <2>7, <2>8, <2>9, <2>10, <2>11, <2>12 DEF Gates
<1> QED BY <1>1, <1>2, <1>3, <1>4 DEF Justified

\* What wddctl next proposes, the transition table accepts.
THEOREM ProposalsAreAccepted == Spec => []EveryProposalAccepted
<1>1. Init => SubmittedFirst
  BY DEF Init, SubmittedFirst, Blank
<1> QED BY <1>1, SubmittedStep, Accepted, TypeCorrect, EvidenceBound, PTL
        DEF Spec

-----------------------------------------------------------------------------
\* What a turn about task t may make of the queue q: it only appends, and
\* within the limit it names the task.
Names(q, t) == \E i \in ToSet(q.actions) \cup ToSet(q.blockers) : i.task = t
Grown(limit, q, t, r) ==
  /\ Len(q.actions) \in Nat
  /\ Len(r.actions) \in {Len(q.actions), Len(q.actions) + 1}
  /\ \A k \in 1 .. Len(q.actions) : r.actions[k] = q.actions[k]
  /\ ToSet(q.actions) \subseteq ToSet(r.actions)
  /\ ToSet(q.blockers) \subseteq ToSet(r.blockers)
  /\ r.actions = q.actions => r.projected = q.projected
  /\ Skipped(t) \/ Len(q.actions) >= limit \/ Names(r, t)
  /\ r.actions = q.actions /\ ~(Len(q.actions) >= limit) =>
       /\ status[t] \notin Active
       /\ status[t] = "todo" => ~Admissible(q.projected, t)

LEMMA VisitGrows ==
  ASSUME TypeOK, NEW limit, NEW q \in Queues, NEW t \in Tasks,
         NEW r, r = Visit(limit, q, t)
  PROVE  Grown(limit, q, t, r)
<1> USE DEF Grown
<1>1. /\ q.actions \in Seq(Items) /\ q.blockers \in Seq(Items)
      /\ Len(q.actions) \in Nat /\ status[t] \in Statuses
  BY DEF Queues, TypeOK
<1>2. CASE r = q /\ (Skipped(t) \/ Len(q.actions) >= limit)
  BY <1>1, <1>2 DEF Skipped, Active
<1>3. ASSUME NEW c \in Codes, r = [q EXCEPT !.blockers = Append(@, Item(t, c))],
             \/ status[t] = "blocked"
             \/ status[t] = "todo" /\ ~Admissible(q.projected, t)
      PROVE  Grown(limit, q, t, r)
  <2>1. Item(t, c) \in Items /\ Item(t, c).task = t
    BY DEF Items, Item, Labels
  <2>2. /\ r.actions = q.actions /\ r.projected = q.projected
        /\ ToSet(r.blockers) = ToSet(q.blockers) \cup {Item(t, c)}
    BY <1>1, <1>3, <2>1, AppendItem DEF Queues
  <2> QED BY <1>1, <1>3, <2>1, <2>2 DEF Active, Names
<1>4. ASSUME NEW a \in Labels, r.actions = Append(q.actions, Item(t, a)),
             r.blockers = q.blockers
      PROVE  Grown(limit, q, t, r)
  <2>1. Item(t, a) \in Items /\ Item(t, a).task = t
    BY DEF Items, Item
  <2>2. /\ ToSet(r.actions) = ToSet(q.actions) \cup {Item(t, a)}
        /\ Len(r.actions) = Len(q.actions) + 1
        /\ \A k \in 1 .. Len(q.actions) : r.actions[k] = q.actions[k]
    BY <1>1, <1>4, <2>1, AppendItem
  <2>3. r.actions # q.actions
    BY <1>1, <2>2
  <2> QED BY <1>1, <1>4, <2>1, <2>2, <2>3 DEF Names
<1>5. \/ r = q /\ (Skipped(t) \/ Len(q.actions) >= limit)
      \/ \E c \in Codes :
           /\ r = [q EXCEPT !.blockers = Append(@, Item(t, c))]
           /\ \/ status[t] = "blocked"
              \/ status[t] = "todo" /\ ~Admissible(q.projected, t)
      \/ \E a \in Labels : /\ r.actions = Append(q.actions, Item(t, a))
                           /\ r.blockers = q.blockers
  <2>1. CASE Skipped(t) \/ Len(q.actions) >= limit
    BY <2>1 DEF Visit
  <2>2. CASE ~(Skipped(t) \/ Len(q.actions) >= limit) /\ status[t] = "blocked"
    BY <2>2 DEF Visit, Codes
  <2>3. CASE /\ ~(Skipped(t) \/ Len(q.actions) >= limit)
             /\ status[t] = "todo" /\ ~Admissible(q.projected, t)
    BY <2>3, BlockerCodeType DEF Visit
  <2>4. CASE /\ ~(Skipped(t) \/ Len(q.actions) >= limit)
             /\ status[t] = "todo" /\ Admissible(q.projected, t)
    <3>1. r = Started(q, t)
      BY <2>4 DEF Visit
    <3>2. /\ r.actions = Append(q.actions, Item(t, "start_task"))
          /\ r.blockers = q.blockers
      BY <3>1 DEF Started, Queues
    <3> QED BY <3>2 DEF Labels
  <2>5. CASE /\ ~(Skipped(t) \/ Len(q.actions) >= limit)
             /\ status[t] \in Active
    <3>1. r = [q EXCEPT !.actions = Append(@, Item(t, GateAction(Gate(t))))]
      BY <2>5 DEF Visit, Active
    <3>2. /\ r.actions = Append(q.actions, Item(t, GateAction(Gate(t))))
          /\ r.blockers = q.blockers
      BY <3>1 DEF Queues
    <3> QED BY <2>5, <3>2, ActiveGate, GateActionType DEF Labels
  <2> QED BY <1>1, <2>1, <2>2, <2>3, <2>4, <2>5
          DEF Statuses, Active, Terminal, Skipped
<1> QED BY <1>2, <1>3, <1>4, <1>5

\* After n turns without a limit every one of the n tasks is accounted for,
\* and an empty list of actions means that none of them could be moved.
Accounted(q, n) ==
  /\ Len(q.actions) \in 0 .. (n + 1)
  /\ \A k \in 1 .. n : Skipped(Order[k]) \/ Names(q, Order[k])
  /\ q.actions = <<>> =>
       /\ q.projected = status
       /\ \A k \in 1 .. n :
            /\ status[Order[k]] \notin Active
            /\ status[Order[k]] = "todo" => ~Admissible(status, Order[k])

LEMMA QueueAccounted ==
  ASSUME TypeOK, PlanClosed
  PROVE  \A n \in 0 .. Len(Order) : Accounted(Queue(Unlimited)[n], n)
<1> DEFINE Q(n) == Queue(Unlimited)[n]
           S == {n \in Nat : n \in 0 .. Len(Order) => Accounted(Q(n), n)}
<1>1. 0 \in S
  <2>1. Len(First.actions) \in 0 .. (0 + 1) /\ First.projected = status
    BY DEF First
  <2>2. Accounted(First, 0)
    BY <2>1 DEF Accounted
  <2> QED BY <2>2, QueueRecursion
<1>2. ASSUME NEW n \in Nat, n \in S PROVE n + 1 \in S
  <2> SUFFICES ASSUME n + 1 \in 0 .. Len(Order) PROVE Accounted(Q(n + 1), n + 1)
    OBVIOUS
  <2> DEFINE t == Order[n + 1]
  <2>1. /\ n + 1 \in 1 .. Len(Order) /\ n \in 0 .. Len(Order)
        /\ t \in Tasks /\ Len(Order) \in Nat
    BY OrderAssumption
  <2>2. Accounted(Q(n), n)
    BY <1>2, <2>1
  <2>3. Q(n) \in Queues
    BY <2>1, QueueSound DEF Sound
  <2>4. Q(n + 1) = Visit(Unlimited, Q(n), t)
    BY <2>1, QueueRecursion
  <2>5. Grown(Unlimited, Q(n), t, Q(n + 1))
    <3> HIDE DEF Q, t
    <3> QED BY <2>1, <2>3, <2>4, VisitGrows
  <2>6. ~(Len(Q(n).actions) >= Unlimited)
    BY <2>1, <2>2 DEF Accounted, Unlimited
  <2>7. Len(Q(n + 1).actions) \in 0 .. (n + 1 + 1)
    BY <2>1, <2>2, <2>5 DEF Accounted, Grown
  <2>8. ASSUME NEW k \in 1 .. (n + 1)
        PROVE  Skipped(Order[k]) \/ Names(Q(n + 1), Order[k])
    <3>1. CASE k = n + 1
      BY <2>5, <2>6, <3>1 DEF Grown
    <3>2. CASE k \in 1 .. n
      <4>1. Skipped(Order[k]) \/ Names(Q(n), Order[k])
        BY <2>2, <3>2 DEF Accounted
      <4> QED BY <2>5, <4>1 DEF Grown, Names
    <3> QED BY <3>1, <3>2
  <2>9. ASSUME Q(n + 1).actions = <<>>
        PROVE  /\ Q(n + 1).projected = status
               /\ \A k \in 1 .. (n + 1) :
                    /\ status[Order[k]] \notin Active
                    /\ status[Order[k]] = "todo" =>
                         ~Admissible(status, Order[k])
    <3>1. Q(n).actions = <<>>
      <4>1. Q(n).actions \in Seq(Items)
        BY <2>3 DEF Queues
      <4>2. Len(Q(n).actions) = 0
        BY <2>5, <2>9 DEF Grown
      <4> QED BY <4>1, <4>2
    <3>2. Q(n).projected = status /\ Q(n + 1).projected = status
      BY <2>2, <2>5, <2>9, <3>1 DEF Accounted, Grown
    <3>3. /\ status[t] \notin Active
          /\ status[t] = "todo" => ~Admissible(status, t)
      BY <2>5, <2>6, <2>9, <3>1, <3>2 DEF Grown
    <3> QED BY <2>2, <3>1, <3>2, <3>3 DEF Accounted
  <2> QED BY <2>7, <2>8, <2>9 DEF Accounted
<1>3. Nat \subseteq S
  <2> HIDE DEF S
  <2> QED BY <1>1, <1>2, SetInduction
<1> QED BY <1>3

\* The whole queue, without a limit.
LEMMA WholeQueue ==
  ASSUME TypeOK, PlanClosed, Ratified
  PROVE  /\ Sound(NextActions(Unlimited))
         /\ \A t \in Tasks : Skipped(t) \/ Names(NextActions(Unlimited), t)
         /\ Proposed = {} =>
              /\ WithStatus(status, Active) = {}
              /\ \A t \in WithStatus(status, {"todo"}) : ~Admissible(status, t)
<1> DEFINE q == NextActions(Unlimited)
<1>1. Sound(q) /\ Accounted(q, Len(Order))
  BY AnswerSound, QueueAccounted, OrderAssumption DEF NextActions
<1>2. \A t \in Tasks : \E k \in 1 .. Len(Order) : Order[k] = t
  BY OrderAssumption DEF ToSet
<1> HIDE DEF q
<1>3. Proposed = {} => q.actions = <<>>
  <2>1. q.actions \in Seq(Items)
    BY <1>1 DEF Sound, Queues
  <2>2. Len(q.actions) # 0 => q.actions[1] \in ToSet(q.actions)
    BY <2>1 DEF ToSet
  <2> QED BY <2>1, <2>2 DEF Proposed, q
<1> QED BY <1>1, <1>2, <1>3 DEF Accounted, WithStatus, q

-----------------------------------------------------------------------------
\* The stored dependencies have no cycle: validate_plan refuses one, and only
\* a plan edits them.
DepsAcyclic ==
  \A S \in SUBSET Present : S # {} => \E t \in S : deps[t] \cap S = {}

LEMMA AcyclicStep == TypeOK /\ DepsAcyclic /\ [Next]_vars => DepsAcyclic'
<1> SUFFICES ASSUME TypeOK, DepsAcyclic, [Next]_vars PROVE DepsAcyclic'
  OBVIOUS
<1>1. ASSUME NEW p \in Plans, ApplyPlan(p) PROVE DepsAcyclic'
  <2>1. p \in PlanType
    BY PlansAssumption
  <2>2. Present' = p.tasks
    BY <1>1, <2>1 DEF ApplyPlan, PlannedStatus, PlanType, Present, TypeOK
  <2>3. \A t \in p.tasks : deps'[t] = p.deps[t]
    BY <1>1, <2>1 DEF ApplyPlan, PlanType
  <2> QED BY <1>1, <2>2, <2>3 DEF ApplyPlan, ValidPlan, DepsAcyclic
<1>2. ASSUME NEW t \in Tasks, TaskStep(t) PROVE DepsAcyclic'
  <2>1. Present' = Present
    BY <1>2, StatusStep DEF Present, Statuses, Active, Terminal, TypeOK
  <2> QED BY <1>2, <2>1, StatusStep DEF DepsAcyclic
<1>3. CASE UNCHANGED <<status, deps>>
  BY <1>3 DEF DepsAcyclic, Present
<1> QED BY <1>1, <1>2, <1>3
        DEF Next, Ratify, AddNote, CompleteReconcile, vars, planFields

LEMMA EmptyIsStuck ==
  TypeOK /\ PlanClosed /\ DepsAcyclic => EmptyQueueIsStuck
<1> SUFFICES ASSUME TypeOK, PlanClosed, DepsAcyclic, Ratified, Proposed = {},
                    WithStatus(status, {"todo"}) # {},
                    WithStatus(status, {"blocked", "cancelled"}) = {}
             PROVE  FALSE
  BY WholeQueue DEF EmptyQueueIsStuck
<1> DEFINE waiting == WithStatus(status, {"todo"})
<1>1. PICK t \in waiting : deps[t] \cap waiting = {}
  <2>1. waiting \in SUBSET Present
    BY DEF WithStatus, Present
  <2> QED BY <2>1 DEF DepsAcyclic
<1>2. t \in Tasks /\ status[t] = "todo" /\ t \in Present
  BY DEF WithStatus, Present
<1>3. WithStatus(status, Active) = {} /\ ~Admissible(status, t)
  BY WholeQueue
<1>4. Rivals(status, t) = {} /\ Cardinality(Rivals(status, t)) = 0
  BY <1>3, FS_EmptySet DEF Rivals
<1>5. HasRoom(status, t)
  <2>1. scope \in Scopes
    BY <1>2 DEF TypeOK, PlanClosed
  <2> QED BY <1>4, <2>1 DEF HasRoom, Scopes, Limits
<1>6. DepsDone(status, t)
  <2> SUFFICES ASSUME NEW d \in deps[t], status[d] # "done" PROVE FALSE
    BY DEF DepsDone
  <2>1. d \in Present /\ d \notin waiting
    BY <1>1, <1>2 DEF PlanClosed
  <2> QED BY <1>3, <2>1
          DEF Present, WithStatus, TypeOK, Statuses, Active, Terminal
<1> QED BY <1>3, <1>4, <1>5, <1>6 DEF Admissible

\* An empty queue means that only a person can move the scope.
THEOREM EmptyMeansStuck == Spec => []EmptyQueueIsStuck
<1>1. Init => DepsAcyclic
  BY DEF Init, DepsAcyclic, Present
<1> QED BY <1>1, AcyclicStep, EmptyIsStuck, TypeCorrect, PTL DEF Spec

-----------------------------------------------------------------------------
\* A limited queue follows the whole one until it is full; from then on its
\* actions are the first ones of the whole queue.
Follows(limit, q, all) ==
  \/ q = all
  \/ /\ Len(q.actions) >= limit
     /\ Len(q.actions) <= Len(all.actions)
     /\ \A k \in 1 .. Len(q.actions) : q.actions[k] = all.actions[k]

LEMMA QueueFollows ==
  ASSUME TypeOK, PlanClosed, NEW limit \in Nat
  PROVE  \A n \in 0 .. Len(Order) :
           Follows(limit, Queue(limit)[n], Queue(Unlimited)[n])
<1> DEFINE C(n) == Queue(limit)[n]
           A(n) == Queue(Unlimited)[n]
           S == {n \in Nat : n \in 0 .. Len(Order) => Follows(limit, C(n), A(n))}
<1>1. 0 \in S
  BY QueueRecursion DEF Follows
<1>2. ASSUME NEW n \in Nat, n \in S PROVE n + 1 \in S
  <2> SUFFICES ASSUME n + 1 \in 0 .. Len(Order)
               PROVE  Follows(limit, C(n + 1), A(n + 1))
    OBVIOUS
  <2> DEFINE t == Order[n + 1]
  <2>1. /\ n + 1 \in 1 .. Len(Order) /\ n \in 0 .. Len(Order)
        /\ t \in Tasks /\ Len(Order) \in Nat
    BY OrderAssumption
  <2>2. Follows(limit, C(n), A(n))
    BY <1>2, <2>1
  <2>3. C(n) \in Queues /\ A(n) \in Queues
    BY <2>1, QueueSound DEF Sound
  <2>4. /\ C(n + 1) = Visit(limit, C(n), t)
        /\ A(n + 1) = Visit(Unlimited, A(n), t)
    BY <2>1, QueueRecursion
  <2>5. ~(Len(A(n).actions) >= Unlimited)
    <3>1. Accounted(A(n), n)
      BY <2>1, QueueAccounted
    <3> QED BY <2>1, <3>1 DEF Accounted, Unlimited
  <2> HIDE DEF C, A, t
  <2>6. Grown(Unlimited, A(n), t, A(n + 1)) /\ Len(C(n).actions) \in Nat
    <3>1. Len(C(n).actions) \in Nat
      BY <2>3 DEF Queues
    <3> QED BY <2>1, <2>3, <2>4, <3>1, VisitGrows
  <2>7. CASE Len(C(n).actions) >= limit
    <3>1. C(n + 1) = C(n)
      BY <2>4, <2>7 DEF Visit
    <3> QED BY <2>2, <2>6, <2>7, <3>1 DEF Follows, Grown
  <2>8. CASE ~(Len(C(n).actions) >= limit)
    <3>1. C(n) = A(n)
      BY <2>2, <2>8 DEF Follows
    <3>2. C(n + 1) = A(n + 1)
      BY <2>4, <2>5, <2>8, <3>1 DEF Visit
    <3> QED BY <3>2 DEF Follows
  <2> QED BY <2>7, <2>8
<1>3. Nat \subseteq S
  <2> HIDE DEF S
  <2> QED BY <1>1, <1>2, SetInduction
<1> QED BY <1>3

LEMMA UncutIsComplete == TypeOK /\ PlanClosed => UntruncatedIsComplete
<1> DEFINE all == NextActions(Unlimited)
           open == WithStatus(status, {"todo", "blocked"} \cup Active)
<1> SUFFICES ASSUME TypeOK, PlanClosed, Ratified, NEW limit \in 0 .. Unlimited,
                    ~BoundedNext(all, limit).truncated, NEW t \in open
             PROVE  \E i \in ToSet(BoundedNext(all, limit).actions)
                              \cup ToSet(BoundedNext(all, limit).blockers) :
                      i.task = t
  BY DEF UntruncatedIsComplete
<1> DEFINE cut == NextActions(limit)
           m == IF limit < Len(all.blockers) THEN limit ELSE Len(all.blockers)
           shown == SubSeq(all.blockers, 1, m)
<1>1. /\ BoundedNext(all, limit).actions = cut.actions
      /\ BoundedNext(all, limit).blockers = shown
      /\ ~Truncated(all, cut.actions, shown)
  BY DEF BoundedNext
<1>2. limit \in Nat
  BY OrderAssumption DEF Unlimited
<1>3. /\ all.actions \in Seq(Items) /\ all.blockers \in Seq(Items)
      /\ cut.actions \in Seq(Items)
  BY AnswerSound DEF Sound, Queues
<1>4. Names(all, t)
  BY WholeQueue DEF WithStatus, Skipped, Active
<1>5. Follows(limit, cut, all)
  BY <1>2, QueueFollows, OrderAssumption DEF NextActions
<1> HIDE DEF all, cut
<1>6. cut.actions = all.actions
  BY <1>1, <1>3, <1>5 DEF Follows, Truncated
<1>7. shown = all.blockers
  <2>1. m \in Nat /\ m <= Len(all.blockers) /\ Len(shown) = m
    BY <1>2, <1>3
  <2>2. m = Len(all.blockers)
    BY <1>1, <1>3, <2>1 DEF Truncated
  <2> QED BY <1>3, <2>2
<1> QED BY <1>1, <1>4, <1>6, <1>7 DEF Names

\* An answer that does not admit to being cut names every open task.
THEOREM UncutAnswersAreComplete == Spec => []UntruncatedIsComplete
BY UncutIsComplete, TypeCorrect, PTL

-----------------------------------------------------------------------------
(* Domains and the files inside them.                                      *)

Segments == Seq(STRING)

\* The literal prefix: its length, and that it meets no wildcard.
LEMMA LiteralLength ==
  ASSUME NEW d \in Segments
  PROVE  \E k \in 0 .. Len(d) : /\ LiteralPrefix(d) = SubSeq(d, 1, k)
                                /\ \A i \in 1 .. k : d[i] \notin Wildcards
<1> DEFINE literal == {k \in 0 .. Len(d) : \A i \in 1 .. k : d[i] \notin Wildcards}
           gaps == {Len(d) - k : k \in literal}
<1>1. Len(d) \in Nat /\ 0 \in literal /\ literal \subseteq 0 .. Len(d)
  BY DEF Segments
<1>2. \E k \in literal : \A i \in literal : i <= k
  <2> HIDE DEF literal
  <2>1. gaps \in SUBSET Nat /\ gaps # {}
    BY <1>1
  <2>2. PICK g \in gaps : \A h \in gaps : g <= h
    <3> HIDE DEF gaps
    <3> QED BY <2>1, LeastNumber
  <2>3. PICK k \in literal : g = Len(d) - k
    OBVIOUS
  <2>4. ASSUME NEW i \in literal PROVE i <= k
    <3>1. g <= Len(d) - i
      BY <2>2
    <3> QED BY <1>1, <2>3, <3>1
  <2> QED BY <2>4
<1>3. PICK k \in literal : LiteralPrefix(d) = SubSeq(d, 1, k)
  <2> DEFINE k == CHOOSE k \in literal : \A i \in literal : i <= k
  <2>1. k \in literal
    <3> HIDE DEF literal
    <3> QED BY <1>2
  <2>2. LiteralPrefix(d) = SubSeq(d, 1, k)
    BY DEF LiteralPrefix
  <2> HIDE DEF literal, k
  <2> QED BY <2>1, <2>2
<1> QED BY <1>3

\* f begins with the first k segments of d.
Begins(f, d, k) == k <= Len(f) /\ \A i \in 1 .. k : f[i] = d[i]

\* A file inside a domain begins with the domain's literal prefix.
LEMMA MatchBegins ==
  ASSUME NEW f \in Segments, NEW d \in Segments, MatchesDomain(f, d),
         NEW k \in 0 .. Len(d), \A i \in 1 .. k : d[i] \notin Wildcards
  PROVE  Begins(f, d, k)
<1> USE DEF Segments
<1>1. CASE Len(d) > 1 /\ Last(d) = "**"
  <2>1. IsPrefix(Front(d), f)
    BY <1>1 DEF MatchesDomain
  <2>2. k <= Len(d) - 1
    <3>1. d[Len(d)] \in Wildcards
      BY <1>1 DEF Last, Wildcards
    <3>2. Len(d) \in Nat /\ (k = Len(d) => Len(d) \in 1 .. k)
      BY <1>1
    <3> QED BY <3>1, <3>2
  <2>3. /\ Len(Front(d)) = Len(d) - 1
        /\ \A i \in 1 .. (Len(d) - 1) : Front(d)[i] = d[i]
    BY <1>1 DEF Front
  <2>4. /\ Len(d) - 1 <= Len(f)
        /\ \A i \in 1 .. (Len(d) - 1) : f[i] = Front(d)[i]
    BY <2>1, <2>3 DEF IsPrefix
  <2> QED BY <2>2, <2>3, <2>4 DEF Begins
<1>2. CASE Fnmatch(f, d)
  <2>1. PICK cut \in [0 .. Len(d) -> 0 .. Len(f)] :
          /\ cut[0] = 0
          /\ \A j \in 1 .. Len(d) :
               IF d[j] \in Wildcards THEN cut[j - 1] < cut[j]
               ELSE cut[j] = cut[j - 1] + 1 /\ f[cut[j]] = d[j]
    BY <1>2 DEF Fnmatch
  <2> DEFINE S == {j \in Nat : j \in 0 .. k => cut[j] = j}
  <2>2. \A j \in Nat : j \in S => j + 1 \in S
    <3> SUFFICES ASSUME NEW j \in Nat, j \in S, j + 1 \in 0 .. k
                 PROVE  cut[j + 1] = j + 1
      OBVIOUS
    <3>1. cut[j] = j /\ j + 1 \in 1 .. Len(d) /\ d[j + 1] \notin Wildcards
      OBVIOUS
    <3> QED BY <2>1, <3>1
  <2>3. Nat \subseteq S
    <3>1. 0 \in S
      BY <2>1
    <3> HIDE DEF S
    <3> QED BY <2>2, <3>1, SetInduction
  <2>4. \A j \in 0 .. k : cut[j] = j
    BY <2>3
  <2>5. k <= Len(f)
    BY <2>4
  <2>6. ASSUME NEW i \in 1 .. k PROVE f[i] = d[i]
    <3>1. d[i] \notin Wildcards /\ i \in 1 .. Len(d) /\ cut[i] = i
      BY <2>4
    <3> QED BY <2>1, <3>1
  <2> QED BY <2>5, <2>6 DEF Begins
<1>3. CASE f = d
  BY <1>3 DEF Begins
<1> QED BY <1>1, <1>2, <1>3 DEF MatchesDomain

\* domains_overlap is never too lax: two domains that a file falls inside
\* have comparable literal prefixes, whatever their wildcards.
LEMMA SharedFileOverlaps ==
  ASSUME NEW f \in Segments, NEW d \in Segments, NEW e \in Segments,
         MatchesDomain(f, d), MatchesDomain(f, e)
  PROVE  DomainsOverlap(d, e)
<1>1. PICK k \in 0 .. Len(d) : /\ LiteralPrefix(d) = SubSeq(d, 1, k)
                               /\ \A i \in 1 .. k : d[i] \notin Wildcards
  BY LiteralLength
<1>2. PICK m \in 0 .. Len(e) : /\ LiteralPrefix(e) = SubSeq(e, 1, m)
                               /\ \A i \in 1 .. m : e[i] \notin Wildcards
  BY LiteralLength
<1>3. Begins(f, d, k) /\ Begins(f, e, m)
  BY <1>1, <1>2, MatchBegins
<1> DEFINE p == SubSeq(d, 1, k)
           q == SubSeq(e, 1, m)
<1>4. /\ p \in Seq(STRING) /\ Len(p) = k
      /\ \A i \in 1 .. k : p[i] = f[i]
      /\ q \in Seq(STRING) /\ Len(q) = m
      /\ \A i \in 1 .. m : q[i] = f[i]
  BY <1>3 DEF Segments, Begins
<1> HIDE DEF p, q
<1>5. IsPrefix(p, q) \/ IsPrefix(q, p)
  BY <1>4 DEF IsPrefix
<1> QED BY <1>1, <1>2, <1>5 DEF DomainsOverlap, Covers, p, q

\* What is apart by overlap of domains has no file in common.
LEMMA ExclusiveFiles ==
  TypeOK /\ DomainExclusion => OneWriterPerFile
<1> SUFFICES ASSUME TypeOK, DomainExclusion PROVE OneWriterPerFile
  OBVIOUS
<1>1. ASSUME NEW d, NEW e, <<d, e>> \in Shared
      PROVE  d \in AllGlobs /\ e \in AllGlobs /\ DomainsOverlap(d, e)
  <2>1. PICK f \in Files : d \in Covering(f) /\ e \in Covering(f)
    BY <1>1 DEF Shared
  <2>2. /\ d \in AllGlobs /\ e \in AllGlobs
        /\ MatchesDomain(f, d) /\ MatchesDomain(f, e)
    BY <2>1 DEF Covering
  <2>3. f \in Segments /\ d \in Segments /\ e \in Segments
    BY <2>2, PathsAssumption DEF AllGlobs, Segments
  <2> QED BY <2>1, <2>2, <2>3, SharedFileOverlaps
<1>2. Missed = {}
  <2>1. ASSUME NEW p \in Shared PROVE DomainsOverlap(p[1], p[2])
    <3>1. p = <<p[1], p[2]>>
      BY DEF Shared
    <3> QED BY <1>1, <3>1
  <2> QED BY <2>1 DEF Missed
<1>3. ASSUME NEW t \in WithStatus(status, Active),
             NEW u \in WithStatus(status, Active), t # u,
             NEW d \in domains[t], NEW e \in domains[u]
      PROVE  <<d, e>> \notin Shared
  <2>1. d \in Domains /\ e \in Domains
    BY DEF TypeOK, WithStatus
  <2>2. <<d, e>> \notin Overlap
    BY <1>3 DEF DomainExclusion, Collide
  <2> QED BY <1>1, <2>1, <2>2, OverlapMeaning
<1> QED BY <1>2, <1>3 DEF OneWriterPerFile

\* No file has two writers.
THEOREM FilesAreExclusive == Spec => []OneWriterPerFile
BY ExclusiveFiles, DomainsExclusive, TypeCorrect, PTL
=============================================================================
