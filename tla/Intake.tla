------------------------------- MODULE Intake -------------------------------
(***************************************************************************)
(* What a scope's approvals are bound to.  The constitution is ratified,   *)
(* the epic configured, its spec, research and design agreed and the plan  *)
(* approved; each approval records the bytes it was given for, recording   *)
(* one again clears those that depend on it, and every governed verb first *)
(* compares records with files.  A started task gets a copy of its brief   *)
(* and the digest of the brief: intake.py, handover.py, the drift checks   *)
(* of config.py, plan.py and the gate in cli.main.                         *)
(*                                                                         *)
(* Files are edited by people at any moment and carry no revision.  A verb *)
(* reads state and files before the lock and commits under it.  Verbs      *)
(* whose outcome depends on nothing they read before the lock but files    *)
(* they alone sign are one step here (signing and then editing looks the   *)
(* same as editing before signing what was read); plan apply, start,       *)
(* rebind and the evidence verbs are not.                                  *)
(*                                                                         *)
(* Abstracted: one task; a file is a version number; a digest is what it   *)
(* digests; the overlay sets one leaf, which the global configuration      *)
(* sets too; plans differ in what a later plan may always change           *)
(* (TaskEngine has the rest); submit, review, verification and merge are   *)
(* one verb.                                                               *)
(***************************************************************************)
EXTENDS Naturals

CONSTANTS
  MaxVerbs,   \* bound: verbs of several steps under way at once
  Versions,   \* what a file can hold
  Plans,
  None, Skipped,  \* a missing file, a record not made; research skipped
  Pinned,     \* verbs that are always given --expected-revision
  MaxSurprises,   \* bound: written files changed, and verbs begun during others
  Edited          \* bound: the files that are changed once they are written

Rungs == {"spec", "research", "design"}
Artifacts == Rungs \cup {"overlay", "brief"}        \* below epics/<slug>/
Files == Artifacts \cup {"config", "constitution"}
Open == 0                   \* a config.json with open questions
Verbs == {"apply", "start", "rebind", "merge"}
Statuses == {"todo", "active", "done"}
Procs == 1..MaxVerbs

ASSUME IntakeAssumption ==
  /\ MaxVerbs \in Nat \ {0} /\ MaxSurprises \in Nat /\ Pinned \subseteq Verbs
  /\ Versions \subseteq Nat \ {Open} /\ 1 \in Versions /\ None # Skipped
  /\ {None, Skipped} \cap (Nat \cup Plans \cup Rungs \cup Statuses) = {}
  /\ None \notin [config : Nat, constitution : Versions]
  /\ None \notin [plan : Plans, brief : Versions, asked : Plans]

VARIABLES
  file,         \* what each file holds
  ratified,     \* constitution.ratification: [config, constitution]
  epic,         \* an epic is active
  configure,    \* intake.configure: the effective configuration approved
  rung,         \* intake.spec, .research, .design: the bytes approved
  plan,         \* the scope and tasks applied
  approval,     \* scope.approval: [plan, brief] hashed, and what was asked
  status, inputs, snapshot,     \* of the task
  cmd,          \* each process: [at, plan, copy, digest, fresh]
  surprises, calm

signed == <<ratified, epic, configure, rung>>
scope == <<plan, approval>>
task == <<status, inputs, snapshot>>
state == <<signed, scope, task>>
vars == <<file, state, cmd, surprises>>

Idle == [at |-> "idle", plan |-> None, copy |-> None, digest |-> None,
         fresh |-> FALSE]

Init ==
  /\ file = [f \in Files |-> CASE f = "config" -> Open
                               [] f = "constitution" -> 1 [] OTHER -> None]
  /\ ratified = None /\ epic = FALSE /\ configure = None
  /\ rung = [r \in Rungs |-> None]
  /\ plan = None /\ approval = None
  /\ status = None /\ inputs = None /\ snapshot = None
  /\ cmd = [p \in Procs |-> Idle] /\ surprises = 0 /\ calm = FALSE

-----------------------------------------------------------------------------
(* Drift, and the gate of every governed verb.                             *)

\* config.load_layers: the overlay's leaf over the global one.
Effective == IF file["overlay"] = None THEN file["config"] ELSE file["overlay"]

Governance == [config |-> file["config"], constitution |-> file["constitution"]]
GovernanceDrift == ratified # None /\ ratified # Governance
EpicConfigDrift == configure # None /\ configure # Effective

Differs(r) == rung[r] \notin {None, Skipped, file[r]}
\* intake.intake_drift stops at the first rung that has no record.
DriftedRung ==
  IF Differs("spec") THEN "spec"
  ELSE IF rung["spec"] = None THEN None
  ELSE IF Differs("research") THEN "research"
  ELSE IF rung["research"] = None THEN None
  ELSE IF Differs("design") THEN "design" ELSE None

\* intake_status.nextRung, and schema.intake_complete.
NextRung ==
  IF rung["spec"] = None THEN "spec"
  ELSE IF rung["research"] = None THEN "research"
  ELSE IF rung["design"] = None THEN "design" ELSE None
Complete == \A r \in Rungs : rung[r] # None

\* plan_composite refuses a missing brief.
PlanDrift ==
  approval = None \/ approval.plan # plan \/ approval.brief # file["brief"]

\* main: require_fresh_governance, _epic_config, _intake, in this order; the
\* refusal names the verb that lifts it.
Gate ==
  IF GovernanceDrift THEN "amend"
  ELSE IF EpicConfigDrift THEN "configure"
  ELSE IF plan # None /\ DriftedRung # None THEN DriftedRung
  ELSE IF plan # None /\ PlanDrift THEN "apply" ELSE "open"

\* handover.inputs_status, for the active statuses.
InputsChanged == status = "active" /\ inputs \notin {None, file["brief"]}
GateOnly == Gate = "open"           \* Mutant: the inputs are not compared
TaskGate == Gate = "open" /\ ~InputsChanged

-----------------------------------------------------------------------------
(* Commits.  One outdates the revision that every verb under way was given.*)

Outdate == [p \in Procs |-> [cmd[p] EXCEPT !.fresh = FALSE]]
Commit == cmd' = Outdate /\ UNCHANGED surprises
Goto(p, c) == cmd' = [Outdate EXCEPT ![p] = c] /\ UNCHANGED surprises
AnyRevision(p, verb) == TRUE        \* Mutant: --expected-revision is ignored
Revision(p, verb) == verb \in Pinned => cmd[p].fresh

Surprise == surprises < MaxSurprises /\ surprises' = surprises + 1
Enter(p, verb, pl) ==
  /\ cmd[p] = Idle
  /\ cmd' = [cmd EXCEPT ![p] = [Idle EXCEPT !.at = verb, !.plan = pl, !.fresh = TRUE]]
  /\ IF \A q \in Procs : cmd[q] = Idle THEN p = 1 /\ UNCHANGED surprises
     ELSE Surprise
  /\ UNCHANGED <<file, state>>
At(p, step) == cmd[p].at = step

-----------------------------------------------------------------------------
(* Verbs that are one step.                                                *)

\* constitution ratify and amend: check_ratifiable and
\* governance_fingerprint; an amendment must change something, and clears
\* the plan's approval.
Ratifiable == file["config"] # Open /\ file["constitution"] # None
CanRatify == ratified = None /\ Ratifiable
CanAmend == Ratifiable /\ GovernanceDrift

Ratify ==
  /\ CanRatify
  /\ ratified' = Governance
  /\ Commit /\ UNCHANGED <<file, epic, configure, rung, scope, task>>
Amend ==
  /\ CanAmend
  /\ ratified' = Governance /\ approval' = None
  /\ Commit /\ UNCHANGED <<file, epic, configure, rung, plan, task>>

\* epic new is governed, and asks for no ratification.
CanEpicNew == ~epic /\ Gate = "open"
EpicNew ==
  /\ CanEpicNew
  /\ epic' = TRUE
  /\ Commit /\ UNCHANGED <<file, ratified, configure, rung, scope, task>>

\* _require_ladder_legal.
LadderLegal == ratified # None /\ epic

\* --approved-by signs the overlay as it is, --use-defaults empties it.
Configure(defaults) ==
  /\ LadderLegal
  /\ file' = [file EXCEPT !["overlay"] = IF defaults THEN None ELSE @]
  /\ configure' = IF defaults THEN file["config"] ELSE Effective
  /\ approval' = None
  /\ Commit /\ UNCHANGED <<ratified, epic, rung, plan, task>>

Requires(r) ==
  CASE r = "spec" -> configure # None
    [] r = "research" -> rung["spec"] # None
    [] r = "design" -> rung["research"] # None
Later(r) ==
  CASE r = "spec" -> {"research", "design"} [] r = "research" -> {"design"}
    [] r = "design" -> {}

\* record_spec, record_research, record_design, all of it under the lock.
CanRecord(r) == LadderLegal /\ Requires(r) /\ file[r] # None
Record(r, bytes) ==
  /\ rung' = [q \in Rungs |-> IF q = r THEN bytes
                              ELSE IF q \in Later(r) THEN None ELSE rung[q]]
  /\ approval' = None
  /\ Commit /\ UNCHANGED <<file, ratified, epic, configure, plan, task>>
RecordRung(r) == CanRecord(r) /\ Record(r, file[r])
SkipResearch ==
  /\ LadderLegal /\ Requires("research")
  /\ Record("research", Skipped)

\* task.blocked and task.unblocked in one step: all that matters here is that
\* the task can be started anew.
GiveBack ==
  /\ status = "active" /\ status' = "todo"
  /\ Commit /\ UNCHANGED <<file, signed, scope, inputs, snapshot>>

-----------------------------------------------------------------------------
(* plan apply --approved-by: apply_plan looks at the ladder and at the diff *)
(* before the lock.                                                        *)

BeginApply(p, pl) ==
  /\ Complete /\ DriftedRung = None
  /\ Enter(p, IF pl = plan THEN "restamp" ELSE "apply", pl)

\* The composite is of the plan in the state: the new one or, for a plan
\* that was found unchanged, whatever is there by now.
Stamp(p, pl) ==
  /\ Revision(p, "apply") /\ file["brief"] # None
  /\ approval' = [plan |-> pl, brief |-> file["brief"], asked |-> cmd[p].plan]
CommitApply(p) ==
  /\ At(p, "apply")
  /\ plan' = cmd[p].plan /\ Stamp(p, cmd[p].plan)
  /\ status' = IF status = None THEN "todo" ELSE status
  /\ Goto(p, Idle) /\ UNCHANGED <<file, signed, inputs, snapshot>>
CommitRestamp(p) ==
  /\ At(p, "restamp")
  /\ Stamp(p, plan)
  /\ Goto(p, Idle) /\ UNCHANGED <<file, signed, plan, task>>

-----------------------------------------------------------------------------
(* start: the gate, task.started, a copy of the brief, its digest, and a   *)
(* record of both.                                                         *)

BeginStart(p) ==
  /\ status \in {"todo", "active"} /\ Gate = "open"
  /\ Enter(p, "start", None)
\* task.started, or a reattach, which goes on only when no snapshot is
\* recorded: the retry of a start that was killed.
Started(p) ==
  /\ At(p, "start") /\ Revision(p, "start")
  /\ status \in {"todo", "active"} /\ status' = "active"
  /\ Goto(p, IF status = "todo" \/ snapshot = None
             THEN [Idle EXCEPT !.at = "copy"] ELSE Idle)
  /\ UNCHANGED <<file, signed, scope, inputs, snapshot>>
\* materialize_attempt: shutil.copyfile, then artifact_sha256 of the source.
Copy(p) ==
  /\ At(p, "copy") /\ file["brief"] # None
  /\ cmd' = [cmd EXCEPT ![p].at = "hash", ![p].copy = file["brief"]]
  /\ UNCHANGED <<file, state, surprises>>
Hash(p) ==
  /\ At(p, "hash") /\ file["brief"] # None
  /\ cmd' = [cmd EXCEPT ![p].at = "attempt", ![p].digest = file["brief"]]
  /\ UNCHANGED <<file, state, surprises>>
RecordAttempt(p) ==
  /\ At(p, "attempt")
  /\ snapshot' = cmd[p].copy /\ inputs' = cmd[p].digest
  /\ Goto(p, Idle) /\ UNCHANGED <<file, signed, scope, status>>

-----------------------------------------------------------------------------
(* rebind, and the verbs that compare the task's inputs first.             *)

Rebindable == inputs \notin {None, file["brief"]} /\ file["brief"] # None
BeginRebind(p) ==
  /\ status # None /\ Gate = "open"
  /\ Enter(p, "rebind", None)
CommitRebind(p) ==
  /\ At(p, "rebind") /\ Revision(p, "rebind") /\ Rebindable
  /\ inputs' = file["brief"]
  /\ Goto(p, Idle) /\ UNCHANGED <<file, signed, scope, status, snapshot>>

BeginMerge(p) ==
  /\ status = "active" /\ TaskGate
  /\ Enter(p, "merge", None)
CommitMerge(p) ==
  /\ At(p, "merge") /\ Revision(p, "merge")
  /\ status = "active" /\ status' = "done"
  /\ Goto(p, Idle) /\ UNCHANGED <<file, signed, scope, inputs, snapshot>>

Proceed(p) ==
  \/ CommitApply(p) \/ CommitRestamp(p)
  \/ Started(p) \/ Copy(p) \/ Hash(p) \/ RecordAttempt(p)
  \/ CommitRebind(p) \/ CommitMerge(p)
\* The process is killed, or its verb refused.
Leave(p) ==
  /\ cmd[p] # Idle /\ cmd' = [cmd EXCEPT ![p] = Idle]
  /\ UNCHANGED <<file, state, surprises>>

-----------------------------------------------------------------------------
(* People and files.  config.json is never deleted.                        *)

CanHold(f) == IF f = "config" THEN Versions ELSE Versions \cup {None}
Reachable(f) == f \in Artifacts => epic
\* A file that is not there is written, open questions are answered.
Write(f) ==
  /\ Reachable(f) /\ f # "overlay" /\ file[f] \in {None, Open}
  /\ file' = [file EXCEPT ![f] = 1]
  /\ UNCHANGED <<state, cmd, surprises>>
\* A file is changed or deleted, by hand or by config set.
Edit(f) ==
  /\ f \in Edited /\ Reachable(f) /\ (file[f] \notin {None, Open} \/ f = "overlay")
  /\ Surprise
  /\ \E v \in CanHold(f) \ {file[f]} : file' = [file EXCEPT ![f] = v]
  /\ UNCHANGED <<state, cmd>>

-----------------------------------------------------------------------------
(* What next answers.                                                      *)

LadderRung == IF DriftedRung # None THEN DriftedRung ELSE NextRung

\* setup.setup_next_actions.
Unconfigured ==     \* Mutant: configure_epic is never offered
  IF file["config"] = Open THEN "resolve"
  ELSE IF ratified = None THEN "ratify"
  ELSE IF ~epic /\ rung["spec"] = None THEN "create_epic"
  ELSE IF LadderRung # None THEN LadderRung ELSE "apply"
SetupAction ==
  IF file["config"] = Open THEN "resolve"
  ELSE IF ratified = None THEN "ratify"
  ELSE IF ~epic /\ rung["spec"] = None THEN "create_epic"
  ELSE IF configure = None THEN "configure"
  ELSE IF LadderRung # None THEN LadderRung ELSE "apply"

\* engine.next_actions, with _apply_input_binding over it.
TaskAction ==
  IF InputsChanged THEN "rebind"
  ELSE IF status = "todo" THEN "start"
  ELSE IF status = "active" THEN "merge" ELSE "none"

\* _apply_execution_drift: when an approval is missing because the ladder
\* is, the ladder is offered; any other drift empties the actions.
NeverWalked == FALSE        \* Mutant: the missing approval is a blocker
Walked == Gate = "apply" /\ ~Complete
Blocked == plan # None /\ Gate # "open" /\ ~Walked
Actions ==
  CASE plan = None -> {SetupAction}
    [] plan # None /\ Walked -> {LadderRung} \cup ({TaskAction} \cap {"rebind"})
    [] plan # None /\ ~Walked -> {TaskAction}

\* A verb run now and alone is not refused.
Accepted(verb) ==
  CASE verb = "resolve" -> file["config"] = Open
    [] verb = "ratify" -> CanRatify
    [] verb = "create_epic" -> CanEpicNew
    [] verb = "configure" -> LadderLegal
    [] verb \in Rungs -> CanRecord(verb)
    [] verb = "apply" -> Complete /\ DriftedRung = None /\ file["brief"] # None
    [] verb = "start" -> status = "todo" /\ Gate = "open"
    [] verb = "rebind" -> Gate = "open" /\ Rebindable
    [] verb = "merge" -> status = "active" /\ TaskGate
    [] OTHER -> TRUE

\* Whoever follows next runs an action or what it is blocked on; when a
\* governed verb is refused, what the refusal names.
Governed == {"create_epic", "start", "rebind", "merge"}
Advised(verb) ==
  IF Blocked \/ (Actions \subseteq Governed /\ Gate # "open")
  THEN verb = Gate ELSE verb \in Actions
Follow(p) ==
  \/ Advised("ratify") /\ Ratify
  \/ Advised("amend") /\ Amend
  \/ Advised("create_epic") /\ EpicNew
  \/ Advised("configure") /\ Configure(FALSE)
  \/ \E r \in Rungs : Advised(r) /\ RecordRung(r)
  \/ /\ Advised("apply")
     /\ \E pl \in Plans : (plan # None => pl = plan) /\ BeginApply(p, pl)
  \/ Advised("start") /\ BeginStart(p)
  \/ Advised("rebind") /\ BeginRebind(p)
  \/ Advised("merge") /\ BeginMerge(p)

\* The guards of what a verb under way does next.
Allowed(p) ==
  CASE cmd[p].at \in {"apply", "restamp"} ->
         Revision(p, "apply") /\ file["brief"] # None
    [] At(p, "start") -> Revision(p, "start") /\ status \in {"todo", "active"}
    [] cmd[p].at \in {"copy", "hash"} -> file["brief"] # None
    [] At(p, "rebind") -> Revision(p, "rebind") /\ Rebindable
    [] At(p, "merge") -> Revision(p, "merge") /\ status = "active"
    [] OTHER -> TRUE

-----------------------------------------------------------------------------
(* Anything, until people settle down to what next calls for.              *)

Anything ==
  \/ Ratify \/ Amend \/ EpicNew \/ \E d \in BOOLEAN : Configure(d)
  \/ \E r \in Rungs : RecordRung(r)
  \/ SkipResearch \/ GiveBack
  \/ \E p \in Procs : \/ \E pl \in Plans : BeginApply(p, pl)
                      \/ BeginStart(p) \/ BeginRebind(p) \/ BeginMerge(p)
                      \/ Proceed(p) \/ Leave(p)
  \/ \E f \in Files : Write(f) \/ Edit(f)
Settle ==
  /\ ~calm /\ calm' = TRUE /\ \A p \in Procs : cmd[p] = Idle
  /\ UNCHANGED vars

Followed ==
  /\ calm /\ UNCHANGED calm
  /\ \E p \in Procs : Follow(p) \/ Proceed(p) \/ (~Allowed(p) /\ Leave(p))
Authored == calm /\ UNCHANGED calm /\ \E f \in Files : Write(f)

Next == (~calm /\ UNCHANGED calm /\ Anything) \/ Settle \/ Followed \/ Authored

Fairness == WF_<<vars, calm>>(Followed) /\ WF_<<vars, calm>>(Authored)
Spec == Init /\ [][Next]_<<vars, calm>> /\ Fairness

-----------------------------------------------------------------------------
(* Properties.                                                             *)

\* A rung is on record only above the rungs it was agreed on
\* (record_spec, record_research, record_design and what they clear).
LadderIsOrdered ==
  /\ rung["design"] # None => rung["research"] # None
  /\ rung["research"] # None => rung["spec"] # None
  /\ rung["spec"] # None => configure # None

\* Once a plan is applied, the gate opens only when all of it was approved
\* as it now is: constitution, configuration, spec, research, design, and
\* the plan with its brief, the plan being the one its approver was shown.
\* require_fresh_intake never looks for a missing rung, it relies on this.
OpenGateFollowsLadder ==
  plan # None /\ Gate = "open" =>
    /\ ratified = Governance /\ configure = Effective
    /\ \A r \in Rungs : rung[r] = file[r] \/ rung[r] = Skipped
    /\ approval = [plan |-> plan, brief |-> file["brief"], asked |-> plan]

\* A task is merged under a complete ladder and an approved plan, and, when
\* it has recorded inputs, for the brief that was approved: merge's gate
\* looks before the lock, and the revision holds what it saw.
MergedAsApproved ==
  [][status # "done" /\ status' = "done" =>
       /\ Complete /\ approval # None
       /\ inputs \in {None, approval.brief}]_vars

\* What next offers is not refused, once the file it signs is written.  Two
\* offers are left out: epic new, which next makes without looking for
\* governance drift, and rebind beside a rung.
Signs(verb) ==
  CASE verb = "ratify" -> {"constitution"} [] verb \in Rungs -> {verb}
    [] verb = "apply" -> {"brief"} [] OTHER -> {}
AdviceIsAccepted ==
  ~Blocked => \A verb \in Actions :
    \/ Accepted(verb)
    \/ \E f \in Signs(verb) : file[f] = None
    \/ verb = "create_epic" /\ GovernanceDrift
    \/ verb = "rebind" /\ Walked

\* Whatever was edited, cleared or abandoned: when people do what next calls
\* for and nothing else, the plan is approved again and its task merged.
AdviceLeadsHome == calm ~> status = "done"
=============================================================================
