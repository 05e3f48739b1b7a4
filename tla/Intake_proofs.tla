--------------------------- MODULE Intake_proofs ---------------------------
(* Proofs about Intake: the ladder is ordered; the gate is open only over    *)
(* what was approved, if plan apply is given its revision; only the brief    *)
(* that was approved is merged, if merge is given its own as well; and what  *)
(* next offers is accepted.                                                  *)
EXTENDS Intake, TLAPS

Maybe(S) == S \cup {None}
Cmds == [at : {"idle", "apply", "restamp", "start", "copy", "hash", "attempt",
               "rebind", "merge"},
         plan : Maybe(Plans), copy : Maybe(Versions), digest : Maybe(Versions),
         fresh : BOOLEAN]

\* What the variables hold.
TypeOK ==
  /\ file \in [Files -> Versions \cup {None, Open}]
  /\ file["config"] # None
  /\ \A f \in Files \ {"config"} : file[f] # Open
  /\ ratified \in Maybe([config : Versions, constitution : Versions])
  /\ configure \in Maybe(Versions \cup {Open})
  /\ rung \in [Rungs -> Versions \cup {None, Skipped}]
  /\ plan \in Maybe(Plans)
  /\ approval \in Maybe([plan : Plans, brief : Versions, asked : Plans])
  /\ status \in Maybe(Statuses)
  /\ inputs \in Maybe(Versions) /\ snapshot \in Maybe(Versions)
  /\ cmd \in [Procs -> Cmds]
  /\ \A p \in Procs :
       /\ cmd[p].at \in {"apply", "restamp"} => cmd[p].plan \in Plans
       /\ cmd[p].at = "restamp" => plan # None

\* If plan apply is given its revision, an approval stands on a complete
\* ladder, for the plan its approver was shown, which is the plan there is.
Approved ==
  "apply" \in Pinned /\ approval # None =>
    Complete /\ approval.plan = plan /\ approval.asked = plan

\* The epic is configured under a constitution, a task comes from a plan.
Founded ==
  /\ configure # None => ratified # None
  /\ status # None => plan # None

\* What a verb saw before the lock holds as long as its revision is current.
Seen(p) ==
  cmd[p].fresh =>
    /\ cmd[p].at \in {"apply", "restamp"} => Complete
    /\ cmd[p].at = "restamp" => cmd[p].plan = plan
    /\ cmd[p].at = "merge" /\ "apply" \in Pinned =>
         /\ Complete /\ approval # None
         /\ inputs \in {None, approval.brief}

IntakeInv ==
  TypeOK /\ LadderIsOrdered /\ Approved /\ Founded /\ \A p \in Procs : Seen(p)

LEMMA InvInit == Init => IntakeInv
<1> SUFFICES ASSUME Init PROVE IntakeInv
  OBVIOUS
<1> USE IntakeAssumption DEF Init
<1>1. TypeOK
  BY DEF TypeOK, Maybe, Cmds, Idle, Files, Artifacts, Rungs, Open
<1>2. LadderIsOrdered
  BY DEF LadderIsOrdered, Rungs
<1>3. Approved /\ Founded /\ \A p \in Procs : Seen(p)
  BY DEF Approved, Founded, Seen, Idle
<1> QED
  BY <1>1, <1>2, <1>3 DEF IntakeInv

\* A step that changes no signature, no plan, no approval and no inputs keeps
\* the invariant when the verbs that saw something keep what they hold.
LEMMA Aside ==
  ASSUME IntakeInv, TypeOK',
         UNCHANGED <<ratified, configure, rung, plan, approval, inputs>>,
         status' = status \/ status # None,
         \A p \in Procs :
           cmd'[p].fresh /\ cmd'[p].at \in {"apply", "restamp", "merge"} =>
             cmd'[p] = cmd[p]
  PROVE  IntakeInv'
BY DEF IntakeInv, LadderIsOrdered, Approved, Founded, Seen, Complete

\* A step that outdates every other verb keeps what the others saw.
LEMMA Outdated ==
  ASSUME IntakeInv, NEW p \in Procs, NEW c,
         cmd' = Outdate \/ (cmd' = [Outdate EXCEPT ![p] = c] /\ ~c.fresh)
  PROVE  \A q \in Procs : ~cmd'[q].fresh /\ Seen(q)'
BY DEF IntakeInv, TypeOK, Cmds, Outdate, Seen

-----------------------------------------------------------------------------
(* The verbs that are one step.                                            *)

LEMMA OutdateType ==
  ASSUME TypeOK
  PROVE  /\ Outdate \in [Procs -> Cmds]
         /\ \A p \in Procs : /\ Outdate[p].at = cmd[p].at
                              /\ Outdate[p].plan = cmd[p].plan
                              /\ ~Outdate[p].fresh
BY DEF TypeOK, Cmds, Outdate

LEMMA SignedStep ==
  ASSUME IntakeInv,
         \/ Ratify \/ Amend \/ EpicNew \/ (\E d \in BOOLEAN : Configure(d))
         \/ (\E r \in Rungs : RecordRung(r)) \/ SkipResearch
  PROVE  IntakeInv'
<1> USE IntakeAssumption
<1>1. Outdate \in [Procs -> Cmds] /\ cmd' = Outdate
  BY OutdateType DEF IntakeInv, Ratify, Amend, EpicNew, Configure, RecordRung,
     SkipResearch, Record, Commit
<1>2. \A q \in Procs : Seen(q)'
  BY <1>1, OutdateType DEF IntakeInv, Seen
<1>3. \A q \in Procs : cmd'[q].at = cmd[q].at /\ cmd'[q].plan = cmd[q].plan
  BY <1>1, OutdateType DEF IntakeInv
<1>a. file["config"] \in Versions \cup {Open} /\ Effective \in Versions \cup {Open}
  BY DEF Effective, IntakeInv, TypeOK, Files, Artifacts, Open
<1>b. Ratifiable => Governance \in [config : Versions, constitution : Versions]
  <2> SUFFICES ASSUME Ratifiable
               PROVE  file["config"] \in Versions /\ file["constitution"] \in Versions
    BY DEF Governance
  <2> QED
    BY DEF Ratifiable, IntakeInv, TypeOK, Files, Artifacts
<1>c. None \notin [config : Versions, constitution : Versions]
  OBVIOUS
<1>4. CASE Ratify
  <2>1. ratified' \in [config : Versions, constitution : Versions]
    BY <1>4, <1>b DEF Ratify, CanRatify
  <2> QED
    BY <1>1, <1>2, <1>3, <1>c, <2>1, <1>4 DEF Ratify, IntakeInv, TypeOK,
       LadderIsOrdered, Approved, Founded, Complete, scope, task, Maybe
<1>5. CASE Amend
  <2>1. ratified' \in [config : Versions, constitution : Versions]
    BY <1>5, <1>b DEF Amend, CanAmend
  <2> QED
    BY <1>1, <1>2, <1>3, <1>c, <2>1, <1>5 DEF Amend, IntakeInv, TypeOK,
       LadderIsOrdered, Approved, Founded, task, Maybe
<1>6. CASE EpicNew
  BY <1>1, <1>2, <1>3, <1>6 DEF EpicNew, IntakeInv, TypeOK, LadderIsOrdered, Approved,
     Founded, Complete, scope, task
<1>7. CASE \E d \in BOOLEAN : Configure(d)
  <2>1. PICK d \in BOOLEAN : Configure(d)
    BY <1>7
  <2>2. configure' \in Versions \cup {Open} /\ configure' # None
    BY <2>1, <1>a DEF Configure, Open
  <2>3. /\ file' \in [Files -> Versions \cup {None, Open}]
        /\ file'["config"] # None
        /\ \A f \in Files \ {"config"} : file'[f] # Open
    BY <2>1 DEF Configure, IntakeInv, TypeOK, Files, Artifacts, Open
  <2> QED
    BY <1>1, <1>2, <1>3, <2>1, <2>2, <2>3 DEF Configure, LadderLegal, IntakeInv, TypeOK,
       LadderIsOrdered, Approved, Founded, task, Maybe
<1>8. ASSUME NEW r \in Rungs, NEW b \in Versions \cup {Skipped}, Requires(r),
             Record(r, b)
      PROVE  IntakeInv'
  <2>1. /\ rung' \in [Rungs -> Versions \cup {None, Skipped}] /\ rung'[r] # None
        /\ \A q \in Rungs : q # r => rung'[q] = rung[q] \/ rung'[q] = None
        /\ \A q \in Later(r) : rung'[q] = None
        /\ \A q \in Rungs \ (Later(r) \cup {r}) : rung'[q] = rung[q]
    BY <1>8 DEF Record, Later, Rungs, IntakeInv, TypeOK
  <2>2. LadderIsOrdered'
    <3>1. CASE r = "spec"
      BY <1>8, <2>1, <3>1 DEF Record, Requires, Later, Rungs, LadderIsOrdered
    <3>2. CASE r = "research"
      BY <1>8, <2>1, <3>2 DEF Record, Requires, Later, Rungs, IntakeInv, LadderIsOrdered
    <3>3. CASE r = "design"
      BY <1>8, <2>1, <3>3 DEF Record, Requires, Later, Rungs, IntakeInv, LadderIsOrdered
    <3> QED
      BY <3>1, <3>2, <3>3 DEF Rungs
  <2>3. TypeOK'
    BY <1>1, <1>3, <1>8, <2>1 DEF Record, IntakeInv, TypeOK, task, Maybe
  <2>4. Approved' /\ Founded'
    BY <1>8 DEF Record, IntakeInv, Approved, Founded, task
  <2> QED
    BY <1>2, <2>2, <2>3, <2>4 DEF IntakeInv
<1>9. CASE \E r \in Rungs : RecordRung(r)
  <2>1. PICK r \in Rungs : RecordRung(r)
    BY <1>9
  <2>2. file[r] \in Versions
    BY <2>1 DEF RecordRung, CanRecord, IntakeInv, TypeOK, Files, Artifacts, Rungs
  <2> QED
    BY <1>8, <2>1, <2>2 DEF RecordRung, CanRecord
<1>10. CASE SkipResearch
  BY <1>8, <1>10 DEF SkipResearch, Rungs
<1> QED
  BY <1>4, <1>5, <1>6, <1>7, <1>9, <1>10

-----------------------------------------------------------------------------
(* The verbs of several steps.                                             *)

LEMMA Begun ==
  ASSUME IntakeInv, NEW p \in Procs, NEW verb, NEW pl \in Maybe(Plans),
         Enter(p, verb, pl),
         verb \in {"apply", "restamp", "start", "rebind", "merge"},
         verb \in {"apply", "restamp"} => pl \in Plans /\ Complete,
         verb = "restamp" => pl = plan,
         verb = "merge" /\ "apply" \in Pinned =>
           Complete /\ approval # None /\ inputs \in {None, approval.brief}
  PROVE  IntakeInv'
<1>1. /\ cmd' = [cmd EXCEPT ![p] = [Idle EXCEPT !.at = verb, !.plan = pl, !.fresh = TRUE]]
      /\ UNCHANGED <<file, ratified, configure, rung, plan, approval, status, inputs,
                     snapshot>>
  BY DEF Enter, state, signed, scope, task
<1>2. /\ cmd' \in [Procs -> Cmds]
      /\ cmd'[p].at = verb /\ cmd'[p].plan = pl
      /\ \A q \in Procs \ {p} : cmd'[q] = cmd[q]
  BY <1>1 DEF IntakeInv, TypeOK, Cmds, Idle, Maybe
<1>3. TypeOK'
  BY <1>1, <1>2, IntakeAssumption DEF IntakeInv, TypeOK
<1>4. \A q \in Procs : Seen(q)'
  BY <1>1, <1>2 DEF IntakeInv, Seen, Complete
<1> QED
  BY <1>1, <1>3, <1>4 DEF IntakeInv, LadderIsOrdered, Approved, Founded, Complete

\* What an open gate and a plan say.
LEMMA OpenGate ==
  ASSUME IntakeInv, "apply" \in Pinned, Gate = "open", plan # None
  PROVE  /\ ratified = Governance /\ configure = Effective
         /\ \A r \in Rungs : rung[r] = file[r] \/ rung[r] = Skipped
         /\ approval = [plan |-> plan, brief |-> file["brief"], asked |-> plan]
         /\ Complete /\ approval # None /\ approval.brief = file["brief"]
<1>1. ~GovernanceDrift /\ ~EpicConfigDrift /\ DriftedRung = None /\ ~PlanDrift
  BY DEF Gate, DriftedRung
<1>2. /\ approval # None /\ approval.plan = plan /\ approval.brief = file["brief"]
      /\ approval.asked = plan /\ Complete
      /\ approval \in [plan : Plans, brief : Versions, asked : Plans]
  BY <1>1 DEF PlanDrift, IntakeInv, Approved, TypeOK, Maybe
<1>3. \A r \in Rungs : ~Differs(r)
  BY <1>1, <1>2, IntakeAssumption DEF DriftedRung, Complete, Rungs
<1>4. \A r \in Rungs : rung[r] = file[r] \/ rung[r] = Skipped
  BY <1>2, <1>3 DEF Differs, Complete
<1>5. configure # None /\ ratified # None
  BY <1>2 DEF Complete, Rungs, IntakeInv, LadderIsOrdered, Founded
<1>6. approval = [plan |-> plan, brief |-> file["brief"], asked |-> plan]
  BY <1>2
<1> QED
  BY <1>1, <1>2, <1>4, <1>5, <1>6 DEF GovernanceDrift, EpicConfigDrift

LEMMA BeginStep ==
  ASSUME IntakeInv, NEW p \in Procs,
         \/ \E pl \in Plans : BeginApply(p, pl)
         \/ BeginStart(p) \/ BeginRebind(p) \/ BeginMerge(p)
  PROVE  IntakeInv'
<1>1. ASSUME NEW pl \in Plans, BeginApply(p, pl) PROVE IntakeInv'
  <2>1. CASE pl = plan
    BY <1>1, <2>1, Begun DEF BeginApply, Maybe
  <2>2. CASE pl # plan
    BY <1>1, <2>2, Begun DEF BeginApply, Maybe
  <2> QED
    BY <2>1, <2>2
<1>2. CASE BeginStart(p)
  BY <1>2, Begun DEF BeginStart, Maybe
<1>3. CASE BeginRebind(p)
  BY <1>3, Begun DEF BeginRebind, Maybe
<1>4. CASE BeginMerge(p)
  <2>1. plan # None /\ Gate = "open" /\ status = "active"
    BY <1>4, IntakeAssumption DEF BeginMerge, TaskGate, IntakeInv, Founded, Statuses
  <2>2. "apply" \in Pinned =>
          Complete /\ approval # None /\ approval.brief = file["brief"]
    BY <2>1, OpenGate
  <2>3. "apply" \in Pinned => inputs \in {None, approval.brief}
    BY <1>4, <2>1, <2>2 DEF BeginMerge, TaskGate, InputsChanged
  <2> QED
    BY <1>4, <2>2, <2>3, Begun DEF BeginMerge, Maybe
<1> QED
  BY <1>1, <1>2, <1>3, <1>4

\* A verb that ends, or goes on to copy.
LEMMA Gone ==
  ASSUME IntakeInv, NEW p \in Procs, NEW c \in Cmds, Goto(p, c),
         c.at \notin {"apply", "restamp"}, ~c.fresh
  PROVE  /\ cmd' \in [Procs -> Cmds]
         /\ \A q \in Procs : ~cmd'[q].fresh
         /\ \A q \in Procs : cmd'[q].at \in {"apply", "restamp"} => cmd'[q] = Outdate[q]
         /\ \A q \in Procs : Seen(q)'
<1>1. cmd' = [Outdate EXCEPT ![p] = c]
  BY DEF Goto
<1>2. cmd' \in [Procs -> Cmds] /\ \A q \in Procs : ~cmd'[q].fresh
  BY <1>1, OutdateType DEF IntakeInv
<1>3. \A q \in Procs : cmd'[q].at \in {"apply", "restamp"} => cmd'[q] = Outdate[q]
  BY <1>1, OutdateType DEF IntakeInv
<1> QED
  BY <1>2, <1>3 DEF Seen

LEMMA StampStep ==
  ASSUME IntakeInv, NEW p \in Procs, CommitApply(p) \/ CommitRestamp(p)
  PROVE  IntakeInv'
<1>1. Goto(p, Idle) /\ Idle \in Cmds /\ Idle.at = "idle" /\ ~Idle.fresh
  BY DEF CommitApply, CommitRestamp, Idle, Cmds, Maybe
<1>2. /\ cmd[p].plan \in Plans
      /\ cmd[p].at = "restamp" => plan \in Plans
      /\ "apply" \in Pinned => Complete
      /\ "apply" \in Pinned /\ cmd[p].at = "restamp" => cmd[p].plan = plan
  BY DEF CommitApply, CommitRestamp, At, Stamp, Revision, IntakeInv, TypeOK, Seen, Maybe
<1>3. file["brief"] \in Versions
  BY DEF CommitApply, CommitRestamp, Stamp, IntakeInv, TypeOK, Files, Artifacts
<1>4. /\ plan' \in Plans
      /\ approval' = [plan |-> plan', brief |-> file["brief"], asked |-> cmd[p].plan]
      /\ "apply" \in Pinned => cmd[p].plan = plan'
  <2>1. CASE CommitApply(p)
    BY <1>2, <2>1 DEF CommitApply, Stamp
  <2>2. CASE CommitRestamp(p)
    <3>1. /\ plan' = plan /\ cmd[p].at = "restamp"
          /\ approval' = [plan |-> plan, brief |-> file["brief"], asked |-> cmd[p].plan]
      BY <2>2 DEF CommitRestamp, Stamp, At
    <3> QED
      BY <1>2, <3>1
  <2> QED
    BY <2>1, <2>2
<1>5. UNCHANGED <<file, ratified, configure, rung, inputs, snapshot>>
  BY DEF CommitApply, CommitRestamp, signed, task
<1>6. status' \in Maybe(Statuses)
  BY DEF CommitApply, CommitRestamp, task, IntakeInv, TypeOK, Maybe, Statuses
<1>7. \A q \in Procs :
        /\ cmd'[q].at \in {"apply", "restamp"} => cmd'[q].plan \in Plans
        /\ plan' # None
  <2>1. \A q \in Procs : cmd'[q].at \in {"apply", "restamp"} => cmd'[q] = Outdate[q]
    BY <1>1, Gone
  <2>2. plan' # None
    BY <1>4, IntakeAssumption
  <2> QED
    BY <2>1, <2>2, OutdateType DEF IntakeInv, TypeOK
<1>8. TypeOK'
  BY <1>1, <1>2, <1>3, <1>4, <1>5, <1>6, <1>7, Gone DEF IntakeInv, TypeOK, Maybe
<1>9. Approved'
  <2>1. approval'.plan = plan' /\ approval'.asked = cmd[p].plan
    BY <1>4
  <2> QED
    BY <1>2, <1>4, <1>5, <2>1 DEF Approved, Complete
<1>10. Founded' /\ LadderIsOrdered'
  BY <1>4, <1>5, IntakeAssumption DEF IntakeInv, Founded, LadderIsOrdered
<1> QED
  BY <1>1, <1>8, <1>9, <1>10, Gone DEF IntakeInv

\* The other commits touch the task alone.
LEMMA TaskStep ==
  ASSUME IntakeInv, NEW p \in Procs,
         \/ Started(p) \/ RecordAttempt(p) \/ CommitRebind(p) \/ CommitMerge(p)
  PROVE  IntakeInv'
<1> DEFINE Copying == [Idle EXCEPT !.at = "copy"]
<1>1. PICK c \in {Idle, Copying} : Goto(p, c)
  BY DEF Started, RecordAttempt, CommitRebind, CommitMerge
<1>2. c \in Cmds /\ c.at \notin {"apply", "restamp"} /\ ~c.fresh
  <2>1. /\ Idle \in Cmds /\ Idle.at = "idle" /\ ~Idle.fresh
        /\ Copying \in Cmds /\ Copying.at = "copy" /\ ~Copying.fresh
    BY DEF Idle, Cmds, Maybe
  <2> HIDE DEF Copying
  <2> QED
    BY <1>1, <2>1
<1>3. UNCHANGED <<file, ratified, configure, rung, plan, approval>>
  BY DEF Started, RecordAttempt, CommitRebind, CommitMerge, signed, scope
<1>4. /\ status' \in Maybe(Statuses)
      /\ inputs' \in Maybe(Versions) /\ snapshot' \in Maybe(Versions)
  <2>1. Rebindable => file["brief"] \in Versions
    BY DEF Rebindable, IntakeInv, TypeOK, Files, Artifacts
  <2> QED
    BY <2>1 DEF Started, RecordAttempt, CommitRebind, CommitMerge, IntakeInv, TypeOK,
       Cmds, Maybe, Statuses
<1>5. status' # None => status # None
  BY IntakeAssumption DEF Started, RecordAttempt, CommitRebind, CommitMerge, Statuses
<1>6. TypeOK'
  BY <1>1, <1>2, <1>3, <1>4, Gone, OutdateType DEF IntakeInv, TypeOK
<1>7. Approved' /\ Founded' /\ LadderIsOrdered'
  BY <1>3, <1>5 DEF IntakeInv, Approved, Founded, LadderIsOrdered, Complete
<1> QED
  BY <1>1, <1>2, <1>6, <1>7, Gone DEF IntakeInv

-----------------------------------------------------------------------------
(* Everything else changes files, or a verb on its way.                    *)

LEMMA AsideStep ==
  ASSUME IntakeInv,
         \/ UNCHANGED vars \/ GiveBack
         \/ \E p \in Procs : Copy(p) \/ Hash(p) \/ Leave(p)
         \/ \E f \in Files : Write(f) \/ Edit(f)
  PROVE  IntakeInv'
<1>1. CASE UNCHANGED vars
  <2>1. TypeOK'
    BY <1>1 DEF vars, state, signed, scope, task, IntakeInv, TypeOK
  <2> QED
    BY <1>1, <2>1, Aside DEF vars, state, signed, scope, task
<1>2. CASE GiveBack
  <2>1. cmd' = Outdate /\ UNCHANGED <<file, ratified, configure, rung, plan, approval,
                                     inputs, snapshot>>
    BY <1>2 DEF GiveBack, Commit, signed, scope
  <2>2. status # None /\ status' \in Statuses
    BY <1>2, IntakeAssumption DEF GiveBack, Statuses
  <2>3. TypeOK'
    BY <2>1, <2>2, OutdateType DEF IntakeInv, TypeOK, Maybe
  <2> QED
    BY <2>1, <2>2, <2>3, OutdateType, Aside DEF IntakeInv
<1>3. ASSUME NEW p \in Procs, Copy(p) \/ Hash(p) \/ Leave(p) PROVE IntakeInv'
  <2>1. UNCHANGED <<file, ratified, configure, rung, plan, approval, inputs, snapshot,
                    status>>
    BY <1>3 DEF Copy, Hash, Leave, state, signed, scope, task
  <2>2. PICK c \in Cmds : /\ cmd' = [cmd EXCEPT ![p] = c]
                          /\ c.at \notin {"apply", "restamp", "merge"}
    <3>1. CASE Leave(p)
      <4>1. Idle \in Cmds /\ Idle.at = "idle"
        BY DEF Idle, Cmds, Maybe
      <4> QED
        BY <3>1, <4>1 DEF Leave
    <3>2. CASE Copy(p)
      <4>1. file["brief"] \in Versions
        BY <3>2 DEF Copy, IntakeInv, TypeOK, Files, Artifacts
      <4> DEFINE c == [cmd[p] EXCEPT !.at = "hash", !.copy = file["brief"]]
      <4>2. c \in Cmds /\ c.at = "hash"
        BY <4>1 DEF IntakeInv, TypeOK, Cmds, Maybe
      <4>3. cmd' = [cmd EXCEPT ![p] = c]
        BY <3>2 DEF Copy, IntakeInv, TypeOK, Cmds
      <4> QED
        BY <4>2, <4>3
    <3>3. CASE Hash(p)
      <4>1. file["brief"] \in Versions
        BY <3>3 DEF Hash, IntakeInv, TypeOK, Files, Artifacts
      <4> DEFINE c == [cmd[p] EXCEPT !.at = "attempt", !.digest = file["brief"]]
      <4>2. c \in Cmds /\ c.at = "attempt"
        BY <4>1 DEF IntakeInv, TypeOK, Cmds, Maybe
      <4>3. cmd' = [cmd EXCEPT ![p] = c]
        BY <3>3 DEF Hash, IntakeInv, TypeOK, Cmds
      <4> QED
        BY <4>2, <4>3
    <3> QED
      BY <1>3, <3>1, <3>2, <3>3
  <2>3. TypeOK'
    BY <2>1, <2>2 DEF IntakeInv, TypeOK
  <2>4. \A q \in Procs : cmd'[q].at \in {"apply", "restamp", "merge"} => cmd'[q] = cmd[q]
    BY <2>2 DEF IntakeInv, TypeOK
  <2> QED
    BY <2>1, <2>3, <2>4, Aside
<1>4. ASSUME NEW f \in Files, Write(f) \/ Edit(f) PROVE IntakeInv'
  <2>1. UNCHANGED <<ratified, configure, rung, plan, approval, inputs, snapshot, status,
                    cmd>>
    BY <1>4 DEF Write, Edit, state, signed, scope, task
  <2>2. PICK v \in CanHold(f) : file' = [file EXCEPT ![f] = v]
    BY <1>4, IntakeAssumption DEF Write, Edit, CanHold
  <2>3. /\ v \in Versions \cup {None}
        /\ f = "config" => v # None
        /\ v # Open
    BY <2>2, IntakeAssumption DEF CanHold, Open
  <2>4. TypeOK'
    BY <2>1, <2>2, <2>3 DEF IntakeInv, TypeOK, Files
  <2> QED
    BY <2>1, <2>4, Aside
<1> QED
  BY <1>1, <1>2, <1>3, <1>4

\* Every step keeps the invariant.
LEMMA InvStep ==
  ASSUME IntakeInv, [Next]_<<vars, calm>>
  PROVE  IntakeInv'
<1>1. CASE Settle \/ Authored \/ UNCHANGED <<vars, calm>>
  BY <1>1, AsideStep DEF Settle, Authored
<1>2. ASSUME NEW p \in Procs, Proceed(p) PROVE IntakeInv'
  BY <1>2, StampStep, TaskStep, AsideStep DEF Proceed
<1>3. CASE Followed
  <2>1. PICK p \in Procs : Follow(p) \/ Proceed(p) \/ Leave(p)
    BY <1>3 DEF Followed
  <2>2. CASE Follow(p)
    BY <2>2, SignedStep, BeginStep DEF Follow
  <2> QED
    BY <1>2, <2>1, <2>2, AsideStep
<1>4. CASE Anything
  BY <1>2, <1>4, SignedStep, BeginStep, AsideStep DEF Anything
<1> QED
  BY <1>1, <1>3, <1>4 DEF Next

LEMMA InvAlways == Spec => []IntakeInv
<1>1. IntakeInv /\ [Next]_<<vars, calm>> => IntakeInv'
  BY InvStep
<1> QED
  BY InvInit, <1>1, PTL DEF Spec

-----------------------------------------------------------------------------
(* The theorems.                                                           *)

\* A rung is on record only above the rungs it was agreed on, in whatever
\* order the ladder is walked, re-recorded and skipped (intake.py).
THEOREM Ladder == Spec => []LadderIsOrdered
BY InvAlways, PTL DEF IntakeInv

\* require_fresh_intake never looks for a missing rung, and need not: every
\* approval stands on a complete ladder, if plan apply is given its revision.
THEOREM OpenGateIsSigned == "apply" \in Pinned /\ Spec => []OpenGateFollowsLadder
<1> SUFFICES ASSUME "apply" \in Pinned PROVE Spec => []OpenGateFollowsLadder
  OBVIOUS
<1>1. IntakeInv => OpenGateFollowsLadder
  BY OpenGate DEF OpenGateFollowsLadder
<1> QED
  BY InvAlways, <1>1, PTL

\* What is merged was approved, brief and ladder, although the gate of merge
\* compares before the lock: the revision it is given holds what it saw.
THEOREM MergesApproved ==
  {"apply", "merge"} \subseteq Pinned /\ Spec => MergedAsApproved
<1> SUFFICES ASSUME "apply" \in Pinned, "merge" \in Pinned
             PROVE  Spec => MergedAsApproved
  OBVIOUS
<1>1. ASSUME IntakeInv, [Next]_<<vars, calm>>, status # "done", status' = "done"
      PROVE  Complete /\ approval # None /\ inputs \in {None, approval.brief}
  <2>1. PICK p \in Procs : CommitMerge(p)
    BY <1>1, IntakeAssumption DEF Next, Anything, Followed, Follow, Proceed, Settle,
       Authored, Write, Edit, Ratify, Amend, EpicNew, Configure, RecordRung, SkipResearch,
       Record, GiveBack, BeginApply, BeginStart, BeginRebind, BeginMerge, Enter,
       CommitApply, CommitRestamp, Started, Copy, Hash, RecordAttempt, CommitRebind,
       Leave, vars, state, task
  <2> QED
    BY <1>1, <2>1 DEF CommitMerge, At, Revision, IntakeInv, Seen
<1> QED
  BY InvAlways, <1>1, PTL DEF Spec, MergedAsApproved

-----------------------------------------------------------------------------
(* What next offers.                                                       *)

\* What the ladder stands on is never taken back: a configured epic is there,
\* and a plan, or an apply under way, means that it was configured.
Rooted ==
  /\ configure # None => epic
  /\ plan # None => configure # None
  /\ \A p \in Procs : cmd[p].at \in {"apply", "restamp"} => configure # None

\* It holds when epic and configure stay, and the verbs of plan apply are old
\* ones or end.
LEMMA RootedKept ==
  ASSUME Rooted, epic => epic',
         configure # None => configure' # None,
         configure' # None => epic',
         plan' # plan => configure # None,
         \A p \in Procs : cmd'[p].at \in {"apply", "restamp"} =>
                            cmd[p].at \in {"apply", "restamp"} \/ configure # None
  PROVE  Rooted'
BY DEF Rooted

LEMMA RootedStep ==
  ASSUME IntakeInv, Rooted, [Next]_<<vars, calm>>
  PROVE  Rooted'
<1> USE DEF IntakeInv
<1>1. /\ Outdate \in [Procs -> Cmds]
      /\ \A p \in Procs : Outdate[p].at = cmd[p].at
      /\ cmd \in [Procs -> Cmds]
  BY OutdateType DEF TypeOK
<1>2. CASE UNCHANGED vars
  BY <1>2 DEF vars, state, signed, scope, Rooted
<1>3. CASE Ratify \/ Amend \/ EpicNew \/ GiveBack \/ SkipResearch
             \/ \E r \in Rungs : RecordRung(r)
  <2>1. /\ cmd' = Outdate /\ UNCHANGED <<configure, plan>> /\ (epic => epic')
    BY <1>3 DEF Ratify, Amend, EpicNew, GiveBack, SkipResearch, RecordRung, Record,
       Commit, signed, scope
  <2> QED
    BY <1>1, <2>1, RootedKept DEF Rooted
<1>4. CASE \E d \in BOOLEAN : Configure(d)
  <2>1. PICK d \in BOOLEAN : Configure(d)
    BY <1>4
  <2>2. file["config"] # None /\ Effective # None
    BY DEF TypeOK, Effective
  <2>3. /\ cmd' = Outdate /\ UNCHANGED <<epic, plan>> /\ epic /\ configure' # None
    BY <2>1, <2>2 DEF Configure, Commit, LadderLegal
  <2> QED
    BY <1>1, <2>3, RootedKept
<1>5. ASSUME NEW p \in Procs, NEW verb, NEW pl, Enter(p, verb, pl),
             verb \in {"apply", "restamp"} => configure # None
      PROVE  Rooted'
  <2>1. /\ UNCHANGED <<epic, configure, plan>>
        /\ \A q \in Procs \ {p} : cmd'[q] = cmd[q]
        /\ cmd'[p].at = verb
    BY <1>1, <1>5 DEF Enter, state, signed, scope, Idle
  <2> QED
    BY <1>5, <2>1, RootedKept DEF Rooted
<1>6. ASSUME NEW p \in Procs,
             \/ \E pl \in Plans : BeginApply(p, pl)
             \/ BeginStart(p) \/ BeginRebind(p) \/ BeginMerge(p)
      PROVE  Rooted'
  <2>1. ASSUME NEW pl \in Plans, BeginApply(p, pl) PROVE Rooted'
    <3>1. configure # None
      BY <2>1 DEF BeginApply, Complete, Rungs, LadderIsOrdered
    <3> QED
      BY <1>5, <2>1, <3>1 DEF BeginApply
  <2>2. CASE BeginStart(p)
    BY <1>5, <2>2 DEF BeginStart
  <2>3. CASE BeginRebind(p)
    BY <1>5, <2>3 DEF BeginRebind
  <2>4. CASE BeginMerge(p)
    BY <1>5, <2>4 DEF BeginMerge
  <2> QED
    BY <1>6, <2>1, <2>2, <2>3, <2>4
<1>7. ASSUME NEW p \in Procs, Proceed(p) \/ Leave(p) PROVE Rooted'
  <2>1. PICK c : /\ \/ cmd' = [cmd EXCEPT ![p] = c]
                    \/ cmd' = [Outdate EXCEPT ![p] = c]
                 /\ c.at \notin {"apply", "restamp"}
    <3>1. CASE Copy(p)
      <4> DEFINE c == [cmd[p] EXCEPT !.at = "hash", !.copy = file["brief"]]
      <4>1. cmd' = [cmd EXCEPT ![p] = c] /\ c.at = "hash"
        BY <1>1, <3>1 DEF Copy, Cmds
      <4> QED
        BY <4>1
    <3>2. CASE Hash(p)
      <4> DEFINE c == [cmd[p] EXCEPT !.at = "attempt", !.digest = file["brief"]]
      <4>1. cmd' = [cmd EXCEPT ![p] = c] /\ c.at = "attempt"
        BY <1>1, <3>2 DEF Hash, Cmds
      <4> QED
        BY <4>1
    <3>3. Idle.at = "idle" /\ [Idle EXCEPT !.at = "copy"].at = "copy"
      BY DEF Idle
    <3> QED
      BY <1>7, <3>1, <3>2, <3>3 DEF Proceed, Leave, CommitApply, CommitRestamp, Started,
         RecordAttempt, CommitRebind, CommitMerge, Goto
  <2>2. /\ UNCHANGED <<epic, configure>>
        /\ plan' # plan => configure # None
    BY <1>7 DEF Proceed, Leave, CommitApply, CommitRestamp, Started, Copy, Hash,
       RecordAttempt, CommitRebind, CommitMerge, At, Rooted, state, signed, scope
  <2>3. \A q \in Procs : cmd'[q].at \in {"apply", "restamp"} =>
                           cmd[q].at \in {"apply", "restamp"}
    BY <1>1, <2>1
  <2> QED
    BY <2>2, <2>3, RootedKept DEF Rooted
<1>8. CASE \E f \in Files : Write(f) \/ Edit(f)
  BY <1>8 DEF Write, Edit, state, signed, scope, Rooted
<1>9. CASE Followed
  <2>1. PICK p \in Procs : Follow(p) \/ Proceed(p) \/ Leave(p)
    BY <1>9 DEF Followed
  <2>2. CASE Follow(p)
    BY <1>3, <1>4, <1>6, <2>2 DEF Follow
  <2> QED
    BY <1>7, <2>1, <2>2
<1>10. CASE Anything
  BY <1>3, <1>4, <1>6, <1>7, <1>8, <1>10 DEF Anything
<1> QED
  BY <1>2, <1>8, <1>9, <1>10 DEF Next, Settle, Authored

\* The rung that the ladder calls for can be recorded, once it is written.
LEMMA RungIsRecordable ==
  ASSUME IntakeInv, Rooted, configure # None, LadderRung # None
  PROVE  /\ LadderRung \in Rungs
         /\ CanRecord(LadderRung) \/ file[LadderRung] = None
<1>1. LadderLegal
  BY DEF LadderLegal, Rooted, IntakeInv, Founded
<1>2. LadderRung \in Rungs
  BY DEF LadderRung, DriftedRung, NextRung, Rungs
<1>3. Requires(LadderRung)
  BY IntakeAssumption DEF Requires, LadderRung, DriftedRung, NextRung, Rungs
<1> QED
  BY <1>1, <1>2, <1>3 DEF CanRecord

LEMMA Accepting ==
  ASSUME IntakeInv, Rooted
  PROVE  AdviceIsAccepted
<1> SUFFICES ASSUME ~Blocked, NEW verb \in Actions,
                    ~(verb = "create_epic" /\ GovernanceDrift),
                    ~(verb = "rebind" /\ Walked)
             PROVE  Accepted(verb) \/ \E f \in Signs(verb) : file[f] = None
  BY DEF AdviceIsAccepted
<1> USE DEF IntakeInv
<1>1. ASSUME verb = LadderRung, configure # None, LadderRung # None
      PROVE  Accepted(verb) \/ \E f \in Signs(verb) : file[f] = None
  BY <1>1, RungIsRecordable DEF Accepted, Signs, Rungs
<1>2. CASE plan = None
  <2>1. verb = SetupAction
    BY <1>2 DEF Actions
  <2>2. CASE file["config"] = Open
    BY <2>1, <2>2 DEF SetupAction, Accepted, Rungs
  <2>3. CASE file["config"] # Open /\ ratified = None
    BY <2>1, <2>3 DEF SetupAction, Accepted, CanRatify, Ratifiable, Signs, Rungs
  <2>4. CASE /\ file["config"] # Open /\ ratified # None
             /\ ~epic /\ rung["spec"] = None
    <3>1. verb = "create_epic"
      BY <2>1, <2>4 DEF SetupAction
    <3>2. Gate = "open"
      BY <1>2, <2>4, <3>1 DEF Gate, EpicConfigDrift, Rooted
    <3> QED
      BY <2>4, <3>1, <3>2 DEF Accepted, CanEpicNew, Rungs
  <2>5. CASE /\ file["config"] # Open /\ ratified # None
             /\ ~(~epic /\ rung["spec"] = None) /\ configure = None
    <3>1. verb = "configure"
      BY <2>1, <2>5 DEF SetupAction
    <3> QED
      BY <2>5, <3>1 DEF Accepted, LadderLegal, LadderIsOrdered, Rungs
  <2>6. CASE /\ file["config"] # Open /\ ratified # None /\ configure # None
             /\ ~(~epic /\ rung["spec"] = None)
    <3>1. verb = IF LadderRung # None THEN LadderRung ELSE "apply"
      BY <2>1, <2>6 DEF SetupAction
    <3>2. CASE LadderRung = None
      <4>1. DriftedRung = None /\ Complete
        BY <3>2, IntakeAssumption DEF LadderRung, NextRung, Complete, Rungs
      <4> QED
        BY <3>1, <3>2, <4>1 DEF Accepted, Signs, Rungs
    <3> QED
      BY <1>1, <2>6, <3>1, <3>2
  <2> QED
    BY <2>2, <2>3, <2>4, <2>5, <2>6
<1>3. CASE plan # None /\ Walked
  <2>1. verb = LadderRung
    BY <1>3 DEF Actions
  <2>2. LadderRung # None
    BY <1>3, IntakeAssumption
       DEF Walked, LadderRung, NextRung, Complete, Rungs
  <2> QED
    BY <1>1, <1>3, <2>1, <2>2 DEF Rooted
<1>4. CASE plan # None /\ ~Walked
  <2>1. verb = TaskAction /\ Gate = "open"
    BY <1>4 DEF Actions, Blocked
  <2>2. CASE InputsChanged
    <3>1. file["brief"] # None
      <4>1. DriftedRung \in Rungs \cup {None}
        BY DEF DriftedRung, Rungs
      <4>2. ~PlanDrift
        BY <1>4, <2>1, <4>1 DEF Gate, Rungs
      <4>3. /\ approval \in [plan : Plans, brief : Versions, asked : Plans]
            /\ approval.brief = file["brief"]
        BY <4>2 DEF PlanDrift, TypeOK, Maybe
      <4> QED
        BY <4>3, IntakeAssumption
    <3> QED
      BY <2>1, <2>2, <3>1 DEF TaskAction, InputsChanged, Accepted, Rebindable, Rungs
  <2>3. CASE ~InputsChanged
    BY <2>1, <2>3 DEF TaskAction, Accepted, TaskGate, Rungs
  <2> QED
    BY <2>2, <2>3
<1> QED
  BY <1>2, <1>3, <1>4

\* What next offers is not refused.
THEOREM AdviceAccepted == Spec => []AdviceIsAccepted
<1>1. Init => Rooted
  BY DEF Init, Rooted, Idle
<1>2. IntakeInv /\ Rooted /\ [Next]_<<vars, calm>> => Rooted'
  BY RootedStep
<1>3. IntakeInv /\ Rooted => AdviceIsAccepted
  BY Accepting
<1> QED
  BY InvAlways, <1>1, <1>2, <1>3, PTL DEF Spec
=============================================================================
