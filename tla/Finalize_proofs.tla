--------------------------- MODULE Finalize_proofs ---------------------------
(* Proofs about Finalize: what is handed off was checked, and delivery is   *)
(* neither vacuous nor rewritten.                                           *)
EXTENDS Finalize, TLAPS

Records == [head : Nat, ok : BOOLEAN, config : Configs]
Handoffs == [head : Nat, config : Configs, stage : Stages]

TypeOK ==
  /\ base \in Nat /\ open \in Nat /\ config \in Configs
  /\ target \in Nat /\ upstream \in Nat /\ origin \in Nat
  /\ review \in Records \cup {None} /\ verification \in Records \cup {None}
  /\ handoff \in Nat \cup {None} /\ delivered \in Nat \cup {None}
  /\ pushed \in Nat \cup {None} /\ pull \in PullRequests \cup {None}
  /\ handing \in [Procs -> Handoffs \cup {None}]

\* A handoff names a commit of the epic branch beyond the fork point; the
\* branch only grows, so whatever is delivered after it is beyond it too.
HandoffIsReal == handoff # None => 0 < handoff /\ handoff <= base

\* No target branch and no remote has more than the epic branch, and a fetch
\* lags behind GitHub.
RefsFollow ==
  /\ target <= base /\ upstream <= base /\ origin <= upstream
  /\ pushed # None => pushed <= base

\* Whoever has pushed a head finds it on the remote, and whoever opened a pull
\* request finds it open, closed, or merged with that head.
Remote ==
  /\ pull # None => pushed # None
  /\ \A p \in Procs : handing[p] # None =>
       /\ handing[p].head <= base
       /\ handing[p].stage # "checked" => pushed # None /\ handing[p].head <= pushed
       /\ handing[p].stage = "opened" =>
            pull # None /\ (pull = "merged" => handing[p].head <= upstream)

FinalizeInv ==
  TypeOK /\ HandoffIsReal /\ RefsFollow /\ Remote /\ DeliveredWasMerged

LEMMA FinalizeInit == Init => FinalizeInv
<1>1. QED
  BY FinalizeAssumption
     DEF Init, FinalizeInv, TypeOK, HandoffIsReal, RefsFollow, Remote,
         DeliveredWasMerged, PullRequests

LEMMA FinalizeStep == FinalizeInv /\ [Next]_vars => FinalizeInv'
<1> SUFFICES ASSUME FinalizeInv, [Next]_vars PROVE FinalizeInv'
  OBVIOUS
<1> USE FinalizeAssumption
    DEF FinalizeInv, TypeOK, HandoffIsReal, RefsFollow, Remote, DeliveredWasMerged,
        Records, Handoffs, Stages, PullRequests, world, refs, finalize
<1>1. ASSUME NEW ok \in BOOLEAN, RecordFinalReview(ok) PROVE FinalizeInv'
  BY <1>1 DEF RecordFinalReview, Evidence
<1>2. ASSUME NEW ok \in BOOLEAN, RecordFinalVerification(ok) PROVE FinalizeInv'
  BY <1>2 DEF RecordFinalVerification, Evidence
<1>3. ASSUME NEW p \in Procs, BeginHandoff(p) PROVE FinalizeInv'
  BY <1>3 DEF BeginHandoff
<1>4. ASSUME NEW p \in Procs, Push(p) \/ OpenPullRequest(p) PROVE FinalizeInv'
  <2>1. CASE Push(p)
    BY <2>1 DEF Push, At, Reach
  <2>2. CASE OpenPullRequest(p)
    BY <2>2 DEF OpenPullRequest, At, Reach, CanOpen
  <2>3. QED
    BY <1>4, <2>1, <2>2
<1>5. ASSUME NEW p \in Procs, RecordHandoff(p) PROVE FinalizeInv'
  BY <1>5 DEF RecordHandoff, Ready, At, Recheck, InFinalize, SomethingToDeliver, Landed
<1>6. ASSUME NEW p \in Procs, Abandon(p) PROVE FinalizeInv'
  BY <1>6 DEF Abandon
<1>7. CASE RecordDelivered
  BY <1>7 DEF RecordDelivered, InFinalize, HandoffRecorded, Landed
<1>8. CASE PlanTask
  BY <1>8 DEF PlanTask
<1>9. CASE FinishTask
  BY <1>9 DEF FinishTask
<1>10. CASE Commit
  BY <1>10 DEF Commit
<1>11. CASE EditConfig
  BY <1>11 DEF EditConfig
<1>12. CASE Fetch
  BY <1>12 DEF Fetch
<1>13. CASE LandHandoff \/ LandPullRequest \/ LandAhead
  <2>1. PICK h \in Nat : h <= base /\ (LandHere(h) \/ LandThere(h))
    BY <1>13 DEF LandHandoff, LandPullRequest, LandAhead
  <2>2. CASE LandHere(h)
    BY <2>1, <2>2 DEF LandHere, Shared
  <2>3. CASE LandThere(h)
    BY <2>1, <2>3 DEF LandThere, PullAfter, Shared
  <2>4. QED
    BY <2>1, <2>2, <2>3
<1>14. CASE ClosePullRequest
  BY <1>14 DEF ClosePullRequest, Shared
<1>15. CASE PullTarget
  BY <1>15 DEF PullTarget, Shared
<1>16. CASE PushTarget
  BY <1>16 DEF PushTarget, PullAfter, Shared
<1>17. CASE UNCHANGED vars
  BY <1>17 DEF vars
<1>18. QED
  BY <1>1, <1>2, <1>3, <1>4, <1>5, <1>6, <1>7, <1>8, <1>9, <1>10, <1>11, <1>12,
     <1>13, <1>14, <1>15, <1>16, <1>17
     DEF Next, Follow, Continue, Deliver, Disturb, Refused, Killed

LEMMA FinalizeInvariant == Spec => []FinalizeInv
<1>1. QED
  BY FinalizeInit, FinalizeStep, PTL DEF Spec

\* A scope is delivered only after a handoff, with something beyond the fork
\* point, and only when the target has it, here or on GitHub.
THEOREM DeliveryIsReal == Spec => []DeliveredWasMerged
<1>1. FinalizeInv => DeliveredWasMerged
  BY DEF FinalizeInv
<1>2. QED
  BY <1>1, FinalizeInvariant, PTL

\* Only checked heads are handed off, whatever moves between the two checks.
THEOREM OnlyCheckedIsHandedOff == Spec => HandoffIsChecked
<1>1. FinalizeInv /\ [Next]_vars => [HandedOffIsChecked]_vars
  <2> SUFFICES ASSUME FinalizeInv, [Next]_vars, NEW p \in Procs,
                      handing[p] # None, handing'[p] = None, handoff' # handoff
               PROVE  /\ handoff' = base /\ base > target
                      /\ Passed(review, base, handing[p].config)
                      /\ Passed(verification, base, handing[p].config)
                      /\ surface = "pr" =>
                           /\ pushed = handoff' /\ pull # None
                           /\ pull = "merged" => handoff' <= upstream
    BY DEF HandedOffIsChecked
  <2>1. PICK q \in Procs : RecordHandoff(q)
    BY DEF Next, Follow, Continue, Deliver, Disturb, RecordFinalReview,
           RecordFinalVerification, BeginHandoff, Push, OpenPullRequest, Refused, Killed, Abandon,
           Fetch, RecordDelivered, PlanTask, FinishTask, Commit, EditConfig,
           LandHandoff, LandPullRequest, LandAhead, LandHere, LandThere,
           ClosePullRequest, PullTarget, PushTarget, Shared, finalize, vars
  <2>2. q = p
    BY <2>1 DEF RecordHandoff, FinalizeInv, TypeOK
  <2>3. /\ handoff' = base /\ base > target
        /\ Passed(review, base, handing[p].config)
        /\ Passed(verification, base, handing[p].config)
    BY <2>1, <2>2 DEF RecordHandoff, Recheck, EvidenceCurrent, SomethingToDeliver,
       FinalizeInv, TypeOK, Handoffs
  <2>4. ASSUME surface = "pr"
        PROVE  pushed = base /\ pull # None /\ (pull = "merged" => base <= upstream)
    BY <2>1, <2>2, <2>3, <2>4 DEF RecordHandoff, Ready, At, Recheck, FinalizeInv,
       TypeOK, RefsFollow, Remote, Handoffs, Stages
  <2>5. QED
    BY <2>3, <2>4
<1>2. QED
  BY <1>1, FinalizeInvariant, PTL DEF Spec, HandoffIsChecked

\* Once delivered, the records of the finalize ladder never change again.
THEOREM DeliveredIsFinal == Spec => DeliveryIsFinal
<1>1. [Next]_vars => [delivered # None => UNCHANGED finalize]_vars
  BY DEF Next, Follow, Continue, Deliver, Disturb, RecordFinalReview,
         RecordFinalVerification, BeginHandoff, Push, OpenPullRequest, RecordHandoff, Recheck,
         Refused, Killed, Abandon, Fetch, RecordDelivered, PlanTask, FinishTask,
         Commit, EditConfig, LandHandoff, LandPullRequest, LandAhead, LandHere,
         LandThere, ClosePullRequest, PullTarget, PushTarget, Shared, InFinalize,
         finalize, vars
<1>2. QED
  BY <1>1, PTL DEF Spec, DeliveryIsFinal
=============================================================================
