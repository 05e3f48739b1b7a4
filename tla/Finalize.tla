------------------------------- MODULE Finalize -------------------------------
(***************************************************************************)
(* The end of a scope: finalize.py's review, verification, handoff and     *)
(* delivered records, the ladder that next offers, and what happens around *)
(* them: commits on the epic branch, plans applied late, people merging    *)
(* the epic branch into the target.                                        *)
(*                                                                         *)
(* The target branch is three refs: the local branch, GitHub's, and what a *)
(* fetch last saw of GitHub's.  prepare_handoff looks at the first only,   *)
(* record_delivered at the first and the last.                             *)
(*                                                                         *)
(* Abstracted: the epic branch only grows, so a commit is its distance     *)
(* from the fork point; a target ref is the last of them it contains, and  *)
(* one commit is an ancestor of another when it is not the larger.         *)
(* Tasks are the number still open.  A configuration is what the digests   *)
(* and the model bound into evidence distinguish.  Each record is made     *)
(* under the lock; only a handoff has steps outside it.                    *)
(***************************************************************************)
EXTENDS Naturals

CONSTANTS
  Procs,          \* controllers that may prepare a handoff
  Configs, None,
  MaxTasks,       \* bound: tasks ever planned
  MaxSetbacks     \* bound: failures, edits and commits of other people

\* How far prepare_handoff has got outside the lock.
Stages == {"checked", "pushed", "opened"}
PullRequests == {"open", "merged", "closed"}

ASSUME FinalizeAssumption ==
  /\ MaxTasks \in Nat \ {0} /\ MaxSetbacks \in Nat
  /\ None \notin Nat \cup [head : Nat, ok : BOOLEAN, config : Configs]
  /\ None \notin [head : Nat, config : Configs, stage : Stages] \cup PullRequests

VARIABLES
  surface,        \* merge.surface
  planned, open,  \* tasks planned, and those neither done nor cancelled
  base,           \* head of the epic branch
  target,         \* its last commit in the local target branch,
  upstream,       \* in the target branch on GitHub,
  origin,         \* and in origin/<target>, as last fetched
  config,
  review, verification,   \* [head, ok, config]
  handoff,        \* the head handed off
  delivered,      \* the head delivered
  pushed,         \* head of the epic branch on the remote, None before a push
  pull,           \* its last pull request: None or one of PullRequests
  handing,        \* each process: the handoff it prepares
  setbacks

finalize == <<review, verification, handoff, delivered>>
refs == <<target, upstream, origin>>
world == <<surface, planned, open, base, refs, config, pushed, pull>>
vars == <<world, finalize, handing, setbacks>>

Init ==
  /\ surface \in {"local", "pr"}
  /\ planned = 1 /\ open = 1 /\ base = 0 /\ config \in Configs
  /\ target = 0 /\ upstream = 0 /\ origin = 0
  /\ review = None /\ verification = None /\ handoff = None /\ delivered = None
  /\ pushed = None /\ pull = None /\ handing = [p \in Procs |-> None] /\ setbacks = 0

Setback == setbacks < MaxSetbacks /\ setbacks' = setbacks + 1
Calm == UNCHANGED setbacks

-----------------------------------------------------------------------------
(* schema.derived_phase, and the guards of the finalize verbs.             *)

Phase == IF open > 0 THEN "execute"
         ELSE IF delivered # None THEN "delivered" ELSE "finalize"

\* _require_finalize_phase and _require_not_delivered.
InFinalize == Phase \in {"finalize", "delivered"} /\ delivered = None

\* _require_something_to_deliver asks the local target branch only.
SomethingToDeliver == base > target
\* _fetched_base_refs: either ref proves the merge.
Landed == base <= target \/ base <= origin

Passed(e, head, c) ==
  e # None /\ e.ok /\ e.head = head /\ e.config = c
\* _require_current_finalize_evidence.
EvidenceOnce(head, c) ==    \* Mutant: it is enough that they passed once
  review # None /\ review.ok /\ verification # None /\ verification.ok
EvidenceCurrent(head, c) ==
  Passed(review, head, c) /\ Passed(verification, head, c)

-----------------------------------------------------------------------------
(* The verbs.                                                              *)

Evidence(ok) == [head |-> base, ok |-> ok, config |-> config]

RecordFinalReview(ok) ==
  /\ InFinalize
  /\ review' = Evidence(ok)
  /\ UNCHANGED <<world, verification, handoff, delivered, handing>>

RecordFinalVerification(ok) ==
  /\ InFinalize
  /\ verification' = Evidence(ok)
  /\ UNCHANGED <<world, review, handoff, delivered, handing>>

\* prepare_handoff before the lock: everything is checked, the head pinned.
BeginHandoff(p) ==
  /\ handing[p] = None /\ InFinalize
  /\ SomethingToDeliver /\ EvidenceCurrent(base, config)
  /\ handing' = [handing EXCEPT
       ![p] = [head |-> base, config |-> config, stage |-> "checked"]]
  /\ UNCHANGED <<world, finalize>>

At(p, stage) == handing[p] # None /\ handing[p].stage = stage
Reach(p, stage) == handing' = [handing EXCEPT ![p].stage = stage]

\* push_branch pushes the branch as it is by now.
Push(p) ==
  /\ surface = "pr" /\ At(p, "checked") /\ Reach(p, "pushed")
  /\ pushed' = base
  /\ UNCHANGED <<surface, planned, open, base, refs, config, pull, finalize>>

\* gh pr create refuses a branch without commits and one that has a pull
\* request.
CanOpen == pull # "open" /\ upstream < pushed
OpenPullRequest(p) ==
  /\ At(p, "pushed") /\ Reach(p, "opened")
  /\ CanOpen /\ pull' = "open"
  /\ UNCHANGED <<surface, planned, open, base, refs, config, pushed, finalize>>

\* Under the lock everything is checked again, against the pinned head.
Recheck(h) ==
  /\ InFinalize /\ base = h.head
  /\ SomethingToDeliver /\ EvidenceCurrent(h.head, h.config)
Ready(p) == At(p, IF surface = "pr" THEN "opened" ELSE "checked")
RecordHandoff(p) ==
  /\ Ready(p) /\ Recheck(handing[p])
  /\ handoff' = handing[p].head
  /\ handing' = [handing EXCEPT ![p] = None]
  /\ UNCHANGED <<world, review, verification, delivered>>

\* The command is refused, by gh or by the second check; or it is killed.
Abandon(p) ==
  handing' = [handing EXCEPT ![p] = None] /\ UNCHANGED <<world, finalize>>
Refused(p) ==
  /\ \/ Ready(p) /\ ~Recheck(handing[p])
     \/ At(p, "pushed") /\ ~CanOpen
  /\ Abandon(p)
Killed(p) == handing[p] # None /\ Abandon(p)

WithoutHandoff == TRUE      \* Mutant: no handoff is asked for
HandoffRecorded == handoff # None

\* record_delivered fetches before it takes the lock, if it can, and keeps
\* nothing else of what it saw there.
Fetch ==
  /\ InFinalize /\ HandoffRecorded
  /\ origin # upstream /\ origin' = upstream
  /\ UNCHANGED <<surface, planned, open, base, target, upstream, config, pushed,
                 pull, finalize, handing>>

\* Under the lock it observes that a target ref has the head of the epic branch.
RecordDelivered ==
  /\ InFinalize /\ HandoffRecorded /\ Landed
  /\ delivered' = base
  /\ UNCHANGED <<world, review, verification, handoff, handing>>

-----------------------------------------------------------------------------
(* finalize_next_actions: the one rung that is due.                        *)

ReviewMissing == review = None      \* Mutant: a review of any head will do
ReviewDue == review = None \/ review.head # base
VerificationDue ==
  verification = None \/ ~verification.ok \/ verification.head # base
Rung ==
  IF Phase # "finalize" THEN Phase
  ELSE IF ReviewDue THEN "final_review"
  ELSE IF ~review.ok THEN "assign_final_fixes"
  ELSE IF VerificationDue THEN "final_verification"
  ELSE IF handoff # base THEN "prepare_handoff"
  ELSE "await_delivery"

-----------------------------------------------------------------------------
(* Around the verbs.                                                       *)

\* plan apply asks for no phase.
PlanTask ==
  /\ planned < MaxTasks
  /\ planned' = planned + 1 /\ open' = open + 1
  /\ UNCHANGED <<surface, base, refs, config, pushed, pull, finalize, handing>>

\* A task is merged into the epic branch, or cancelled.
FinishTask ==
  /\ open > 0 /\ open' = open - 1
  /\ base' \in {base, base + 1}
  /\ UNCHANGED <<surface, planned, refs, config, pushed, pull, finalize, handing>>

\* A final fix, or somebody's commit, until the scope is delivered.
Commit ==
  /\ delivered = None /\ base' = base + 1
  /\ UNCHANGED <<surface, planned, open, refs, config, pushed, pull, finalize,
                 handing>>

EditConfig ==
  /\ config' \in Configs \ {config}
  /\ UNCHANGED <<surface, planned, open, base, refs, pushed, pull, finalize,
                 handing>>

-----------------------------------------------------------------------------
(* People and the two target branches.                                     *)

Shared == <<surface, planned, open, base, config, pushed, finalize, handing>>

\* GitHub calls a pull request merged once the target has its head.
PullAfter(head) == IF pull = "open" /\ pushed <= head THEN "merged" ELSE pull
LandHere(head) ==
  head > target /\ target' = head /\ UNCHANGED <<Shared, upstream, origin, pull>>
LandThere(head) ==
  /\ head > upstream /\ upstream' = head /\ pull' = PullAfter(head)
  /\ UNCHANGED <<Shared, target, origin>>

\* They merge what was handed off, here or on GitHub (on the pr surface by its
\* pull request), what the pull request has, or the branch as it is.
LandHandoff ==
  /\ handoff # None /\ handoff > target /\ handoff > upstream
  /\ LandHere(handoff) \/ (surface = "local" /\ LandThere(handoff))
LandPullRequest == pull = "open" /\ LandThere(pushed)
LandAhead ==
  /\ handoff # None
  /\ LandHere(base) \/ (surface = "local" /\ LandThere(base))
ClosePullRequest ==
  pull = "open" /\ pull' = "closed" /\ UNCHANGED <<Shared, refs>>

\* git pull and git push of the target branch.
PullTarget ==
  /\ target < upstream \/ origin # upstream
  /\ target' = IF target < upstream THEN upstream ELSE target
  /\ origin' = upstream
  /\ UNCHANGED <<Shared, upstream, pull>>
PushTarget ==
  /\ upstream < target /\ upstream' = target /\ origin' = target
  /\ pull' = PullAfter(target)
  /\ UNCHANGED <<Shared, target>>

-----------------------------------------------------------------------------
\* The controller does what next offers; a handoff refused for evidence of
\* another configuration names the record to make again.
Follow ==
  /\ Calm
  /\ \/ Rung = "final_review" /\ RecordFinalReview(TRUE)
     \/ Rung = "assign_final_fixes" /\ Commit
     \/ Rung = "final_verification" /\ RecordFinalVerification(TRUE)
     \/ Rung = "prepare_handoff" /\ review.config # config
          /\ RecordFinalReview(TRUE)
     \/ Rung = "prepare_handoff" /\ verification.config # config
          /\ RecordFinalVerification(TRUE)
     \/ Rung = "prepare_handoff"
          /\ \E p \in Procs : BeginHandoff(p) /\ \A q \in Procs : handing[q] = None
     \/ Rung = "await_delivery" /\ (Fetch \/ RecordDelivered)

\* A command once begun goes on, tasks end, and people merge what they are given.
Continue(p) == Calm /\ (Push(p) \/ OpenPullRequest(p) \/ RecordHandoff(p) \/ Refused(p))
Deliver == Calm /\ (FinishTask \/ LandHandoff)

Disturb ==
  /\ Setback
  /\ \/ RecordFinalReview(FALSE) \/ RecordFinalVerification(FALSE)
     \/ Commit \/ EditConfig \/ LandAhead \/ ClosePullRequest
     \/ \E p \in Procs : BeginHandoff(p) \/ Killed(p)

Next ==
  \/ Follow \/ Deliver \/ Disturb
  \/ \E p \in Procs : Continue(p)
  \/ Calm /\ (PlanTask \/ LandPullRequest \/ PullTarget \/ PushTarget)
  \/ Calm /\ (Fetch \/ RecordDelivered)

Spec ==
  /\ Init /\ [][Next]_vars
  /\ WF_vars(Follow) /\ WF_vars(Deliver) /\ \A p \in Procs : WF_vars(Continue(p))

-----------------------------------------------------------------------------
(* Properties.                                                             *)

\* A handoff is recorded only for a head that review and verification, both
\* passed and made under the command's configuration, still name when it is
\* recorded.  A pull request was opened outside the lock, between two looks at
\* the branch: the remote branch is at that head, and the pull request is still
\* open unless people closed it or merged that very head meanwhile (which the
\* second look, at the local target only, does not see).
HandedOffIsChecked ==
  \A p \in Procs :
    (handing[p] # None /\ handing'[p] = None /\ handoff' # handoff) =>
      /\ handoff' = base /\ base > target
      /\ Passed(review, base, handing[p].config)
      /\ Passed(verification, base, handing[p].config)
      /\ surface = "pr" =>
           /\ pushed = handoff' /\ pull # None
           /\ pull = "merged" => handoff' <= upstream
HandoffIsChecked == [][HandedOffIsChecked]_vars

\* Delivery is never vacuous or self-certified (finalize.py:149): there was a
\* handoff, there is a commit beyond the fork point, and the target branch, here
\* or on GitHub, has it.
DeliveredWasMerged ==
  delivered # None =>
    handoff # None /\ delivered > 0 /\ (delivered <= target \/ delivered <= upstream)

\* What delivery rests on is not rewritten afterwards, a handoff that was under
\* way when it was recorded included.
DeliveryIsFinal ==
  [][delivered # None => UNCHANGED finalize]_vars

\* Following next delivers a scope on the local surface, however often checks
\* fail and commits land, and whether people merge here or on GitHub, unless the
\* local target got more than was handed off: then next keeps offering a handoff
\* that is refused.
MergedAhead == target > 0 /\ (handoff = None \/ target > handoff)
NothingEver == open = 0 /\ base = 0
FinalizeEnds ==
  surface = "local" =>
    <>[](delivered # None \/ MergedAhead \/ NothingEver)

\* finalize.py:164: the check for something to deliver "runs at handoff time,
\* BEFORE the human's final merge can possibly have landed".
HandoffPrecedesMerge == Rung = "prepare_handoff" /\ base > 0 => SomethingToDeliver
=============================================================================
