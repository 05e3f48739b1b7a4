----------------------------- MODULE GitDelivery -----------------------------
(***************************************************************************)
(* The engine over Git: leases.py, merge.py, review.py, freshness.py,      *)
(* git.py and the worktrees of park in setup.py, with the workers and the  *)
(* people who use the same repository.                                     *)
(*                                                                         *)
(* A verb that changes Git and then the state does both under the state    *)
(* lock: "held" is the verb between the two, and a kill there leaves Git   *)
(* ahead of the state.  A verb that reads Git or the state before the lock *)
(* keeps what it read in "call"; anything may happen before it is applied. *)
(*                                                                         *)
(* A commit is named by the branch it was made on and a number, and the    *)
(* store keeps its history (itself and all its ancestors) and the path it  *)
(* changes (None: a merge).                                                *)
(* Left out: branch and worktree names, worktrees switched to another      *)
(* branch (every verb refuses them), pull request titles and comments, and *)
(* the digests of configuration evidence is bound to.                      *)
(***************************************************************************)
EXTENDS TaskEngine

CONSTANTS
  Paths,      \* files of the repository
  Matches,    \* matches_domain: the paths of a domain
  MaxWork,    \* bound: commits a worker makes on each task's branch
  MaxHands,   \* bound: what people do to the base branch by hand
  MaxKills,   \* bound: commands killed between Git and the state write
  MaxEvents,  \* bound: commits and hands together
  MaxCommits  \* bound: the number of a commit on its branch

Base == "base"      \* where commits on the base branch are made
Root == [on |-> Base, n |-> 0]
Commits == [on : Tasks \cup {Base}, n : 0 .. MaxCommits]

ASSUME HeadsAssumption == Heads = Commits /\ Bases = Commits
ASSUME MatchesAssumption == Matches \in [Domains -> SUBSET Paths]
ASSUME BaseAssumption == Base \notin Tasks
ASSUME GitBoundsAssumption ==
  {MaxWork, MaxHands, MaxKills, MaxEvents, MaxCommits} \subseteq Nat

VARIABLES
  store,      \* the object store: commits made so far
  base,       \* the scope's base branch in this repository
  origin,     \* the base branch of the remote
  branch,     \* task branches in this repository
  lease,      \* per task: the base it started from, and whether it is active
  worktree,   \* per task: "none", "clean" or "dirty"
  call,       \* a command before its lock, with what it has read
  held,       \* a command under the lock, between Git and the state write
  parked,     \* the epic is parked: the engine's state is its bundle
  hands, kills

shared == <<store, base, origin, branch>>
engine == vars
gitVars == <<shared, lease, worktree, call, held, parked, hands, kills>>
allVars == <<engine, gitVars>>

-----------------------------------------------------------------------------
(* Git.                                                                    *)

History(c) == store[c].history
Reaches(tip, c) == c \in History(tip)      \* git merge-base --is-ancestor

NewCommit(on) ==
  [on |-> on, n |-> Cardinality({c \in DOMAIN store : c.on = on})]
\* A new commit on branch "on" that changes path p.
Make(on, parents, p) ==
  LET new == NewCommit(on)
      history == {new} \cup UNION {History(c) : c \in parents}
  IN /\ new \in Commits \ DOMAIN store
     /\ store' = [c \in DOMAIN store \cup {new} |->
                    IF c = new THEN [history |-> history, path |-> p]
                    ELSE store[c]]

\* git merge-base a b: a best common ancestor.
MergeBases(a, b) ==
  LET common == History(a) \cap History(b)
  IN {c \in common : \A d \in common : Reaches(d, c) => d = c}

\* git rev-list from..to, and the paths of git diff --name-only from..to.
RevList(from, to) == History(to) \ History(from)
ChangedPaths(from, to) == {store[c].path : c \in RevList(from, to)} \ {None}

Owned(t) == UNION {Matches[d] : d \in domains[t]}

\* check_freshness of head h against base b, m the merge base git picks.
Classify(t, h, b, m) ==
  IF /\ ~Reaches(h, b)
     /\ ChangedPaths(m, b) \cap (ChangedPaths(m, h) \cup Owned(t)) # {}
  THEN "stale" ELSE "fresh"
Classes(t, h, b) == {Classify(t, h, b, m) : m \in MergeBases(b, h)}

-----------------------------------------------------------------------------
GitInit ==
  /\ Init
  /\ store = [c \in {Root} |-> [history |-> {Root}, path |-> None]]
  /\ base = Root /\ origin = Root
  /\ branch = Blank /\ lease = Blank
  /\ worktree = [t \in Tasks |-> "none"]
  /\ call = None /\ held = None /\ parked = FALSE
  /\ hands = 0 /\ kills = 0

\* A verb gets the lock, and its epic is the active one.
Locks == held = None /\ ~parked
Hold(verb, S, h) == held' = [verb |-> verb, tasks |-> S, head |-> h]
Holding(verb, t) == held # None /\ held.verb = verb /\ held.tasks = {t}

\* Events that touch no Git: ratify, block, unblock, cancel.
EngineOnly ==
  /\ Locks
  /\ \/ Ratify
     \/ \E t \in Tasks : Block(t) \/ Unblock(t) \/ Cancel(t)
  /\ UNCHANGED gitVars

\* A plan keeps every lease, that of a task it removes included.
Plan(p) == Locks /\ ApplyPlan(p) /\ UNCHANGED gitVars

-----------------------------------------------------------------------------
(* start: a worktree, then the state.                                      *)

\* A branch without a lease is refused, whoever left it.
Adoptable(t) == lease[t] = None => branch[t] = None

\* admission for a new start; a task at work is re-attached to its branch.
MayStart(t) ==
  \/ /\ status[t] = "todo" /\ Ratified /\ Admissible(status, t)
     /\ scope.baseRef # None
     /\ Adoptable(t)
  \/ status[t] \in Active /\ lease[t] # None

\* ensure_worktree: reuse it, attach the branch, or create the branch.
StartGit(t) ==
  /\ Locks /\ MayStart(t)
  /\ worktree' = [worktree EXCEPT ![t] = IF @ = "none" THEN "clean" ELSE @]
  /\ branch' = [branch EXCEPT ![t] = IF @ = None THEN base ELSE @]
  /\ Hold("start", {t}, None)
  /\ UNCHANGED <<engine, store, base, origin, lease, call, parked,
                 hands, kills>>

\* task.started with a new lease, or lease.reattached with the old base.
StartState(t) ==
  /\ Holding("start", t) /\ held' = None
  /\ \/ /\ Start(t)
        /\ lease' = [lease EXCEPT ![t] = [base |-> base, active |-> TRUE]]
     \/ /\ status[t] \in Active
        /\ lease' = [lease EXCEPT ![t].active = TRUE]
        /\ UNCHANGED engine
  /\ UNCHANGED <<shared, worktree, call, parked, hands, kills>>

-----------------------------------------------------------------------------
(* What a command reads of the state and of Git before its lock, and the   *)
(* records made from it.  Evidence collected from a file is compared with  *)
(* the same derivation.                                                    *)

\* One command at a time is between its reads and its lock: the next one takes
\* its place, and the first is the one refused or killed there.
Reads(t) ==
  /\ ~parked /\ lease[t] # None
  /\ call' = [task |-> t, head |-> head[t], tip |-> branch[t], base |-> base,
              pin |-> IF review[t] = None THEN None ELSE review[t].base]
  /\ UNCHANGED <<engine, shared, lease, worktree, held, parked, hands, kills>>

\* The transitions refuse evidence of a head that is no longer the task's.
Records(t) ==
  /\ Locks /\ call # None /\ call.task = t
  /\ head[t] # None /\ call.head = head[t]

AnyRange(b, h) == TRUE      \* Mutant: an empty range can be reviewed
NonEmptyRange(b, h) == b # h

\* evidence_shas: the base a review of this head used, or the merge base.
EvidenceBases ==
  IF call.pin # None THEN {call.pin}
  ELSE {b \in MergeBases(call.base, call.head) : NonEmptyRange(b, call.head)}

Evidence(t) ==
  /\ Records(t) /\ call' = None
  /\ \/ \E b \in EvidenceBases, o \in {"passed", "blocking"} :
          RecordReview(t, b, o)
     \/ \E b \in EvidenceBases, s \in {"passed", "failed"} :
          RecordVerification(t, b, s)
     \/ \E c \in Classes(t, call.head, call.base) : RecordFreshness(t, c)
  /\ UNCHANGED <<shared, lease, worktree, held, parked, hands, kills>>

-----------------------------------------------------------------------------
(* submit: everything it records is read under the lock.                   *)

HeadWhenCalled(t) ==    \* Mutant: the head is read before the lock
  IF call # None /\ call.task = t THEN call.tip ELSE branch[t]
SubmittedHead(t) == branch[t]

\* rev-list --count base..head, from the base the lease started from.
OwnCommits(t) == RevList(lease[t].base, branch[t])

Submit(t) ==
  /\ Locks /\ lease[t] # None
  /\ worktree[t] # "dirty" /\ OwnCommits(t) # {}
  /\ IF ~pr[t] THEN RecordPR(t, SubmittedHead(t))
     ELSE head[t] # SubmittedHead(t) /\ UpdateHead(t, SubmittedHead(t))
  /\ UNCHANGED gitVars

-----------------------------------------------------------------------------
(* refresh: the base into the task branch, then the new head.              *)

NothingToRecord(t) ==   \* Mutant: a branch that has the base is current
  Reaches(branch[t], base)
\* Nothing was left behind by an earlier refresh or merge by hand.
AlreadyCurrent(t) ==
  Reaches(branch[t], base) /\ head[t] \in {None, branch[t]}

\* A refresh that conflicts is aborted and changes nothing.  That the worktree
\* is clean is asked before the lock: a worker may have edited since.
RefreshGit(t) ==
  /\ Locks /\ Ratified /\ status[t] \in Active
  /\ lease[t] # None /\ worktree[t] # "none"
  /\ ~AlreadyCurrent(t)
  /\ \/ Reaches(branch[t], base) /\ UNCHANGED <<store, branch>>
     \/ /\ ~Reaches(branch[t], base) /\ Reaches(base, branch[t])
        /\ branch' = [branch EXCEPT ![t] = base] /\ UNCHANGED store
     \/ /\ ~Reaches(branch[t], base) /\ ~Reaches(base, branch[t])
        /\ Make(t, {branch[t], base}, None)
        /\ branch' = [branch EXCEPT ![t] = NewCommit(t)]
  /\ Hold("refresh", {t}, branch'[t])
  /\ UNCHANGED <<engine, base, origin, lease, worktree, call, parked,
                 hands, kills>>

RefreshState(t) ==
  /\ Holding("refresh", t) /\ held' = None
  /\ UpdateHead(t, held.head)
  /\ UNCHANGED <<store, base, origin, branch, lease, worktree, call, parked,
                 hands, kills>>

-----------------------------------------------------------------------------
(* merge: into the base branch, then the record; or a merge people made.   *)

BranchTip(t) == branch[t]   \* Mutant: the branch is merged, not the head
MergedCommit(t) == head[t]

MergeGit(t) ==
  /\ Locks /\ Ratified /\ status[t] = "merge_ready" /\ Gate(t) = "merge_ready"
  /\ scope.baseRef # None
  /\ "fresh" \in Classes(t, head[t], base)
  /\ \/ Reaches(base, head[t]) /\ UNCHANGED <<store, base>>
     \/ /\ ~Reaches(base, head[t])
        /\ Make(Base, {base, MergedCommit(t)}, None)
        /\ base' = NewCommit(Base)
  /\ Hold("merge", {t}, None)
  /\ UNCHANGED <<engine, origin, branch, lease, worktree, call, parked,
                 hands, kills>>

\* The push of the base that follows on the pr surface may be rejected.
MergeState(t) ==
  /\ Holding("merge", t) /\ held' = None
  /\ Reaches(base, head[t])
  /\ Merge(t)
  /\ origin' \in {origin} \cup {b \in {base} : Reaches(b, origin)}
  /\ UNCHANGED <<store, base, branch, lease, worktree, call, parked,
                 hands, kills>>

OnTrust(t) == TRUE          \* Mutant: the merge is not looked for
\* Either ref proves that people merged the head.
Proven(t) == Reaches(base, head[t]) \/ Reaches(origin, head[t])

ObserveMerge(t) ==
  /\ Locks /\ head[t] # None /\ Proven(t)
  /\ Merge(t)
  /\ UNCHANGED gitVars

-----------------------------------------------------------------------------
(* release and park: worktrees are removed, branches are kept.             *)

AnyState(t) == TRUE         \* Mutant: git worktree remove --force
OnlyPresent(t) ==           \* Mutant: a worktree already gone is an error
  worktree[t] = "clean"
\* Clean, as the verb asks and git asks again, or already gone.
Removable(t) == worktree[t] \in {"clean", "none"}

HasLease(t) == lease[t] # None /\ lease[t].active
Released(S) ==
  [t \in Tasks |-> IF t \in S THEN [lease[t] EXCEPT !.active = FALSE]
                   ELSE lease[t]]

ReleaseGit(t) ==
  /\ Locks /\ status[t] \in Terminal /\ HasLease(t)
  /\ Removable(t)
  /\ worktree' = [worktree EXCEPT ![t] = "none"]
  /\ Hold("release", {t}, None)
  /\ UNCHANGED <<engine, shared, lease, call, parked, hands, kills>>

ReleaseState(t) ==
  /\ Holding("release", t) /\ held' = None
  /\ lease' = Released({t})
  /\ UNCHANGED <<engine, shared, worktree, call, parked, hands, kills>>

\* release --keep-worktree.
ReleaseKeep(t) ==
  /\ Locks /\ status[t] \in Terminal /\ HasLease(t)
  /\ lease' = Released({t})
  /\ UNCHANGED <<engine, shared, worktree, call, held, parked, hands, kills>>

\* Every worktree is looked at before the first is removed.
ParkCheck ==
  /\ Locks
  /\ \A t \in Tasks : HasLease(t) => Removable(t)
  /\ Hold("park", {t \in Tasks : HasLease(t) /\ worktree[t] # "none"}, None)
  /\ UNCHANGED <<engine, shared, lease, worktree, call, parked, hands, kills>>

Parking == held # None /\ held.verb = "park"

ParkRemove(t) ==
  /\ Parking /\ t \in held.tasks
  /\ worktree[t] # "none" /\ Removable(t)
  /\ worktree' = [worktree EXCEPT ![t] = "none"]
  /\ UNCHANGED <<engine, shared, lease, call, held, parked, hands, kills>>

\* A worker wrote after the check: git refuses, and so does park.
ParkRefused ==
  /\ Parking /\ \E t \in held.tasks : ~Removable(t)
  /\ held' = None
  /\ UNCHANGED <<engine, shared, lease, worktree, call, parked, hands, kills>>

ParkState ==
  /\ Parking /\ \A t \in held.tasks : worktree[t] = "none"
  /\ lease' = Released(held.tasks)
  /\ parked' = TRUE /\ held' = None
  /\ UNCHANGED <<engine, shared, worktree, call, hands, kills>>

Resume ==
  /\ parked /\ parked' = FALSE
  /\ UNCHANGED <<engine, shared, lease, worktree, call, held, hands, kills>>

-----------------------------------------------------------------------------
(* Workers, people and crashes.                                            *)

WorkOn(t) ==
  Cardinality({c \in DOMAIN store : c.on = t /\ store[c].path # None})
WithinBounds ==
  hands + Cardinality({t \in Tasks : worktree[t] = "dirty"})
    + Cardinality({c \in DOMAIN store : c.on # Base /\ store[c].path # None})
  < MaxEvents

Edit(t) ==
  /\ WithinBounds /\ worktree[t] = "clean" /\ WorkOn(t) < MaxWork
  /\ worktree' = [worktree EXCEPT ![t] = "dirty"]
  /\ UNCHANGED <<engine, shared, lease, call, held, parked, hands, kills>>

Commit(t) ==
  /\ worktree[t] = "dirty"
  /\ worktree' = [worktree EXCEPT ![t] = "clean"]
  /\ \E p \in Paths : Make(t, {branch[t]}, p)
  /\ branch' = [branch EXCEPT ![t] = NewCommit(t)]
  /\ UNCHANGED <<engine, base, origin, lease, call, held, parked,
                 hands, kills>>

\* A merge people make of commit c into tip r.
MergeInto(r, c) ==
  ~Reaches(r, c) /\ Make(Base, {r, c}, None)

\* On the base branch: a commit, or a merge of a task branch.
HandOnBase ==
  /\ \/ \E p \in Paths : Make(Base, {base}, p)
     \/ \E t \in Tasks : branch[t] # None /\ MergeInto(base, branch[t])
  /\ base' = NewCommit(Base)
  /\ UNCHANGED origin

\* On the remote: the merge of a pull request, at any commit of the branch that
\* submit, refresh or a worker pushed.
HandOnRemote ==
  /\ \E t \in Tasks, c \in DOMAIN store : c.on = t /\ MergeInto(origin, c)
  /\ origin' = NewCommit(Base)
  /\ UNCHANGED base

People ==
  /\ WithinBounds /\ hands < MaxHands /\ hands' = hands + 1
  /\ HandOnBase \/ HandOnRemote
  /\ UNCHANGED <<engine, branch, lease, worktree, call, held, parked,
                 kills>>

\* git pull in the checkout of the base branch; wddctl itself only fetches.
Pull ==
  /\ ~Reaches(base, origin)
  /\ \/ Reaches(origin, base) /\ base' = origin /\ UNCHANGED store
     \/ /\ ~Reaches(origin, base) /\ MergeInto(base, origin)
        /\ base' = NewCommit(Base)
  /\ UNCHANGED <<engine, origin, branch, lease, worktree, call, held, parked,
                 hands, kills>>

Kill ==
  /\ held # None /\ held' = None
  /\ kills < MaxKills /\ kills' = kills + 1
  /\ UNCHANGED <<engine, shared, lease, worktree, call, parked, hands>>

-----------------------------------------------------------------------------
Ends(t) == StartState(t) \/ RefreshState(t) \/ MergeState(t) \/ ReleaseState(t)

GitTask(t) ==
  \/ StartGit(t) \/ RefreshGit(t) \/ MergeGit(t) \/ ReleaseGit(t) \/ Ends(t)
  \/ Reads(t) \/ Submit(t) \/ Evidence(t)
  \/ ObserveMerge(t) \/ ReleaseKeep(t) \/ ParkRemove(t) \/ Edit(t) \/ Commit(t)

GitNext ==
  \/ EngineOnly \/ (\E p \in Plans : Plan(p)) \/ ParkCheck \/ ParkRefused \/ ParkState \/ Resume
  \/ People \/ Pull \/ Kill
  \/ \E t \in Tasks : GitTask(t)

GitSpec == GitInit /\ [][GitNext]_allVars

\* A command that runs comes to its end, a worker commits what it edited, and
\* the controller runs again what did not complete: start, refresh, release.
GitFairness ==
  /\ WF_allVars(ParkRefused) /\ WF_allVars(ParkState)
  /\ \A t \in Tasks :
       /\ WF_allVars(Ends(t)) /\ WF_allVars(ParkRemove(t))
       /\ WF_allVars(Commit(t))
       /\ SF_allVars(StartGit(t) /\ worktree[t] = "none")
       /\ SF_allVars(RefreshGit(t) /\ worktree[t] = "clean") /\ SF_allVars(ReleaseGit(t))
GitLiveSpec == GitSpec /\ GitFairness

-----------------------------------------------------------------------------
(* Properties.                                                             *)

\* The object store is closed: the history of a commit holds the histories of
\* everything in it.
StoreOK ==
  /\ DOMAIN store \subseteq Commits
  /\ \A c \in DOMAIN store :
       /\ c \in History(c) /\ History(c) \subseteq DOMAIN store
       /\ \A d \in History(c) : History(d) \subseteq History(c)

\* Every commit that a ref, a lease or a head names is there, and a task's
\* recorded head is on its branch.
GitTypeOK ==
  /\ StoreOK
  /\ {base, origin} \subseteq DOMAIN store
  /\ branch \in [Tasks -> DOMAIN store \cup {None}]
  /\ lease \in [Tasks -> [base : DOMAIN store, active : BOOLEAN] \cup {None}]
  /\ worktree \in [Tasks -> {"none", "clean", "dirty"}]
  /\ \A t \in Tasks :
       /\ lease[t] # None \/ worktree[t] # "none" => branch[t] # None
       /\ head[t] # None => branch[t] # None /\ Reaches(branch[t], head[t])

\* A task recorded as merged stays merged: its head is in the base branch here
\* or on the remote, whoever merged it and wherever a merge was killed
\* (docs/wddctl.md: "There is no way to record a merge without live proof").
DoneIsLanded ==
  \A t \in WithStatus(status, {"done"}) :
    Reaches(base, merge[t].head) \/ Reaches(origin, merge[t].head)

\* Evidence describes work: the range it names starts at a proper ancestor of
\* the head, also when people or a killed merge put the head into the base
\* (review.py: an empty range "is how a mandatory review got bypassed").
EvidenceDescribesWork ==
  \A t \in Tasks : \A r \in {review[t], verification[t]} \ {None} :
    Reaches(r.head, r.base) /\ r.base # r.head

\* Whatever wddctl itself brings into the base branch lies in a range of some
\* task that was verified and reviewed with success: a commit a worker adds
\* after the submission stays out.
BroughtChecked ==
  held' # held =>
    \A c \in store'[base'].history \ History(base) : c.on \in Tasks =>
      \E t \in Tasks :
        /\ Verified(t, verification[t])
        /\ c \in RevList(verification[t].base, head[t])
        /\ ReviewRequired(t) => /\ ReviewPassed(t, review[t])
                               /\ c \in RevList(review[t].base, head[t])
LandsAsChecked == [][BroughtChecked]_allVars

\* The recorded head only moves forward: a submission that began before a
\* refresh never puts the older commit back.
HeadForward ==
  \A t \in Tasks :
    head[t] # None =>
      \/ head'[t] # None /\ head[t] \in store'[head'[t]].history
      \/ status'[t] = "absent"
HeadsAdvance == [][HeadForward]_allVars

\* No verb destroys work: task branches are never cut back, and edits that
\* are not committed stay until their worker commits them.
NothingDropped ==
  \A t \in Tasks :
    /\ branch[t] # None =>
         branch'[t] # None /\ branch[t] \in store'[branch'[t]].history
    /\ worktree[t] = "dirty" => worktree'[t] # "none"
WorkIsKept == [][NothingDropped]_allVars

\* A refresh killed before its state write, or one made by hand, is made up
\* for: the head of a task at work does not lag behind its branch for ever.
Lags(t) == status[t] \in Active /\ head[t] # None /\ head[t] # branch[t]
HeadsCatchUp == \A t \in Tasks : Lags(t) ~> (parked \/ ~Lags(t))

\* The worktree of a finished task is eventually released, although a release
\* or a park may be killed between any two removals (docs/wddctl.md: "so
\* release always converges").
Closed(t) == status[t] \in {"done", "cancelled"}
ReleaseConverges ==
  \A t \in Tasks : Closed(t) /\ HasLease(t) ~> (parked \/ ~HasLease(t))
=============================================================================
