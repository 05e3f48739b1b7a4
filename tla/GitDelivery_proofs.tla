-------------------------- MODULE GitDelivery_proofs --------------------------
(***************************************************************************)
(* Theorems about GitDelivery, for every set of tasks, plans, paths and    *)
(* bounds.  Each step over Git is a step of TaskEngine or leaves it alone, *)
(* so what is proved of the engine holds here as well; on top of that come *)
(* the facts that relate the engine's records to the commits in Git.       *)
(***************************************************************************)
EXTENDS GitDelivery, TaskEngine_proofs

\* No commit is lost and none changes.
Grows ==
  /\ DOMAIN store \subseteq DOMAIN store'
  /\ \A c \in DOMAIN store : store'[c] = store[c]

\* Ref r (a commit) moves to r2, a descendant in the new store.
Ahead(r, r2) == r2 \in DOMAIN store' /\ History(r) \subseteq store'[r2].history

\* What a verb under the lock knows while it is between Git and the state.
HeldOK ==
  \A t \in Tasks :
    /\ Holding("start", t) =>
         branch[t] # None /\ (status[t] \in Active => lease[t] # None)
    /\ Holding("refresh", t) =>
         /\ held.head \in DOMAIN store
         /\ branch[t] # None /\ Reaches(branch[t], held.head)
         /\ head[t] # None => Reaches(held.head, head[t])
    /\ Holding("release", t) => lease[t] # None
    /\ Parking /\ t \in held.tasks => lease[t] # None

\* What a command has read of Git.
CallOK ==
  call # None =>
    /\ call.task \in Tasks /\ call.base \in DOMAIN store
    /\ call.head \in DOMAIN store \cup {None}
    /\ call.pin \in Commits \cup {None}

IInv == TypeOK /\ PlanClosed /\ GitTypeOK /\ HeldOK /\ CallOK

LEMMA NoCommit == None \notin Commits
  BY HeadsAssumption, NoneAssumption

-----------------------------------------------------------------------------
(* The store and the refs.                                                 *)

\* A new commit leaves the others alone and descends from its parents.
LEMMA MakeStep ==
  ASSUME StoreOK, NEW on, NEW parents \in SUBSET DOMAIN store, NEW p,
         Make(on, parents, p)
  PROVE  /\ StoreOK' /\ Grows
         /\ \A c \in parents : Ahead(c, NewCommit(on))
         /\ NewCommit(on) \in DOMAIN store' /\ NewCommit(on) # None
         /\ store'[NewCommit(on)].history
              = {NewCommit(on)} \cup UNION {History(c) : c \in parents}
<1> DEFINE new == NewCommit(on)
           history == {new} \cup UNION {History(c) : c \in parents}
<1>1. /\ new \in Commits \ DOMAIN store
      /\ store' = [c \in DOMAIN store \cup {new} |->
                     IF c = new THEN [history |-> history, path |-> p]
                     ELSE store[c]]
  BY DEF Make
<1> HIDE DEF new
<1>2. Grows /\ DOMAIN store' = DOMAIN store \cup {new}
  BY <1>1 DEF Grows
<1>3. store'[new].history = history
  BY <1>1
<1>4. history \subseteq DOMAIN store'
  BY <1>2 DEF StoreOK
<1>5. \A d \in history : store'[d].history \subseteq history
  <2> SUFFICES ASSUME NEW d \in history PROVE store'[d].history \subseteq history
    OBVIOUS
  <2>1. CASE d = new
    BY <2>1, <1>3
  <2>2. CASE d # new
    <3>1. PICK c \in parents : d \in History(c)
      BY <2>2
    <3>2. d \in DOMAIN store /\ History(d) \subseteq History(c)
      BY <3>1 DEF StoreOK
    <3>3. store'[d].history = History(d)
      BY <3>2, <1>2 DEF Grows, History
    <3> QED BY <3>2, <3>3
  <2> QED BY <2>1, <2>2
<1> HIDE DEF history
<1>6. ASSUME NEW c \in DOMAIN store'
      PROVE  /\ c \in History(c)' /\ History(c)' \subseteq DOMAIN store'
             /\ \A d \in History(c)' : History(d)' \subseteq History(c)'
  <2>1. CASE c = new
    BY <2>1, <1>3, <1>4, <1>5 DEF History, history
  <2>2. CASE c # new
    <3>1. c \in DOMAIN store /\ History(c)' = History(c)
      BY <2>2, <1>2 DEF Grows, History
    <3>2. \A d \in History(c) : d \in DOMAIN store /\ History(d)' = History(d)
      BY <3>1, <1>2 DEF StoreOK, Grows, History
    <3> QED BY <3>1, <3>2, <1>2 DEF StoreOK
  <2> QED BY <2>1, <2>2
<1>7. StoreOK'
  BY <1>1, <1>2, <1>6 DEF StoreOK
<1>8. \A c \in parents : Ahead(c, new)
  BY <1>2, <1>3 DEF Ahead, history
<1> QED BY <1>1, <1>2, <1>3, <1>7, <1>8, NoCommit DEF new, history

\* The same for a merge of b into a, or for a plain commit on a when b = a.
LEMMA MakeMerge ==
  ASSUME StoreOK, NEW on, NEW a \in DOMAIN store, NEW b \in DOMAIN store, NEW p,
         Make(on, {a, b}, p)
  PROVE  /\ StoreOK' /\ Grows
         /\ Ahead(a, NewCommit(on)) /\ Ahead(b, NewCommit(on))
         /\ NewCommit(on) \in DOMAIN store' /\ NewCommit(on) # None
         /\ store'[NewCommit(on)].history
              = {NewCommit(on)} \cup History(a) \cup History(b)
<1> DEFINE parents == {a, b}
<1>1. parents \in SUBSET DOMAIN store /\ Make(on, parents, p)
  OBVIOUS
<1>2. UNION {History(c) : c \in parents} = History(a) \cup History(b)
  OBVIOUS
<1> HIDE DEF parents
<1>3. /\ StoreOK' /\ Grows
      /\ \A c \in parents : Ahead(c, NewCommit(on))
      /\ NewCommit(on) \in DOMAIN store' /\ NewCommit(on) # None
      /\ store'[NewCommit(on)].history
           = {NewCommit(on)} \cup UNION {History(c) : c \in parents}
  BY <1>1, MakeStep
<1> QED BY <1>2, <1>3 DEF parents

LEMMA SameStore == StoreOK /\ UNCHANGED store => StoreOK' /\ Grows
  BY DEF StoreOK, Grows, History

\* No step loses a commit or moves a ref back.
Forward ==
  /\ StoreOK' /\ Grows
  /\ Ahead(base, base') /\ Ahead(origin, origin')
  /\ \A t \in Tasks : branch[t] # None =>
       branch'[t] # None /\ Ahead(branch[t], branch'[t])

LEMMA SameRefs ==
  ASSUME GitTypeOK, UNCHANGED shared PROVE Forward
  BY SameStore, NoCommit
  DEF GitTypeOK, shared, Forward, Ahead, StoreOK, History

LEMMA GitForward == TypeOK /\ GitTypeOK /\ GitNext => Forward
<1> SUFFICES ASSUME TypeOK, GitTypeOK, GitNext PROVE Forward
  OBVIOUS
<1> USE DEF History
<1>0. /\ StoreOK /\ base \in DOMAIN store /\ origin \in DOMAIN store
      /\ \A t \in Tasks : branch[t] # None => branch[t] \in DOMAIN store
  BY DEF GitTypeOK
<1>1. ASSUME UNCHANGED shared PROVE Forward
  BY <1>1, SameRefs
\* A step that keeps or makes commits and moves one ref.
<1>2. ASSUME StoreOK', Grows,
             base' = base \/ Ahead(base, base'),
             origin' = origin \/ Ahead(origin, origin'),
             \A t \in Tasks : branch'[t] = branch[t]
               \/ (branch[t] # None => branch'[t] # None /\ Ahead(branch[t], branch'[t]))
      PROVE  Forward
  BY <1>0, <1>2 DEF Forward, Ahead, Grows
<1>3. ASSUME NEW t \in Tasks, GitTask(t) PROVE Forward
  <2>1. CASE StartGit(t)
    BY <2>1, <1>0, <1>2, SameStore DEF StartGit, GitTypeOK
  <2>2. CASE RefreshGit(t)
    <3>1. branch[t] # None /\ branch[t] \in DOMAIN store
      BY <2>2, <1>0 DEF RefreshGit, GitTypeOK
    <3>2. CASE UNCHANGED <<store, branch>>
      BY <2>2, <3>2, <1>1 DEF RefreshGit, shared
    <3>3. CASE /\ Reaches(base, branch[t]) /\ UNCHANGED store
               /\ branch' = [branch EXCEPT ![t] = base]
      <4>1. Ahead(branch[t], base) /\ base # None
        BY <3>1, <3>3, <1>0, NoCommit DEF Reaches, StoreOK, Ahead
      <4> QED BY <2>2, <3>3, <4>1, <1>0, <1>2, SameStore
              DEF RefreshGit, GitTypeOK
    <3>4. CASE /\ Make(t, {branch[t], base}, None)
               /\ branch' = [branch EXCEPT ![t] = NewCommit(t)]
      <4>1. /\ StoreOK' /\ Grows /\ Ahead(branch[t], NewCommit(t))
            /\ NewCommit(t) # None
        BY <3>1, <3>4, <1>0, MakeMerge
      <4> QED BY <2>2, <3>4, <4>1, <1>2 DEF RefreshGit, GitTypeOK
    <3> QED BY <2>2, <3>2, <3>3, <3>4 DEF RefreshGit
  <2>3. CASE MergeGit(t)
    <3>1. CASE UNCHANGED <<store, base>>
      BY <2>3, <3>1, <1>1 DEF MergeGit, shared
    <3>2. CASE Make(Base, {base, head[t]}, None) /\ base' = NewCommit(Base)
      <4>1. head[t] \in DOMAIN store
        <5>1. head[t] \in Commits
          BY <2>3, HeadsAssumption
             DEF MergeGit, Gate, TaskGate, Verified, Verifications, TypeOK, Terminal
        <5> QED BY <5>1, NoCommit DEF GitTypeOK, StoreOK, Reaches
      <4>2. StoreOK' /\ Grows /\ Ahead(base, NewCommit(Base))
        BY <3>2, <4>1, <1>0, MakeMerge
      <4> QED BY <2>3, <3>2, <4>2, <1>2 DEF MergeGit
    <3> QED BY <2>3, <3>1, <3>2 DEF MergeGit, MergedCommit
  <2>4. CASE MergeState(t)
    BY <2>4, <1>0, <1>2, SameStore DEF MergeState, Reaches, Ahead, StoreOK
  <2>5. CASE Commit(t)
    <3>1. branch[t] # None /\ branch[t] \in DOMAIN store
      BY <2>5, <1>0 DEF Commit, GitTypeOK
    <3>2. PICK p \in Paths : Make(t, {branch[t], branch[t]}, p)
      <4>1. {branch[t], branch[t]} = {branch[t]}
        OBVIOUS
      <4> QED BY <2>5, <4>1 DEF Commit
    <3>3. /\ StoreOK' /\ Grows /\ Ahead(branch[t], NewCommit(t))
          /\ NewCommit(t) # None
      BY <3>1, <3>2, <1>0, MakeMerge
    <3> QED BY <2>5, <3>3, <1>2 DEF Commit, GitTypeOK
  <2>6. CASE StartState(t) \/ ReleaseState(t) \/ ReleaseGit(t) \/ ReleaseKeep(t)
             \/ Reads(t) \/ Edit(t) \/ ParkRemove(t)
    BY <2>6, <1>1 DEF StartState, ReleaseState, ReleaseGit, ReleaseKeep, Reads,
                      Edit, ParkRemove, gitVars
  <2>7. CASE RefreshState(t) \/ Evidence(t) \/ Submit(t) \/ ObserveMerge(t)
    BY <2>7, <1>1 DEF RefreshState, Evidence, Submit, ObserveMerge, gitVars, shared
  <2> QED BY <1>3, <2>1, <2>2, <2>3, <2>4, <2>5, <2>6, <2>7 DEF GitTask, Ends
<1>4. CASE EngineOnly \/ (\E p \in Plans : Plan(p)) \/ ParkCheck \/ ParkRefused
           \/ ParkState \/ Resume \/ Kill
  BY <1>4, <1>1 DEF EngineOnly, Plan, ParkCheck, ParkRefused, ParkState, Resume,
                    Kill, gitVars
<1>5. CASE People
  <2>1. CASE HandOnBase
    <3>1. PICK c, p : Make(Base, {base, c}, p) /\ c \in DOMAIN store
      <4>1. CASE \E p \in Paths : Make(Base, {base}, p)
        <5>1. PICK p \in Paths : Make(Base, {base}, p)
          BY <4>1
        <5>2. {base, base} = {base}
          OBVIOUS
        <5> QED BY <5>1, <5>2, <1>0
      <4> QED BY <2>1, <4>1, <1>0 DEF HandOnBase, MergeInto
    <3>2. StoreOK' /\ Grows /\ Ahead(base, NewCommit(Base))
      BY <3>1, <1>0, MakeMerge
    <3> QED BY <1>5, <2>1, <3>2, <1>2 DEF People, HandOnBase
  <2>2. CASE HandOnRemote
    <3>1. PICK c \in DOMAIN store : Make(Base, {origin, c}, None)
      BY <2>2 DEF HandOnRemote, MergeInto
    <3>2. StoreOK' /\ Grows /\ Ahead(origin, NewCommit(Base))
      BY <3>1, <1>0, MakeMerge
    <3> QED BY <1>5, <2>2, <3>2, <1>2 DEF People, HandOnRemote
  <2> QED BY <1>5, <2>1, <2>2 DEF People
<1>6. CASE Pull
  <2>1. CASE Reaches(origin, base) /\ base' = origin /\ UNCHANGED store
    BY <1>6, <2>1, <1>0, <1>2, SameStore DEF Pull, Reaches, StoreOK, Ahead
  <2>2. CASE MergeInto(base, origin) /\ base' = NewCommit(Base)
    <3>1. StoreOK' /\ Grows /\ Ahead(base, NewCommit(Base))
      <4>1. Make(Base, {base, origin}, None)
        BY <2>2 DEF MergeInto
      <4> QED BY <4>1, <1>0, MakeMerge
    <3> QED BY <1>6, <2>2, <3>1, <1>2 DEF Pull
  <2> QED BY <1>6, <2>1, <2>2 DEF Pull
<1> QED BY <1>3, <1>4, <1>5, <1>6 DEF GitNext

-----------------------------------------------------------------------------
(* What the engine sees.                                                   *)

\* The bases that evidence can name are commits.
LEMMA EvidenceBasesAreCommits ==
  ASSUME GitTypeOK, CallOK, NEW t \in Tasks, Records(t), NEW b \in EvidenceBases
  PROVE  b \in Commits
<1>1. call.head \in DOMAIN store
  BY NoCommit DEF Records, CallOK, GitTypeOK
<1>2. CASE call.pin # None
  BY <1>2 DEF EvidenceBases, CallOK, Records, GitTypeOK, StoreOK
<1>3. CASE call.pin = None
  BY <1>1, <1>3 DEF EvidenceBases, MergeBases, GitTypeOK, StoreOK
<1> QED BY <1>2, <1>3

\* Every step is one event of the engine or leaves its state alone.
LEMMA GitStepIsEngineStep == IInv /\ GitNext => [Next]_vars
<1> SUFFICES ASSUME IInv, GitNext PROVE [Next]_vars
  OBVIOUS
<1>1. ASSUME NEW t \in Tasks, TaskStep(t) PROVE [Next]_vars
  BY <1>1 DEF Next
<1>2. ASSUME UNCHANGED engine PROVE [Next]_vars
  BY <1>2 DEF engine
<1>3. ASSUME NEW t \in Tasks, GitTask(t) PROVE [Next]_vars
  <2>1. CASE StartGit(t) \/ RefreshGit(t) \/ MergeGit(t) \/ ReleaseGit(t)
             \/ ReleaseState(t) \/ Reads(t) \/ ReleaseKeep(t) \/ ParkRemove(t)
             \/ Edit(t) \/ Commit(t)
    BY <2>1, <1>2 DEF StartGit, RefreshGit, MergeGit, ReleaseGit, ReleaseState,
                      Reads, ReleaseKeep, ParkRemove, Edit, Commit
  <2>2. CASE StartState(t)
    BY <2>2, <1>1, <1>2 DEF StartState, TaskStep
  <2>3. CASE RefreshState(t)
    <3>1. held.head \in Heads /\ UpdateHead(t, held.head)
      BY <2>3, HeadsAssumption
         DEF RefreshState, IInv, HeldOK, GitTypeOK, StoreOK
    <3> QED BY <3>1, <1>1 DEF TaskStep
  <2>4. CASE MergeState(t) \/ ObserveMerge(t)
    BY <2>4, <1>1 DEF MergeState, ObserveMerge, TaskStep
  <2>5. CASE Submit(t)
    <3>1. branch[t] \in Heads
      BY <2>5, HeadsAssumption DEF Submit, IInv, GitTypeOK, StoreOK
    <3> QED BY <2>5, <3>1, <1>1 DEF Submit, SubmittedHead, TaskStep
  <2>6. CASE Evidence(t)
    <3>1. \A b \in EvidenceBases : b \in Bases
      BY <2>6, EvidenceBasesAreCommits, HeadsAssumption DEF Evidence, IInv
    <3>2. \A c \in Classes(t, call.head, call.base) : c \in {"fresh", "stale"}
      BY DEF Classes, Classify
    <3>3. TaskStep(t)
      BY <2>6, <3>1, <3>2 DEF Evidence, TaskStep
    <3> QED BY <3>3, <1>1
  <2> QED BY <1>3, <2>1, <2>2, <2>3, <2>4, <2>5, <2>6 DEF GitTask, Ends
<1>4. CASE EngineOnly
  BY <1>4, <1>1 DEF EngineOnly, TaskStep, Next
<1>5. CASE \E p \in Plans : Plan(p)
  BY <1>5 DEF Plan, Next
<1>6. CASE ParkCheck \/ ParkRefused \/ ParkState \/ Resume \/ People \/ Pull \/ Kill
  BY <1>6, <1>2 DEF ParkCheck, ParkRefused, ParkState, Resume, People, Pull, Kill
<1> QED BY <1>3, <1>4, <1>5, <1>6 DEF GitNext

\* How a task's recorded head changes: it is dropped with the task, or it
\* becomes the tip submit reads, or the tip refresh left under its lock.
Moved(t) ==
  \/ head'[t] = head[t]
  \/ head'[t] = None /\ status'[t] = "absent" /\ UNCHANGED <<shared, held>>
  \/ head'[t] = branch[t] /\ lease[t] # None /\ UNCHANGED <<shared, held>>
  \/ head'[t] = held.head /\ Holding("refresh", t) /\ UNCHANGED <<store, branch>>
       /\ held' = None

LEMMA HeadMoves == IInv /\ GitNext => \A t \in Tasks : Moved(t)
<1> SUFFICES ASSUME IInv, GitNext, NEW t \in Tasks PROVE Moved(t)
  OBVIOUS
<1>1. head \in [Tasks -> Heads \cup {None}]
  BY DEF IInv, TypeOK
<1>2. ASSUME UNCHANGED head PROVE Moved(t)
  BY <1>2 DEF Moved
<1>3. ASSUME NEW u \in Tasks, GitTask(u) PROVE Moved(t)
  <2>1. CASE StartGit(u) \/ RefreshGit(u) \/ MergeGit(u) \/ ReleaseGit(u)
             \/ ReleaseState(u) \/ Reads(u) \/ ReleaseKeep(u) \/ ParkRemove(u)
             \/ Edit(u) \/ Commit(u)
    BY <2>1, <1>2 DEF StartGit, RefreshGit, MergeGit, ReleaseGit, ReleaseState,
                      Reads, ReleaseKeep, ParkRemove, Edit, Commit, engine,
                      vars, evidence
  <2>2. CASE StartState(u)
    BY <2>2, <1>2 DEF StartState, Start, engine, vars, evidence
  <2>3. CASE RefreshState(u)
    BY <2>3, <1>1 DEF RefreshState, UpdateHead, Moved
  <2>4. CASE MergeState(u) \/ ObserveMerge(u)
    BY <2>4, <1>2 DEF MergeState, ObserveMerge, Merge
  <2>5. CASE Submit(u)
    BY <2>5, <1>1
       DEF Submit, SubmittedHead, RecordPR, UpdateHead, Moved, gitVars
  <2>6. CASE Evidence(u)
    BY <2>6, <1>2 DEF Evidence, RecordReview, RecordVerification, RecordFreshness
  <2> QED BY <1>3, <2>1, <2>2, <2>3, <2>4, <2>5, <2>6 DEF GitTask, Ends
<1>4. CASE EngineOnly
  BY <1>4, <1>2 DEF EngineOnly, Ratify, Block, Unblock, Cancel, evidence
<1>5. ASSUME NEW p \in Plans, Plan(p) PROVE Moved(t)
  BY <1>5, PlansAssumption
     DEF Plan, ApplyPlan, Kept, PlannedStatus, PlanType, Moved, gitVars
<1>6. CASE ParkCheck \/ ParkRefused \/ ParkState \/ Resume \/ People \/ Pull \/ Kill
  BY <1>6, <1>2 DEF ParkCheck, ParkRefused, ParkState, Resume, People, Pull,
                    Kill, engine, vars, evidence
<1> QED BY <1>3, <1>4, <1>5, <1>6 DEF GitNext

-----------------------------------------------------------------------------
(* The refs, the leases and the heads stay in the store.                   *)

Leases(S) == [base : S, active : BOOLEAN] \cup {None}

\* What a step does to the leases and worktrees of the tasks.
LEMMA LeaseStep ==
  ASSUME IInv, GitNext
  PROVE  /\ lease' \in [Tasks -> Leases(DOMAIN store)]
         /\ worktree' \in [Tasks -> {"none", "clean", "dirty"}]
         /\ branch' \in [Tasks -> DOMAIN store' \cup {None}]
         /\ \A t \in Tasks :
              lease'[t] # None \/ worktree'[t] # "none" => branch'[t] # None
<1>1. Forward
  BY GitForward DEF IInv
<1>2. /\ lease \in [Tasks -> Leases(DOMAIN store)]
      /\ worktree \in [Tasks -> {"none", "clean", "dirty"}]
      /\ branch \in [Tasks -> DOMAIN store \cup {None}]
      /\ base \in DOMAIN store
      /\ \A t \in Tasks :
           lease[t] # None \/ worktree[t] # "none" => branch[t] # None
  BY DEF IInv, GitTypeOK, Leases
<1>3. \A t \in Tasks : branch[t] # None => branch'[t] # None
  BY <1>1 DEF Forward
<1>4. branch' \in [Tasks -> DOMAIN store' \cup {None}]
  <2>1. \A t \in Tasks : branch[t] # None => branch'[t] \in DOMAIN store'
    BY <1>1 DEF Forward, Ahead
  <2>2. ASSUME UNCHANGED branch PROVE branch' \in [Tasks -> DOMAIN store' \cup {None}]
    BY <2>2, <1>1, <1>2 DEF Forward, Grows
  <2>3. ASSUME NEW t \in Tasks, StartGit(t)
        PROVE  branch' \in [Tasks -> DOMAIN store' \cup {None}]
    BY <2>3, <1>2 DEF StartGit
  <2>4. ASSUME NEW t \in Tasks, RefreshGit(t) \/ Commit(t)
        PROVE  branch' \in [Tasks -> DOMAIN store' \cup {None}]
    <3>1. UNCHANGED branch \/ \E c : branch' = [branch EXCEPT ![t] = c]
      BY <2>4 DEF RefreshGit, Commit
    <3>2. \A u \in Tasks : branch[u] = None => branch'[u] = None
      BY <2>4, <1>2, <3>1 DEF RefreshGit, Commit
    <3> QED BY <2>1, <3>1, <3>2, <1>2
  <2>5. \/ UNCHANGED branch
        \/ \E t \in Tasks : StartGit(t) \/ RefreshGit(t) \/ Commit(t)
    <3>1. ASSUME NEW t \in Tasks, GitTask(t)
          PROVE  UNCHANGED branch \/ StartGit(t) \/ RefreshGit(t) \/ Commit(t)
      BY <3>1 DEF GitTask, Ends, MergeGit, ReleaseGit, StartState, RefreshState,
                  MergeState, ReleaseState, Reads, Submit, Evidence,
                  ObserveMerge, ReleaseKeep, ParkRemove, Edit, gitVars, shared
    <3>2. ASSUME ~(\E t \in Tasks : GitTask(t)) PROVE UNCHANGED branch
      BY <3>2 DEF GitNext, EngineOnly, Plan, ParkCheck, ParkRefused, ParkState,
                  Resume, People, Pull, Kill, gitVars, shared
    <3> QED BY <3>1, <3>2
  <2> QED BY <2>2, <2>3, <2>4, <2>5
<1> DEFINE Result ==
      /\ lease' \in [Tasks -> Leases(DOMAIN store)]
      /\ worktree' \in [Tasks -> {"none", "clean", "dirty"}]
      /\ \A t \in Tasks :
           lease'[t] # None \/ worktree'[t] # "none" => branch'[t] # None
<1>5. ASSUME UNCHANGED lease, UNCHANGED worktree PROVE Result
  BY <1>5, <1>2, <1>3
<1>6. ASSUME NEW t \in Tasks, GitTask(t) PROVE Result
  <2>1. CASE StartGit(t)
    BY <2>1, <1>2, <1>3, NoCommit DEF StartGit, IInv, GitTypeOK, StoreOK
  <2>2. CASE StartState(t)
    <3>1. branch[t] # None /\ UNCHANGED <<branch, worktree>>
      BY <2>2 DEF StartState, IInv, HeldOK, shared
    <3>2. \/ lease' = [lease EXCEPT ![t] = [base |-> base, active |-> TRUE]]
          \/ /\ lease' = [lease EXCEPT ![t].active = TRUE]
             /\ lease[t] # None
      BY <2>2 DEF StartState, IInv, HeldOK
    <3>3. \A c \in [base : DOMAIN store, active : BOOLEAN] :
            [c EXCEPT !.active = TRUE] \in Leases(DOMAIN store)
      BY DEF Leases
    <3>4. [base |-> base, active |-> TRUE] \in Leases(DOMAIN store)
      BY <1>2 DEF Leases
    <3>5. lease' \in [Tasks -> Leases(DOMAIN store)]
      BY <3>2, <3>3, <3>4, <1>2 DEF Leases
    <3>6. \A u \in Tasks : u # t => lease'[u] = lease[u]
      BY <3>2, <1>2
    <3> QED BY <3>1, <3>5, <3>6, <1>2
  <2>3. CASE ReleaseGit(t) \/ ParkRemove(t)
    BY <2>3, <1>2, <1>3 DEF ReleaseGit, ParkRemove, shared
  <2>4. CASE ReleaseState(t) \/ ReleaseKeep(t)
    <3>1. lease[t] # None /\ lease' = Released({t}) /\ UNCHANGED <<branch, worktree>>
      BY <2>4 DEF ReleaseState, ReleaseKeep, IInv, HeldOK, HasLease, shared
    <3> QED BY <3>1, <1>2 DEF Released, Leases
  <2>5. CASE Edit(t) \/ Commit(t)
    BY <2>5, <1>2, <1>3 DEF Edit, Commit
  <2>6. CASE RefreshGit(t) \/ MergeGit(t) \/ RefreshState(t) \/ MergeState(t)
             \/ Reads(t) \/ Submit(t) \/ Evidence(t) \/ ObserveMerge(t)
    BY <2>6, <1>5 DEF RefreshGit, MergeGit, RefreshState, MergeState, Reads,
                      Submit, Evidence, ObserveMerge, gitVars
  <2> HIDE DEF Result
  <2> QED BY <1>6, <2>1, <2>2, <2>3, <2>4, <2>5, <2>6 DEF GitTask, Ends
<1>7. ASSUME NEW p \in Plans, Plan(p) PROVE Result
  <2>1. UNCHANGED lease /\ UNCHANGED worktree
    BY <1>7 DEF Plan, gitVars
  <2> HIDE DEF Result
  <2> QED BY <1>5, <2>1
<1>8. ASSUME ParkState PROVE Result
  <2>1. /\ \A t \in Tasks : t \in held.tasks => lease[t] # None
        /\ lease' = Released(held.tasks) /\ UNCHANGED <<branch, worktree>>
    BY <1>8 DEF ParkState, Parking, IInv, HeldOK, shared
  <2> QED BY <2>1, <1>2 DEF Released, Leases
<1>9. ASSUME \/ EngineOnly \/ ParkCheck \/ ParkRefused \/ Resume \/ People
             \/ Pull \/ Kill
      PROVE  Result
  <2> HIDE DEF Result
  <2> QED BY <1>9, <1>5 DEF EngineOnly, ParkCheck, ParkRefused, Resume, People, Pull,
                    Kill, gitVars
<1>10. Result
  <2> HIDE DEF Result
  <2> QED BY <1>6, <1>7, <1>8, <1>9 DEF GitNext
<1> QED BY <1>4, <1>10

LEMMA GitTypeStep == IInv /\ GitNext => GitTypeOK'
<1> SUFFICES ASSUME IInv, GitNext PROVE GitTypeOK'
  OBVIOUS
<1>1. Forward /\ GitTypeOK /\ HeldOK
  BY GitForward DEF IInv
<1>2. ASSUME NEW t \in Tasks, head'[t] # None
      PROVE  branch'[t] # None /\ Reaches(branch[t], head[t])'
  <2>1. Moved(t)
    BY HeadMoves
  <2>2. CASE head'[t] = head[t]
    BY <2>2, <1>1, <1>2 DEF GitTypeOK, Forward, Ahead, Reaches, History
  <2>3. CASE head'[t] = branch[t] /\ lease[t] # None /\ UNCHANGED shared
    BY <2>3, <1>1 DEF GitTypeOK, StoreOK, Reaches, History, shared
  <2>4. CASE head'[t] = held.head /\ Holding("refresh", t) /\ UNCHANGED <<store, branch>>
    BY <2>4, <1>1 DEF HeldOK, Reaches, History
  <2> QED BY <2>1, <2>2, <2>3, <2>4, <1>2 DEF Moved
<1>3. lease' \in [Tasks -> Leases(DOMAIN store')]
  BY <1>1, LeaseStep DEF Forward, Grows, Leases
<1> QED BY <1>1, <1>2, <1>3, LeaseStep DEF GitTypeOK, Forward, Ahead, Leases

LEMMA HeldStep == IInv /\ GitNext => HeldOK'
<1> SUFFICES ASSUME IInv, GitNext PROVE HeldOK'
  OBVIOUS
<1>1. Forward /\ GitTypeOK /\ HeldOK
  BY GitForward DEF IInv
<1>2. ASSUME held' = None PROVE HeldOK'
  BY <1>2 DEF HeldOK, Holding, Parking
<1>3. ASSUME UNCHANGED <<held, status, head, lease>> PROVE HeldOK'
  <2> SUFFICES ASSUME NEW t \in Tasks
               PROVE  /\ Holding("start", t) =>
                           /\ branch'[t] # None
                           /\ status[t] \in Active => lease[t] # None
                      /\ Holding("refresh", t) =>
                           /\ held.head \in DOMAIN store' /\ branch'[t] # None
                           /\ Reaches(branch[t], held.head)'
                           /\ head[t] # None => Reaches(held.head, head[t])'
                      /\ Holding("release", t) => lease[t] # None
                      /\ Parking /\ t \in held.tasks => lease[t] # None
    BY <1>3 DEF HeldOK, Holding, Parking, Reaches, History
  <2>1. branch[t] # None => branch'[t] # None /\ Ahead(branch[t], branch'[t])
    BY <1>1 DEF Forward
  <2>2. ASSUME Holding("refresh", t)
        PROVE  /\ held.head \in DOMAIN store'
               /\ Reaches(branch[t], held.head)'
               /\ head[t] # None => Reaches(held.head, head[t])'
    BY <2>1, <2>2, <1>1, <1>3
       DEF HeldOK, Reaches, History, Ahead, Forward, Grows
  <2> QED BY <2>1, <2>2, <1>1 DEF HeldOK
<1>4. ASSUME NEW t \in Tasks, GitTask(t) PROVE HeldOK'
  <2>1. CASE StartGit(t)
    <3>1. branch'[t] # None
      BY <2>1, <1>1, NoCommit DEF StartGit, GitTypeOK, StoreOK
    <3>2. /\ status'[t] \in Active => lease'[t] # None
          /\ held' = [verb |-> "start", tasks |-> {t}, head |-> None]
      BY <2>1 DEF StartGit, MayStart, Hold, engine, vars, Active
    <3> QED BY <3>1, <3>2 DEF HeldOK, Holding, Parking
  <2>2. CASE RefreshGit(t)
    <3>1. /\ branch[t] # None /\ UNCHANGED <<head, lease>>
          /\ held' = [verb |-> "refresh", tasks |-> {t}, head |-> branch'[t]]
      BY <2>2, <1>1 DEF RefreshGit, GitTypeOK, Hold, engine, vars, evidence
    <3>2. branch'[t] # None /\ Ahead(branch[t], branch'[t])
      BY <3>1, <1>1 DEF Forward
    <3>3. Reaches(branch[t], branch[t])'
      BY <3>2, <1>1 DEF Forward, Ahead, StoreOK, Reaches
    <3>4. head[t] # None => Reaches(branch[t], head[t])'
      BY <3>1, <3>2, <1>1 DEF GitTypeOK, Reaches, History, Ahead
    <3>5. held'.head = branch'[t] /\ held'.head \in DOMAIN store'
      BY <3>1, <3>2 DEF Ahead
    <3>6. \A u \in Tasks :
            /\ Holding("refresh", u)' => u = t
            /\ ~Holding("start", u)' /\ ~Holding("release", u)' /\ ~Parking'
      BY <3>1 DEF Holding, Parking
    <3>7. /\ Reaches(branch[t], held.head)'
          /\ head[t] # None => Reaches(held.head, head[t])'
      BY <3>1, <3>3, <3>4, <3>5 DEF Reaches, History
    <3> QED BY <3>1, <3>2, <3>5, <3>6, <3>7 DEF HeldOK
  <2>3. CASE MergeGit(t)
    <3>1. held' = [verb |-> "merge", tasks |-> {t}, head |-> None]
      BY <2>3 DEF MergeGit, Hold
    <3> QED BY <3>1 DEF HeldOK, Holding, Parking
  <2>4. CASE ReleaseGit(t)
    <3>1. /\ lease'[t] # None
          /\ held' = [verb |-> "release", tasks |-> {t}, head |-> None]
      BY <2>4 DEF ReleaseGit, HasLease, Hold
    <3> QED BY <3>1 DEF HeldOK, Holding, Parking
  <2>5. CASE Ends(t)
    BY <2>5, <1>2 DEF Ends, StartState, RefreshState, MergeState, ReleaseState
  <2>6. CASE Reads(t) \/ ParkRemove(t) \/ Edit(t) \/ Commit(t)
    BY <2>6, <1>3 DEF Reads, ParkRemove, Edit, Commit, engine, vars, evidence
  <2>7. CASE Submit(t) \/ Evidence(t) \/ ObserveMerge(t) \/ ReleaseKeep(t)
    BY <2>7, <1>2 DEF Submit, Evidence, Records, ObserveMerge, ReleaseKeep,
                      Locks, gitVars
  <2> QED BY <1>4, <2>1, <2>2, <2>3, <2>4, <2>5, <2>6, <2>7 DEF GitTask
<1>5. CASE ParkCheck
  <2>1. /\ UNCHANGED lease
        /\ held' = [verb |-> "park", head |-> None,
                    tasks |-> {t \in Tasks : HasLease(t) /\ worktree[t] # "none"}]
    BY <1>5 DEF ParkCheck, Hold
  <2> QED BY <2>1 DEF HeldOK, Holding, Parking, HasLease
<1>6. CASE EngineOnly \/ (\E p \in Plans : Plan(p)) \/ ParkRefused \/ ParkState \/ Kill
  BY <1>6, <1>2 DEF EngineOnly, Plan, Locks, ParkRefused, ParkState, Kill, gitVars
<1>7. CASE Resume \/ People \/ Pull
  BY <1>7, <1>3 DEF Resume, People, Pull, engine, vars, evidence
<1> QED BY <1>4, <1>5, <1>6, <1>7 DEF GitNext

\* What a command reads before its lock comes from one state.
LEMMA CallMoves ==
  IInv /\ GitNext =>
    \/ UNCHANGED call \/ call' = None
    \/ \E t \in Tasks : Reads(t)
<1> SUFFICES ASSUME IInv, GitNext
             PROVE  UNCHANGED call \/ call' = None \/ \E t \in Tasks : Reads(t)
  OBVIOUS
<1>1. ASSUME NEW t \in Tasks, GitTask(t)
      PROVE  UNCHANGED call \/ call' = None \/ Reads(t)
  BY <1>1 DEF GitTask, Ends, StartGit, RefreshGit, MergeGit, ReleaseGit,
              StartState, RefreshState, MergeState, ReleaseState, Submit,
              Evidence, ObserveMerge, ReleaseKeep, ParkRemove, Edit, Commit,
              gitVars
<1>2. ASSUME ~(\E t \in Tasks : GitTask(t)) PROVE UNCHANGED call
  BY <1>2 DEF GitNext, EngineOnly, Plan, ParkCheck, ParkRefused, ParkState,
              Resume, People, Pull, Kill, gitVars
<1> QED BY <1>1, <1>2

LEMMA CallStep == IInv /\ GitNext => CallOK'
<1> SUFFICES ASSUME IInv, GitNext, call' # None
             PROVE  /\ call'.task \in Tasks /\ call'.base \in DOMAIN store'
                    /\ call'.head \in DOMAIN store' \cup {None}
                    /\ call'.pin \in Commits \cup {None}
  BY DEF CallOK
<1>1. Forward /\ GitTypeOK /\ CallOK
  BY GitForward DEF IInv
<1>2. CASE UNCHANGED call
  BY <1>1, <1>2 DEF Forward, Grows, CallOK
<1>3. ASSUME NEW t \in Tasks, Reads(t)
      PROVE  /\ call'.task \in Tasks /\ call'.base \in DOMAIN store'
             /\ call'.head \in DOMAIN store' \cup {None}
             /\ call'.pin \in Commits \cup {None}
  <2>1. head[t] # None => head[t] \in DOMAIN store
    BY <1>1 DEF GitTypeOK, StoreOK, Reaches
  <2>2. review[t] # None => review[t].base \in Commits
    BY HeadsAssumption DEF IInv, TypeOK, Reviews
  <2> QED BY <1>1, <1>3, <2>1, <2>2 DEF Reads, GitTypeOK, Forward, Grows
<1> QED BY <1>2, <1>3, CallMoves

-----------------------------------------------------------------------------
(* The theorems.                                                           *)

\* Stuttering steps keep everything.
LEMMA GitInvStep == IInv /\ [GitNext]_allVars => IInv'
<1> SUFFICES ASSUME IInv, [GitNext]_allVars PROVE IInv'
  OBVIOUS
<1>1. CASE GitNext
  <2>1. TypeOK' /\ PlanClosed'
    BY <1>1, GitStepIsEngineStep, TypeStep, PlanClosedStep DEF IInv
  <2> QED BY <1>1, <2>1, GitTypeStep, HeldStep, CallStep DEF IInv
<1>2. CASE UNCHANGED allVars
  <2> USE <1>2 DEF allVars, engine, vars, planFields, evidence, reconcile,
                   gitVars, shared, IInv
  <2>1. TypeOK' /\ PlanClosed'
    BY DEF TypeOK, PlanClosed, Present
  <2>2. GitTypeOK'
    BY DEF GitTypeOK, StoreOK, History, Reaches
  <2>3. HeldOK' /\ CallOK'
    BY DEF HeldOK, CallOK, Holding, Parking, Reaches, History
  <2> QED BY <2>1, <2>2, <2>3
<1> QED BY <1>1, <1>2

LEMMA GitInitIInv == GitInit => IInv
<1> SUFFICES ASSUME GitInit PROVE IInv
  OBVIOUS
<1>1. Root \in Commits
  BY GitBoundsAssumption DEF Root, Commits
<1>2. TypeOK /\ PlanClosed
  BY NoneAssumption
     DEF GitInit, Init, TypeOK, PlanClosed, Present, Blank, Statuses, Limits
<1>3. GitTypeOK
  BY <1>1 DEF GitInit, Init, GitTypeOK, StoreOK, History, Reaches, Blank
<1>4. HeldOK /\ CallOK
  BY DEF GitInit, HeldOK, CallOK, Holding, Parking
<1> QED BY <1>2, <1>3, <1>4 DEF IInv

LEMMA GitAlwaysIInv == GitSpec => []IInv
  BY GitInitIInv, GitInvStep, PTL DEF GitSpec

\* Every ref, lease and recorded head names a commit that exists, and a
\* recorded head is on its task's branch, whatever is killed and when.
THEOREM GitTypeCorrect == GitSpec => []GitTypeOK
<1>1. IInv => GitTypeOK
  BY DEF IInv
<1> QED BY <1>1, GitAlwaysIInv, PTL

\* The engine over Git is the engine: commands, kills and people at work in
\* the repository only ever make the state machine take its own steps.
THEOREM GitImplementsEngine == GitSpec => Spec
<1>1. GitInit => Init
  BY DEF GitInit
<1>2. IInv /\ [GitNext]_allVars => [Next]_vars
  BY GitStepIsEngineStep DEF allVars, engine
<1> QED BY <1>1, <1>2, GitAlwaysIInv, PTL DEF GitSpec, Spec

\* What was proved of the engine's evidence therefore holds over Git: evidence
\* names the current head, and what is merged is the head it names.
THEOREM GitEvidenceBound == GitSpec => [](EvidenceIsCurrent /\ MergedHeadWasChecked)
<1>1. EvidenceInv => EvidenceIsCurrent /\ MergedHeadWasChecked
  BY DEF EvidenceInv
<1> QED BY GitImplementsEngine, EvidenceBound, PTL

\* No verb cuts a task branch back or removes a worktree with uncommitted
\* edits.
THEOREM WorkKept == GitSpec => WorkIsKept
<1>1. IInv /\ [GitNext]_allVars => [NothingDropped]_allVars
  <2> SUFFICES ASSUME IInv, GitNext, NEW t \in Tasks
               PROVE  /\ branch[t] # None =>
                           /\ branch'[t] # None
                           /\ branch[t] \in store'[branch'[t]].history
                      /\ worktree[t] = "dirty" => worktree'[t] # "none"
    BY DEF NothingDropped
  <2>1. branch[t] # None =>
          branch'[t] # None /\ branch[t] \in store'[branch'[t]].history
    BY GitForward DEF IInv, Forward, Ahead, GitTypeOK, StoreOK
  <2>2. worktree \in [Tasks -> {"none", "clean", "dirty"}]
    BY DEF IInv, GitTypeOK
  <2>3. ASSUME worktree[t] = "dirty" PROVE worktree'[t] # "none"
    <3>1. ASSUME UNCHANGED worktree PROVE worktree'[t] # "none"
      BY <2>3, <3>1
    <3>2. ASSUME NEW u \in Tasks, GitTask(u) PROVE worktree'[t] # "none"
      <4>1. CASE StartGit(u) \/ ReleaseGit(u) \/ ParkRemove(u) \/ Edit(u) \/ Commit(u)
        BY <4>1, <2>2, <2>3
           DEF StartGit, ReleaseGit, ParkRemove, Edit, Commit, Removable
      <4>2. CASE RefreshGit(u) \/ MergeGit(u) \/ Ends(u) \/ Reads(u) \/ Submit(u)
                 \/ Evidence(u) \/ ObserveMerge(u) \/ ReleaseKeep(u)
        BY <4>2, <3>1
           DEF RefreshGit, MergeGit, Ends, StartState, RefreshState, MergeState,
               ReleaseState, Reads, Submit, Evidence, ObserveMerge,
               ReleaseKeep, gitVars
      <4> QED BY <3>2, <4>1, <4>2 DEF GitTask
    <3>3. CASE ~(\E u \in Tasks : GitTask(u))
      BY <3>1, <3>3 DEF GitNext, EngineOnly, Plan, ParkCheck, ParkRefused,
                        ParkState, Resume, People, Pull, Kill, gitVars
    <3> QED BY <3>2, <3>3
  <2> QED BY <2>1, <2>3
<1> QED BY <1>1, GitAlwaysIInv, PTL DEF GitSpec, WorkIsKept

\* The recorded head of a task only ever moves to a descendant, until the task
\* is taken out of the plan.
THEOREM HeadsForward == GitSpec => HeadsAdvance
<1>1. IInv /\ [GitNext]_allVars => [HeadForward]_allVars
  <2> SUFFICES ASSUME IInv, GitNext, NEW t \in Tasks, head[t] # None
               PROVE  \/ head'[t] # None /\ head[t] \in store'[head'[t]].history
                      \/ status'[t] = "absent"
    BY DEF HeadForward
  <2>1. Forward /\ Moved(t) /\ GitTypeOK /\ HeldOK
    BY GitForward, HeadMoves DEF IInv
  <2>2. head[t] \in DOMAIN store /\ branch[t] # None /\ head[t] \in History(branch[t])
    BY <2>1 DEF GitTypeOK, StoreOK, Reaches
  <2>3. CASE head'[t] = head[t]
    BY <2>1, <2>2, <2>3 DEF Forward, Grows, StoreOK, History
  <2>4. CASE head'[t] = branch[t] /\ UNCHANGED shared
    BY <2>2, <2>4 DEF History, shared
  <2>5. CASE head'[t] = held.head /\ Holding("refresh", t) /\ UNCHANGED store
    BY <2>1, <2>2, <2>5, NoCommit
       DEF HeldOK, GitTypeOK, StoreOK, Reaches, History
  <2> QED BY <2>1, <2>3, <2>4, <2>5 DEF Moved
<1> QED BY <1>1, GitAlwaysIInv, PTL DEF GitSpec, HeadsAdvance

-----------------------------------------------------------------------------
(* Evidence and what is in the base branch.                                *)

\* A range of work: it starts at a proper ancestor of its end that is in the
\* base branch of this repository.
WorkRange(from, to) ==
  Reaches(to, from) /\ from # to /\ Reaches(base, from)

\* The same after a step; the ends of the range are commits, and do not change.
StillRange(from, to) ==
  /\ from \in store'[to].history /\ from # to
  /\ from \in store'[base'].history

\* Evidence, and what a command will pin its evidence to, are ranges of work.
Ranged ==
  /\ \A t \in Tasks : \A r \in {review[t], verification[t]} \ {None} :
       WorkRange(r.base, head[t])
  /\ call # None =>
       /\ Reaches(base, call.base)
       /\ call.pin # None =>
            call.head \in DOMAIN store /\ WorkRange(call.pin, call.head)

Known == IInv /\ EvidenceInv

LEMMA GitAlwaysKnown == GitSpec => []Known
<1>1. IInv /\ EvidenceIsCurrent /\ MergeReadyIsVerified /\ MergedHeadWasChecked
        => Known
  BY DEF Known, EvidenceInv
<1> QED BY <1>1, GitAlwaysIInv, GitImplementsEngine, EvidenceBound, PTL

\* A range of work stays one, while its end exists.
LEMMA RangeStays ==
  ASSUME IInv, Forward, NEW from, NEW to \in DOMAIN store, WorkRange(from, to)
  PROVE  StillRange(from, to)
  BY DEF IInv, GitTypeOK, Forward, Ahead, Grows, WorkRange, StillRange,
         Reaches, History

\* A new record names a range of work of the current head.
LEMMA NewRange ==
  ASSUME IInv, Ranged, NEW t \in Tasks, Records(t), NEW b \in EvidenceBases
  PROVE  WorkRange(b, head[t]) /\ head[t] \in DOMAIN store
<1>1. head[t] \in DOMAIN store
  BY DEF IInv, Records, GitTypeOK, StoreOK, Reaches
<1>2. CASE call.pin # None
  BY <1>1, <1>2 DEF Records, Ranged, EvidenceBases
<1>3. CASE call.pin = None
  <2>1. /\ b \in History(call.base) \cap History(head[t])
        /\ b # head[t] /\ Reaches(base, call.base)
    BY <1>3 DEF Records, Ranged, EvidenceBases, MergeBases, NonEmptyRange
  <2>2. History(call.base) \subseteq History(base)
    BY <2>1 DEF IInv, GitTypeOK, StoreOK, Reaches
  <2> QED BY <1>1, <2>1, <2>2 DEF WorkRange, Reaches
<1> QED BY <1>2, <1>3, <1>1

\* How the records of a task change in a step.
RecordMoved(t, old, new) ==
  \/ new = None
  \/ new = old /\ head'[t] = head[t]
  \/ /\ Records(t) /\ new.base \in EvidenceBases /\ head'[t] = head[t]
     /\ UNCHANGED shared

LEMMA RecordMoves ==
  ASSUME IInv, GitNext, NEW t \in Tasks
  PROVE  /\ RecordMoved(t, review[t], review'[t])
         /\ RecordMoved(t, verification[t], verification'[t])
<1> DEFINE Result == /\ RecordMoved(t, review[t], review'[t])
                     /\ RecordMoved(t, verification[t], verification'[t])
<1>1. /\ head \in [Tasks -> Heads \cup {None}]
      /\ review \in [Tasks -> Reviews \cup {None}]
      /\ verification \in [Tasks -> Verifications \cup {None}]
  BY DEF IInv, TypeOK
<1>2. ASSUME UNCHANGED <<head, review, verification>> PROVE Result
  BY <1>2 DEF RecordMoved
<1>3. ASSUME NEW u \in Tasks, GitTask(u) PROVE Result
  <2>1. CASE StartGit(u) \/ RefreshGit(u) \/ MergeGit(u) \/ ReleaseGit(u)
             \/ ReleaseState(u) \/ Reads(u) \/ ReleaseKeep(u) \/ ParkRemove(u)
             \/ Edit(u) \/ Commit(u)
    <3> HIDE DEF Result
    <3> QED BY <2>1, <1>2 DEF StartGit, RefreshGit, MergeGit, ReleaseGit,
                      ReleaseState, Reads, ReleaseKeep, ParkRemove, Edit,
                      Commit, engine, vars, evidence
  <2>2. CASE StartState(u)
    BY <2>2, <1>2 DEF StartState, Start, engine, vars, evidence
  <2>3. CASE RefreshState(u)
    BY <2>3, <1>1 DEF RefreshState, UpdateHead, DropEvidence, RecordMoved
  <2>4. CASE MergeState(u) \/ ObserveMerge(u)
    BY <2>4, <1>2 DEF MergeState, ObserveMerge, Merge
  <2>5. CASE Submit(u)
    BY <2>5, <1>1 DEF Submit, RecordPR, UpdateHead, DropEvidence, RecordMoved
  <2>6. CASE Evidence(u)
    <3>1. Records(u) /\ UNCHANGED <<head, shared>>
      BY <2>6 DEF Evidence, RecordReview, RecordVerification, RecordFreshness
    <3>2. \/ UNCHANGED <<review, verification>>
          \/ \E b \in EvidenceBases : \E o :
               /\ review' = [review EXCEPT ![u] =
                     [base |-> b, head |-> head[u], outcome |-> o]]
               /\ UNCHANGED verification
          \/ \E b \in EvidenceBases : \E s :
               /\ verification' = [verification EXCEPT ![u] =
                     [base |-> b, head |-> head[u], status |-> s]]
               /\ UNCHANGED review
      BY <2>6 DEF Evidence, RecordReview, RecordVerification, RecordFreshness
    <3>3. \/ UNCHANGED <<review[t], verification[t]>>
          \/ t = u /\ review'[t].base \in EvidenceBases /\ UNCHANGED verification[t]
          \/ t = u /\ verification'[t].base \in EvidenceBases /\ UNCHANGED review[t]
      BY <3>2, <1>1
    <3> QED BY <3>1, <3>3 DEF RecordMoved
  <2> HIDE DEF Result
  <2> QED BY <1>3, <2>1, <2>2, <2>3, <2>4, <2>5, <2>6 DEF GitTask, Ends
<1>4. ASSUME EngineOnly PROVE Result
  BY <1>4, <1>2 DEF EngineOnly, Ratify, Block, Unblock, Cancel, evidence
<1>5. ASSUME NEW p \in Plans, Plan(p) PROVE Result
  BY <1>5, PlansAssumption DEF Plan, ApplyPlan, Kept, RecordMoved
<1>6. ASSUME \/ ParkCheck \/ ParkRefused \/ ParkState \/ Resume \/ People
             \/ Pull \/ Kill
      PROVE  Result
  BY <1>6, <1>2 DEF ParkCheck, ParkRefused, ParkState, Resume, People, Pull,
                    Kill, engine, vars, evidence
<1>7. Result
  <2> HIDE DEF Result
  <2> QED BY <1>3, <1>4, <1>5, <1>6 DEF GitNext
<1> QED BY <1>7

LEMMA RangedStep == Known /\ Ranged /\ [GitNext]_allVars => Ranged'
<1> SUFFICES ASSUME Known, Ranged, [GitNext]_allVars PROVE Ranged'
  OBVIOUS
<1>1. CASE UNCHANGED allVars
  BY <1>1 DEF Ranged, WorkRange, Reaches, History, allVars, engine, vars,
              evidence, gitVars, shared
<1>2. CASE GitNext
  <2>1. IInv /\ EvidenceIsCurrent /\ Forward
    BY <1>2, GitForward DEF Known, IInv, EvidenceInv
  <2>2. ASSUME NEW t \in Tasks, NEW old, NEW new,
               old # None => WorkRange(old.base, head[t]) /\ head[t] \in DOMAIN store,
               RecordMoved(t, old, new), new # None
        PROVE  StillRange(new.base, head'[t])
    <3>1. WorkRange(new.base, head[t]) /\ head[t] \in DOMAIN store
            /\ head'[t] = head[t]
      BY <2>1, <2>2, NewRange DEF RecordMoved
    <3>2. StillRange(new.base, head[t])
      BY <2>1, <3>1, RangeStays
    <3> QED BY <3>1, <3>2
  <2>3. \A t \in Tasks :
          review[t] # None \/ verification[t] # None => head[t] \in DOMAIN store
    <3>1. \A t \in Tasks : head[t] # None => head[t] \in DOMAIN store
      BY <2>1 DEF IInv, GitTypeOK, StoreOK, Reaches
    <3>2. \A t \in Tasks :
            review[t] # None \/ verification[t] # None => head[t] \in Heads
      BY <2>1 DEF IInv, TypeOK, Reviews, Verifications, EvidenceIsCurrent
    <3> QED BY <3>1, <3>2, NoneAssumption
  <2>4. ASSUME NEW t \in Tasks
        PROVE  /\ review'[t] # None => StillRange(review'[t].base, head'[t])
               /\ verification'[t] # None =>
                    StillRange(verification'[t].base, head'[t])
    <3>1. /\ RecordMoved(t, review[t], review'[t])
          /\ RecordMoved(t, verification[t], verification'[t])
      BY <1>2, <2>1, RecordMoves
    <3>2. /\ review[t] # None =>
               WorkRange(review[t].base, head[t]) /\ head[t] \in DOMAIN store
          /\ verification[t] # None =>
               WorkRange(verification[t].base, head[t]) /\ head[t] \in DOMAIN store
      BY <2>3 DEF Ranged
    <3> QED BY <2>2, <3>1, <3>2
  <2>5. ASSUME call' # None
        PROVE  /\ call'.base \in store'[base'].history
               /\ call'.pin # None =>
                    /\ call'.head \in DOMAIN store'
                    /\ StillRange(call'.pin, call'.head)
    <3>1. CASE UNCHANGED call
      <4>1. call'.base \in store'[base'].history
        BY <2>1, <2>5, <3>1 DEF Ranged, Forward, Ahead, Reaches
      <4>2. call.pin # None => call.head \in DOMAIN store
        BY <2>5, <3>1 DEF Ranged
      <4>3. call.pin # None => StillRange(call.pin, call.head)
        BY <2>1, <2>5, <3>1, <4>2, RangeStays DEF Ranged
      <4> QED BY <2>1, <3>1, <4>1, <4>2, <4>3 DEF Forward, Grows
    <3>2. ASSUME NEW t \in Tasks, Reads(t)
          PROVE  /\ call'.base \in store'[base'].history
                 /\ call'.pin # None =>
                      /\ call'.head \in DOMAIN store'
                      /\ StillRange(call'.pin, call'.head)
      <4>1. /\ UNCHANGED <<store, base>> /\ call'.base = base
            /\ call'.head = head[t]
            /\ call'.pin = IF review[t] = None THEN None ELSE review[t].base
        BY <3>2 DEF Reads, shared
      <4>2. call'.base \in store'[base'].history
        BY <4>1, <2>1 DEF IInv, GitTypeOK, StoreOK, History
      <4>3. ASSUME call'.pin # None
            PROVE  /\ call'.head \in DOMAIN store'
                   /\ StillRange(call'.pin, call'.head)
        BY <2>1, <2>3, <4>1, <4>3, RangeStays DEF Ranged
      <4> QED BY <4>2, <4>3
    <3> QED BY <1>2, <2>1, <2>5, <3>1, <3>2, CallMoves
  <2> QED BY <2>4, <2>5 DEF Ranged, WorkRange, StillRange, Reaches, History
<1> QED BY <1>1, <1>2

LEMMA GitAlwaysRanged == GitSpec => []Ranged
<1>1. GitInit => Ranged
  BY DEF GitInit, Init, Blank, Ranged
<1> QED BY <1>1, RangedStep, GitAlwaysKnown, PTL DEF GitSpec

\* Evidence describes work: its range is never empty and starts below its head.
THEOREM EvidenceIsOfWork == GitSpec => []EvidenceDescribesWork
<1>1. Known /\ Ranged => EvidenceDescribesWork
  BY DEF Known, EvidenceInv, EvidenceIsCurrent, Ranged, WorkRange,
         EvidenceDescribesWork
<1> QED BY <1>1, GitAlwaysKnown, GitAlwaysRanged, PTL

\* wddctl itself brings only commits into the base branch that lie in the range
\* of a task's verification, and of its review where one is required.
THEOREM LandedAsChecked == GitSpec => LandsAsChecked
<1>1. Known /\ Ranged /\ [GitNext]_allVars => [BroughtChecked]_allVars
  <2> SUFFICES ASSUME Known, Ranged, GitNext, held' # held,
                      NEW c \in store'[base'].history \ History(base),
                      c.on \in Tasks
               PROVE  \E t \in Tasks :
                        /\ Verified(t, verification[t])
                        /\ c \in RevList(verification[t].base, head[t])
                        /\ ReviewRequired(t) =>
                             /\ ReviewPassed(t, review[t])
                             /\ c \in RevList(review[t].base, head[t])
    BY DEF BroughtChecked, RevList
  <2>1. IInv /\ Forward
    BY GitForward DEF Known, IInv
  <2>2. base' # base
    BY <2>1 DEF IInv, GitTypeOK, Forward, Grows, History
  <2>3. PICK t \in Tasks : MergeGit(t)
    <3>1. ASSUME NEW t \in Tasks, GitTask(t) PROVE MergeGit(t)
      BY <2>2, <3>1 DEF GitTask, Ends, StartGit, RefreshGit, ReleaseGit, StartState,
                  RefreshState, MergeState, ReleaseState, Reads, Submit,
                  Evidence, ObserveMerge, ReleaseKeep, ParkRemove, Edit, Commit,
                  gitVars, shared
    <3>2. ASSUME ~(\E t \in Tasks : GitTask(t)) PROVE FALSE
      BY <2>2, <3>2 DEF GitNext, EngineOnly, Plan, ParkCheck, ParkRefused,
                  ParkState, Resume, People, Pull, Kill, gitVars, shared
    <3> QED BY <3>1, <3>2
  <2>4. /\ Verified(t, verification[t])
        /\ ReviewRequired(t) => ReviewPassed(t, review[t])
    BY <2>3 DEF MergeGit, Gate, TaskGate, Terminal
  <2>5. Make(Base, {base, head[t]}, None) /\ base' = NewCommit(Base)
    BY <2>2, <2>3 DEF MergeGit, MergedCommit
  <2>6. head[t] \in DOMAIN store /\ base \in DOMAIN store /\ StoreOK
    BY <2>1, <2>4, NoneAssumption
       DEF Verified, IInv, TypeOK, Verifications, GitTypeOK, StoreOK, Reaches
  <2>7. c \in {NewCommit(Base)} \cup History(base) \cup History(head[t])
    BY <2>5, <2>6, MakeMerge
  <2>8. c # NewCommit(Base)
    BY BaseAssumption DEF NewCommit
  <2>9. c \in History(head[t]) /\ c \notin History(base)
    BY <2>7, <2>8
  <2>10. ASSUME NEW b, WorkRange(b, head[t]) PROVE c \in RevList(b, head[t])
    <3>1. History(b) \subseteq History(base)
      BY <2>6, <2>10 DEF WorkRange, Reaches, StoreOK
    <3> QED BY <2>9, <3>1 DEF RevList
  <2>11. /\ verification[t] # None /\ WorkRange(verification[t].base, head[t])
         /\ review[t] # None => WorkRange(review[t].base, head[t])
    BY <2>4 DEF Ranged, Verified
  <2> QED BY <2>4, <2>10, <2>11 DEF ReviewPassed, RevList
<1> QED BY <1>1, GitAlwaysKnown, GitAlwaysRanged, PTL DEF GitSpec, LandsAsChecked

\* Without a merge, a task that is done was done, with the same record.
LEMMA DoneKeepsRecord ==
  ASSUME IInv, GitNext, ~(\E u \in Tasks : MergeState(u) \/ ObserveMerge(u)),
         NEW t \in Tasks, status'[t] = "done"
  PROVE  status[t] = "done" /\ merge'[t] = merge[t]
<1> DEFINE Result == status[t] = "done" /\ merge'[t] = merge[t]
<1>1. /\ status \in [Tasks -> Statuses]
      /\ merge \in [Tasks -> Merges \cup {None}]
  BY DEF IInv, TypeOK
<1>2. ASSUME UNCHANGED <<status, merge>> PROVE Result
  BY <1>2
<1>3. ASSUME NEW u \in Tasks, GitTask(u) PROVE Result
  <2>1. CASE StartGit(u) \/ RefreshGit(u) \/ MergeGit(u) \/ ReleaseGit(u)
             \/ ReleaseState(u) \/ Reads(u) \/ ReleaseKeep(u) \/ ParkRemove(u)
             \/ Edit(u) \/ Commit(u)
    BY <2>1, <1>2 DEF StartGit, RefreshGit, MergeGit, ReleaseGit,
                      ReleaseState, Reads, ReleaseKeep, ParkRemove, Edit,
                      Commit, engine, vars, evidence
  <2>2. CASE StartState(u)
    BY <2>2, <1>1, <1>2 DEF StartState, Start, SetStatus, engine, vars, evidence
  <2>3. CASE RefreshState(u)
    BY <2>3, <1>1 DEF RefreshState, UpdateHead, Pushed, DropEvidence, SetStatus,
                      Active
  <2>4. CASE Submit(u)
    BY <2>4, <1>1 DEF Submit, RecordPR, UpdateHead, Pushed, DropEvidence,
                      SetStatus, Active
  <2>5. CASE Evidence(u)
    <3>1. UNCHANGED merge
      BY <2>5 DEF Evidence, RecordReview, RecordVerification, RecordFreshness
    <3>2. UNCHANGED status
            \/ \E s \in {"in_progress", "merge_ready"} : SetStatus(u, s)
      BY <2>5 DEF Evidence, RecordReview, RecordVerification, RecordFreshness
    <3> QED BY <3>1, <3>2, <1>1 DEF SetStatus
  <2> HIDE DEF Result
  <2> QED BY <1>3, <2>1, <2>2, <2>3, <2>4, <2>5 DEF GitTask, Ends
<1>4. ASSUME EngineOnly PROVE Result
  BY <1>4, <1>1 DEF EngineOnly, Ratify, Block, Unblock, Cancel, SetStatus, evidence
<1>5. ASSUME NEW p \in Plans, Plan(p) PROVE Result
  BY <1>5, <1>1, PlansAssumption DEF Plan, ApplyPlan, PlannedStatus, Kept
<1>6. ASSUME \/ ParkCheck \/ ParkRefused \/ ParkState \/ Resume \/ People
             \/ Pull \/ Kill
      PROVE  Result
  BY <1>6, <1>2 DEF ParkCheck, ParkRefused, ParkState, Resume, People, Pull,
                    Kill, engine, vars, evidence
<1>7. Result
  <2> HIDE DEF Result
  <2> QED BY <1>3, <1>4, <1>5, <1>6 DEF GitNext
<1> QED BY <1>7

\* A finished task's head is in the base branch, here or on the remote, however
\* it came there, and stays there.
THEOREM DoneLanded == GitSpec => []DoneIsLanded
<1>1. GitInit => DoneIsLanded
  BY DEF GitInit, Init, DoneIsLanded, WithStatus
<1>2. Known /\ DoneIsLanded /\ [GitNext]_allVars => DoneIsLanded'
  <2> SUFFICES ASSUME Known, DoneIsLanded, [GitNext]_allVars,
                      NEW t \in Tasks, status'[t] = "done"
               PROVE  \/ merge'[t].head \in store'[base'].history
                      \/ merge'[t].head \in store'[origin'].history
    BY DEF DoneIsLanded, WithStatus, Reaches, History
  <2>1. CASE UNCHANGED allVars
    BY <2>1 DEF DoneIsLanded, WithStatus, Reaches, History, allVars, engine,
                vars, evidence, gitVars, shared
  <2>2. CASE GitNext
    <3>1. /\ Forward /\ status \in [Tasks -> Statuses]
          /\ merge \in [Tasks -> Merges \cup {None}]
      BY <2>2, GitForward DEF Known, IInv, TypeOK
    <3>2. ASSUME NEW h, Reaches(base, h) \/ Reaches(origin, h)
          PROVE  h \in store'[base'].history \/ h \in store'[origin'].history
      BY <3>1, <3>2 DEF Forward, Ahead, Reaches, History
    <3>3. CASE status[t] = "done" /\ merge'[t] = merge[t]
      BY <3>2, <3>3 DEF DoneIsLanded, WithStatus
    <3>4. CASE merge'[t].head = head[t] /\ Proven(t)
      BY <3>2, <3>4 DEF Proven
    <3>5. \/ status[t] = "done" /\ merge'[t] = merge[t]
          \/ merge'[t].head = head[t] /\ Proven(t)
      <4>1. ASSUME NEW u \in Tasks, Merge(u), Proven(u)
            PROVE  \/ status[t] = "done" /\ merge'[t] = merge[t]
                   \/ merge'[t].head = head[t] /\ Proven(t)
        BY <3>1, <4>1 DEF Merge, SetStatus
      <4>2. ASSUME NEW u \in Tasks, MergeState(u) \/ ObserveMerge(u)
            PROVE  Merge(u) /\ Proven(u)
        BY <4>2 DEF MergeState, ObserveMerge, Proven
      <4>3. ASSUME ~(\E u \in Tasks : MergeState(u) \/ ObserveMerge(u))
            PROVE  status[t] = "done" /\ merge'[t] = merge[t]
        BY <2>2, <4>3, DoneKeepsRecord DEF Known
      <4> QED BY <4>1, <4>2, <4>3
    <3> QED BY <3>3, <3>4, <3>5
  <2> QED BY <2>1, <2>2
<1> QED BY <1>1, <1>2, GitAlwaysKnown, PTL DEF GitSpec
=============================================================================
