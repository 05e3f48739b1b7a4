--------------------------- MODULE Commits_proofs ---------------------------
(***************************************************************************)
(* The state lock and the commits under it, for any number of processes,   *)
(* machines, crashes and commands, on the condition the code needs: a dead *)
(* holder's lock has at most one process that may reclaim it.              *)
(***************************************************************************)
EXTENDS Commits, TLAPS

\* At most two processes of a machine use the lock.  Without it the lock is
\* not exclusive: run commits_one_host shows how.
TwoPerHost ==
  \A p, q, r \in Procs :
    Host[p] = Host[q] /\ Host[q] = Host[r] => p = q \/ q = r \/ p = r

\* Where the lock file points, for each place in locked().
Lockstep(p) ==
  /\ pc[p] = "created" => file = [by |-> p, written |-> FALSE]
  /\ pc[p] \in {"inside", "releasing"} => file = [by |-> p, written |-> TRUE]
  /\ pc[p] \in {"rechecking", "unlinking"} =>
       /\ seen[p] \in Procs /\ seen[p] # p
       /\ Host[seen[p]] = Host[p] /\ pc[seen[p]] = "dead"
  /\ pc[p] = "unlinking" => file = [by |-> seen[p], written |-> TRUE]

LockInv == LockTypeOK /\ \A p \in Procs : Lockstep(p)

\* A lock file is never mistaken for its absence.
LEMMA FileIsSome ==
  \A p \in Procs : \A w \in BOOLEAN : [by |-> p, written |-> w] # None
BY LockNoneAssumption DEF Files

\* A step of process p keeps the file where every other process believes it.
LEMMA LockStepInv ==
  ASSUME TwoPerHost, LockInv, [LockNext]_lockVars PROVE LockInv'
<1> USE LockNoneAssumption, FileIsSome DEF LockInv, LockTypeOK, Lockstep, At, Goto, Files,
                               Places, Forgotten
<1>1. CASE UNCHANGED lockVars
  BY <1>1 DEF lockVars
<1>2. ASSUME NEW p \in Procs,
             \/ Request(p) \/ Exists(p) \/ ReadHolder(p) \/ Judge(p)
             \/ GiveUp(p) \/ TryAgain(p)
      PROVE  LockInv'
  <2>1. UNCHANGED file
    BY <1>2 DEF Request, Exists, ReadHolder, Judge, GiveUp, TryAgain
  <2>2. LockTypeOK'
    BY <1>2 DEF Request, Exists, ReadHolder, Holder, Judge, GiveUp, TryAgain
  <2>3. ASSUME NEW q \in Procs PROVE Lockstep(q)'
    <3>1. CASE q # p
      BY <1>2, <2>1, <3>1
         DEF Request, Exists, ReadHolder, Judge, GiveUp, TryAgain
    <3>2. CASE q = p /\ ~Judge(p)
      BY <1>2, <2>1, <3>2
         DEF Request, Exists, ReadHolder, GiveUp, TryAgain
    <3>3. CASE q = p /\ Judge(p)
      BY <1>2, <2>1, <3>3 DEF Judge, HolderIsGone
    <3> QED BY <3>1, <3>2, <3>3
  <2> QED BY <2>2, <2>3
<1>3. ASSUME NEW p \in Procs, Create(p) PROVE LockInv'
  <2>1. /\ file = None /\ file' = [by |-> p, written |-> FALSE]
        /\ pc' = [pc EXCEPT ![p] = "created"] /\ seen' = seen
    BY <1>3 DEF Create
  <2>2. \A q \in Procs :
          pc[q] \notin {"created", "inside", "releasing", "unlinking"}
    BY <2>1
  <2>3. LockTypeOK'
    BY <2>1
  <2>4. ASSUME NEW q \in Procs, q # p PROVE Lockstep(q)'
    <3>1. pc'[q] = pc[q] /\ (pc[seen[q]] = "dead" => pc'[seen[q]] = "dead")
      BY <1>3, <2>1, <2>4 DEF Create
    <3> QED BY <2>1, <2>2, <2>4, <3>1
  <2>5. Lockstep(p)'
    BY <2>1
  <2> QED BY <2>3, <2>4, <2>5
<1>4. ASSUME NEW p \in Procs, Recheck(p) PROVE LockInv'
  <2>1. LockTypeOK' /\ UNCHANGED file
    BY <1>4 DEF Recheck
  <2>2. Holder = seen[p] => file = [by |-> seen[p], written |-> TRUE]
    BY <1>4 DEF Recheck, Holder
  <2>3. ASSUME NEW q \in Procs PROVE Lockstep(q)'
    BY <1>4, <2>1, <2>2 DEF Recheck
  <2> QED BY <2>1, <2>3
<1>5. ASSUME NEW p \in Procs, Unlink(p) PROVE LockInv'
  \* Whoever else is about to unlink this file is a third process of its host.
  <2>1. \A q \in Procs : pc[q] = "unlinking" => q = p
    BY <1>5, TwoPerHost DEF Unlink, TwoPerHost
  <2>2. \A q \in Procs : pc[q] \notin {"created", "inside", "releasing"}
    BY <1>5 DEF Unlink
  <2> QED BY <1>5, <2>1, <2>2 DEF Unlink
<1>6. ASSUME NEW p \in Procs, WriteToken(p) PROVE LockInv'
  <2>1. file = [by |-> p, written |-> FALSE]
    BY <1>6 DEF WriteToken
  <2>2. file' = [by |-> p, written |-> TRUE]
    BY <1>6, <2>1 DEF WriteToken
  <2>3. LockTypeOK'
    BY <1>6, <2>2 DEF WriteToken
  <2>4. ASSUME NEW q \in Procs PROVE Lockstep(q)'
    BY <1>6, <2>1, <2>2 DEF WriteToken
  <2> QED BY <2>3, <2>4
<1>7. ASSUME NEW p \in Procs, Leave(p) PROVE LockInv'
  BY <1>7 DEF Leave, Holder
<1>8. ASSUME NEW p \in Procs, Release(p) PROVE LockInv'
  <2>1. \A q \in Procs :
          q # p => pc[q] \notin {"created", "inside", "releasing", "unlinking"}
    BY <1>8 DEF Release
  <2> QED BY <1>8, <2>1 DEF Release
<1>9. ASSUME NEW p \in Procs, Crash(p) PROVE LockInv'
  BY <1>9 DEF Crash
<1> QED BY <1>1, <1>2, <1>3, <1>4, <1>5, <1>6, <1>7, <1>8, <1>9
        DEF LockNext, Acquire

\* Every step of a command is a step of the lock or leaves it alone.
LEMMA CommitIsLockStep == [Next]_vars => [LockNext]_lockVars
BY DEF Next, Step, Lock, LockUnavailable, Killed, Issue, Load, Write, Unlock,
       Finish, LockNext, vars

\* One holder at a time, whose file is there until it is released or killed.
THEOREM LockIsExclusive ==
  ASSUME TwoPerHost
  PROVE  Spec => [](MutualExclusion /\ NeverStolenFrom)
<1>1. Init => LockInv
  BY LockNoneAssumption
     DEF Init, LockInit, LockInv, LockTypeOK, Lockstep, Places
<1>2. LockInv /\ [Next]_vars => LockInv'
  BY LockStepInv, CommitIsLockStep
<1>3. ASSUME LockInv PROVE MutualExclusion /\ NeverStolenFrom
  <2>1. \A p \in Procs : Holding(p) => file # None /\ file.by = p
    <3>1. ASSUME NEW p \in Procs, Holding(p)
          PROVE  \E w \in BOOLEAN : file = [by |-> p, written |-> w]
      BY <1>3, <3>1 DEF LockInv, Lockstep, Holding
    <3> QED BY <3>1, FileIsSome
  <2> QED BY <2>1 DEF MutualExclusion, NeverStolenFrom
<1> QED BY <1>1, <1>2, <1>3, PTL DEF Spec

-----------------------------------------------------------------------------
(* Commits.                                                                *)

CommitTypeOK ==
  /\ events \in Seq(Commands) /\ reported \subseteq Commands
  /\ cmd \in [Procs -> Commands \cup {None}]
  /\ loaded \in [Procs -> Seq(Commands) \cup {None}]
  /\ answer \in [Procs -> Answers \cup {None}]

\* What a process knows, from its load to its answer, is still so.
Knows(p) ==
  /\ pc[p] \notin {"idle", "dead"} => cmd[p] \in Commands
  /\ pc[p] \notin {"inside", "releasing"} => loaded[p] = None /\ answer[p] = None
  /\ pc[p] = "inside" /\ loaded[p] = None => answer[p] = None
  /\ pc[p] = "inside" /\ loaded[p] # None /\ answer[p] = None =>
       /\ loaded[p] = events
       /\ ~Duplicate(cmd[p], events) /\ ~Conflict(cmd[p], events)
  /\ Stored(p) => cmd[p] \in Entries(events)

CommitInv ==
  /\ CommitTypeOK
  /\ \A p \in Procs : Knows(p)
  /\ reported \subseteq Entries(events)
  /\ OncePerKey /\ AppliedToExpected

\* A step of the lock alone keeps what commands know.
LEMMA CommitInvKept ==
  ASSUME CommitInv, NEW p \in Procs, NEW s \in Places,
         UNCHANGED events,
         pc' = [pc EXCEPT ![p] = s], pc \in [Procs -> Places],
         \A q \in Procs \ {p} :
           UNCHANGED <<cmd[q], loaded[q], answer[q]>>,
         CommitTypeOK', Knows(p)', reported' \subseteq Entries(events)
  PROVE  CommitInv'
<1>1. ASSUME NEW q \in Procs PROVE Knows(q)'
  BY DEF CommitInv, Knows, Stored, Duplicate, Conflict
<1> QED BY <1>1 DEF CommitInv, OncePerKey, AppliedToExpected

\* What a step of locked() before its body does to the places.
LEMMA AcquireMoves ==
  ASSUME LockTypeOK, NEW p \in Procs, Acquire(p)
  PROVE  /\ pc[p] \notin {"idle", "dead", "inside", "releasing"}
         /\ \E s \in Places \ {"idle", "dead", "releasing"} :
              pc' = [pc EXCEPT ![p] = s]
BY DEF Acquire, Create, Exists, ReadHolder, Judge, TryAgain, Recheck, Unlink,
       WriteToken, At, Goto, Places, LockTypeOK

\* Under the lock, with one holder, each step of a command keeps CommitInv.
LEMMA CommitStepInv ==
  ASSUME LockInv, MutualExclusion, CommitInv, [Next]_vars PROVE CommitInv'
<1> USE AnswerAssumption DEF CommitTypeOK, session, Places, Answers
<1>0. pc \in [Procs -> Places] /\ LockTypeOK
  BY DEF LockInv, LockTypeOK
<1>1. ASSUME NEW p \in Procs, Lock(p) PROVE CommitInv'
  <2>1. /\ pc[p] \notin {"idle", "dead", "inside", "releasing"}
        /\ UNCHANGED <<events, cmd, loaded, answer, reported>>
    BY <1>0, <1>1, AcquireMoves DEF Lock
  <2>2. PICK s \in Places \ {"idle", "dead", "releasing"} :
          pc' = [pc EXCEPT ![p] = s]
    BY <1>0, <1>1, AcquireMoves DEF Lock
  <2>3. Knows(p)'
    BY <1>0, <2>1, <2>2 DEF CommitInv, Knows, Stored
  <2> QED BY <1>0, <2>1, <2>2, <2>3, CommitInvKept DEF CommitInv
<1>2. ASSUME NEW p \in Procs, NEW c \in Commands, Issue(p, c)
      PROVE  CommitInv'
  <2>1. /\ pc[p] = "idle" /\ pc' = [pc EXCEPT ![p] = "trying"]
        /\ cmd' = [cmd EXCEPT ![p] = c]
        /\ UNCHANGED <<events, loaded, answer, reported>>
    BY <1>2 DEF Issue, Request, At, Goto
  <2>2. CommitTypeOK' /\ Knows(p)'
    BY <1>0, <2>1 DEF CommitInv, Knows, Stored
  <2> QED BY <1>0, <2>1, <2>2, CommitInvKept DEF CommitInv
<1>3. ASSUME NEW p \in Procs, LockUnavailable(p) \/ Killed(p)
      PROVE  CommitInv'
  <2>1. PICK s \in {"idle", "dead"} : pc' = [pc EXCEPT ![p] = s]
    BY <1>3 DEF LockUnavailable, Killed, GiveUp, Crash, Goto
  <2>2. Forget(p) /\ UNCHANGED <<events, reported>>
    BY <1>3 DEF LockUnavailable, Killed
  <2>3. CommitTypeOK' /\ Knows(p)'
    BY <1>0, <2>1, <2>2 DEF CommitInv, Knows, Stored, Forget
  <2> QED BY <1>0, <2>1, <2>2, <2>3, CommitInvKept DEF CommitInv, Forget
<1>4. ASSUME NEW p \in Procs, Load(p) PROVE CommitInv'
  <2>1. /\ pc[p] = "inside" /\ loaded[p] = None
        /\ loaded' = [loaded EXCEPT ![p] = events]
        /\ UNCHANGED <<lockVars, events, cmd, reported>>
    BY <1>4 DEF Load, At
  <2>2. cmd[p] \in Commands /\ answer[p] = None
    BY <1>0, <2>1 DEF CommitInv, Knows
  <2>3. PICK a \in {"duplicate", "refused", None} :
          /\ answer' = [answer EXCEPT ![p] = a]
          /\ a = "duplicate" => Duplicate(cmd[p], events)
          /\ a = None =>
               ~Duplicate(cmd[p], events) /\ ~Conflict(cmd[p], events)
    BY <1>4, <2>2 DEF Load, CommitInv
  <2>4. Duplicate(cmd[p], events) => cmd[p] \in Entries(events)
    BY <2>2, CommandsAssumption DEF Duplicate, Entries, CommitInv
  <2>5. CommitTypeOK'
    BY <2>1, <2>3 DEF CommitInv
  <2>6. Knows(p)'
    BY <1>0, <2>1, <2>2, <2>3, <2>4, <2>5
       DEF CommitInv, Knows, Stored, lockVars, Duplicate, Conflict, Entries
  <2>7. pc' = [pc EXCEPT ![p] = "inside"]
    BY <1>0, <2>1 DEF lockVars
  <2> QED BY <1>0, <2>1, <2>3, <2>5, <2>6, <2>7, CommitInvKept DEF CommitInv
<1>5. ASSUME NEW p \in Procs, Write(p) PROVE CommitInv'
  <2>1. /\ pc[p] = "inside" /\ loaded[p] # None /\ answer[p] = None
        /\ events' = Append(loaded[p], cmd[p])
        /\ answer' = [answer EXCEPT ![p] = "applied"]
        /\ UNCHANGED <<pc, cmd, loaded, reported>>
    BY <1>5 DEF Write, At, lockVars
  <2> DEFINE c == cmd[p]
  <2>2. /\ events' = Append(events, c) /\ c \in Commands
        /\ ~Duplicate(c, events) /\ ~Conflict(c, events)
    BY <1>0, <2>1 DEF CommitInv, Knows
  <2>3. CommitTypeOK'
    BY <2>1, <2>2 DEF CommitInv
  <2>4. Entries(events') = Entries(events) \cup {c}
    <3>1. events \in Seq(Commands)
      BY DEF CommitInv
    <3>2. /\ DOMAIN events' = DOMAIN events \cup {Len(events) + 1}
          /\ \A i \in DOMAIN events : events'[i] = events[i]
          /\ events'[Len(events) + 1] = c
      BY <2>2, <3>1
    <3> QED BY <3>2 DEF Entries
  <2>5. Knows(p)'
    BY <1>0, <2>1, <2>2, <2>4 DEF CommitInv, Knows, Stored
  <2>6. ASSUME NEW q \in Procs, q # p PROVE Knows(q)'
    <3>1. pc[q] # "inside"
      BY <2>1, <2>6 DEF MutualExclusion, Holding
    <3> QED BY <2>1, <2>4, <2>6, <3>1 DEF CommitInv, Knows, Stored
  <2>7. OncePerKey'
    <3>1. \A i \in DOMAIN events : c.key # None => events[i].key # c.key
      BY <2>2 DEF Duplicate, Entries
    <3> QED BY <2>2, <3>1 DEF CommitInv, OncePerKey
  <2>8. AppliedToExpected'
    <3>1. c.expected # None => c.expected = Len(events)
      BY <2>2 DEF Conflict
    <3> QED BY <2>2, <3>1 DEF CommitInv, AppliedToExpected
  <2> QED BY <2>1, <2>3, <2>4, <2>5, <2>6, <2>7, <2>8 DEF CommitInv
<1>6. ASSUME NEW p \in Procs, Unlock(p) \/ Finish(p) PROVE CommitInv'
  <2>1. PICK s \in {"idle", "releasing"} : pc' = [pc EXCEPT ![p] = s]
    BY <1>6 DEF Unlock, Finish, Leave, Release, Goto
  <2>2. UNCHANGED events
    BY <1>6 DEF Unlock, Finish, Report
  <2>3. CASE UNCHANGED <<cmd, loaded, answer, reported>> /\ s = "releasing"
    <3>1. pc[p] = "inside" \/ pc[p] = "releasing"
      BY <1>6 DEF Unlock, Finish, Leave, Release, At
    <3>2. Knows(p)'
      BY <1>0, <2>1, <2>2, <2>3, <3>1 DEF CommitInv, Knows, Stored
    <3> QED BY <1>0, <2>1, <2>2, <2>3, <3>2, CommitInvKept DEF CommitInv
  <2>4. CASE Report(p) /\ s = "idle"
    <3>1. CommitTypeOK' /\ reported' \subseteq Entries(events)
      <4>1. reported' \subseteq reported \cup {cmd[p]}
        BY <2>4 DEF Report
      <4>2. Stored(p) => cmd[p] \in Entries(events)
        BY DEF CommitInv, Knows
      <4>3. Entries(events) \subseteq Commands
        BY DEF CommitInv, Entries
      <4>4. reported' \subseteq Entries(events)
        BY <2>4, <4>1, <4>2 DEF Report, CommitInv
      <4> QED BY <2>2, <2>4, <4>3, <4>4 DEF Report, Forget, CommitInv
    <3>2. Knows(p)'
      BY <1>0, <2>1, <2>2, <2>4 DEF CommitInv, Knows, Stored, Report, Forget
    <3> QED BY <1>0, <2>1, <2>2, <2>4, <3>1, <3>2, CommitInvKept
            DEF CommitInv, Report, Forget
  <2>5. pc'[p] = s
    BY <1>0, <2>1
  <2> QED BY <1>0, <1>6, <2>3, <2>4, <2>5
          DEF Unlock, Finish, Leave, Release, Goto
<1>7. CASE UNCHANGED vars
  BY <1>7 DEF vars, lockVars, CommitInv, Knows, Stored, Duplicate, Conflict,
              Entries, OncePerKey, AppliedToExpected
<1> QED BY <1>1, <1>2, <1>3, <1>4, <1>5, <1>6, <1>7 DEF Next, Step

\* Under an exclusive lock every reported command is in the state, a keyed
\* command is there once, and one issued against a revision followed it.
THEOREM CommitsAreSafe ==
  ASSUME TwoPerHost
  PROVE  Spec => [](ReportedIsStored /\ OncePerKey /\ AppliedToExpected)
<1>1. Init => CommitInv
  BY AnswerAssumption
     DEF Init, LockInit, CommitInv, CommitTypeOK, Knows, Stored, Entries,
         OncePerKey, AppliedToExpected, Answers
<1>2. Init => LockInv
  BY LockNoneAssumption
     DEF Init, LockInit, LockInv, LockTypeOK, Lockstep, Places
<1>3. LockInv /\ [Next]_vars => LockInv'
  BY LockStepInv, CommitIsLockStep
<1>4. MutualExclusion /\ LockInv /\ CommitInv /\ [Next]_vars => CommitInv'
  BY CommitStepInv
<1>5. CommitInv => ReportedIsStored /\ OncePerKey /\ AppliedToExpected
  BY DEF CommitInv, Knows, ReportedIsStored, At
<1>6. Spec => []MutualExclusion
  BY LockIsExclusive, PTL
<1> QED BY <1>1, <1>2, <1>3, <1>4, <1>5, <1>6, PTL DEF Spec

\* A keyed command that is sent again after a crash or a lost answer is not
\* applied a second time.
THEOREM KeysOnce == ASSUME TwoPerHost PROVE Spec => []OncePerKey
  BY CommitsAreSafe, PTL

\* Nothing stored is ever replaced: a writer appends to what is stored now.
THEOREM LogOnlyGrows == ASSUME TwoPerHost PROVE Spec => LogGrows
<1>1. Init => CommitInv /\ LockInv
  BY LockNoneAssumption, AnswerAssumption
     DEF Answers, Init, LockInit, LockInv, LockTypeOK, Lockstep, Places, CommitInv,
         CommitTypeOK, Knows, Stored, Entries, OncePerKey, AppliedToExpected
<1>2. LockInv /\ [Next]_vars => LockInv'
  BY LockStepInv, CommitIsLockStep
<1>3. MutualExclusion /\ LockInv /\ CommitInv /\ [Next]_vars => CommitInv'
  BY CommitStepInv
<1>4. Spec => []MutualExclusion
  BY LockIsExclusive, PTL
<1> DEFINE Grows ==
      /\ \A i \in DOMAIN events : i \in DOMAIN events' /\ events'[i] = events[i]
      /\ Len(events') <= Len(events) + 1
<1>5. CommitInv /\ [Next]_vars => [Grows]_vars
  <2> SUFFICES ASSUME CommitInv, Next PROVE Grows
    OBVIOUS
  <2>1. events \in Seq(Commands)
    BY DEF CommitInv, CommitTypeOK
  <2>2. ASSUME NEW p \in Procs, Write(p) PROVE Grows
    <3>1. events' = Append(events, cmd[p]) /\ cmd[p] \in Commands
      BY <2>2 DEF Write, At, CommitInv, Knows
    <3> QED BY <2>1, <3>1
  <2>3. CASE UNCHANGED events
    BY <2>1, <2>3
  <2> QED BY <2>2, <2>3
          DEF Next, Step, Lock, LockUnavailable, Killed, Issue, Load, Unlock,
              Finish, Report, session
<1> QED BY <1>1, <1>2, <1>3, <1>4, <1>5, PTL DEF Spec, LogGrows
=============================================================================
