------------------------------ MODULE StateLock ------------------------------
(***************************************************************************)
(* store.py: the lock file around every mutation (StateStore.locked), as   *)
(* operating-system processes race for it.  Each read, create and unlink   *)
(* of the lock file is a step of its own, and a process may be killed      *)
(* between any two of them.  The file's contents are its creator (pid and  *)
(* token name the same process), absent until the creator has written them.*)
(***************************************************************************)
EXTENDS Naturals, FiniteSets

CONSTANTS
  Procs,
  Host,         \* the machine each process runs on
  None,
  MaxCrashes    \* bound: processes killed in a behaviour

Files == [by : Procs, written : BOOLEAN]    \* lock files

ASSUME LockNoneAssumption == None \notin Procs \cup Files /\ MaxCrashes \in Nat

VARIABLES
  file,   \* None, or the lock file: its creator, and whether it has contents
  pc,     \* where each process is in locked()
  seen    \* the holder a process read from the file, None if it read none

lockVars == <<file, pc, seen>>

Places == {"idle", "trying", "found", "judging", "waiting", "rechecking",
           "unlinking", "created", "inside", "releasing", "dead"}

LockInit ==
  /\ file = None
  /\ pc = [p \in Procs |-> "idle"] /\ seen = [p \in Procs |-> None]

At(p, place) == pc[p] = place
Goto(p, place) == pc' = [pc EXCEPT ![p] = place]

\* _lock_holder: a missing file and an empty one both read as no holder.
Holder == IF file = None THEN None
          ELSE IF file.written THEN file.by ELSE None

-----------------------------------------------------------------------------
Request(p) == At(p, "idle") /\ Goto(p, "trying") /\ UNCHANGED <<file, seen>>

Overwrite(p) ==         \* Mutant: the file is opened without O_EXCL
  /\ At(p, "trying")
  /\ file' = [by |-> p, written |-> FALSE]
  /\ Goto(p, "created") /\ UNCHANGED seen
Create(p) ==
  /\ At(p, "trying") /\ file = None
  /\ file' = [by |-> p, written |-> FALSE]
  /\ Goto(p, "created") /\ UNCHANGED seen

Exists(p) ==
  /\ At(p, "trying") /\ file # None
  /\ Goto(p, "found") /\ UNCHANGED <<file, seen>>

ReadHolder(p) ==
  /\ At(p, "found")
  /\ seen' = [seen EXCEPT ![p] = Holder]
  /\ Goto(p, "judging") /\ UNCHANGED file

\* _holder_is_gone: no such process on this host, and never a guess.
GoneAnywhere(p) ==      \* Mutant: a pid of another machine is taken for dead
  seen[p] # None /\ (Host[seen[p]] # Host[p] \/ At(seen[p], "dead"))
NeverGone(p) == FALSE   \* Mutant: no lock is ever reclaimed
HolderIsGone(p) ==
  /\ seen[p] # None
  /\ Host[seen[p]] = Host[p]
  /\ At(seen[p], "dead")

\* What was read is looked at no more.
Forgotten(p) == seen' = [seen EXCEPT ![p] = None]

Judge(p) ==
  /\ At(p, "judging")
  /\ IF HolderIsGone(p) THEN Goto(p, "rechecking") /\ UNCHANGED seen
                        ELSE Goto(p, "waiting") /\ Forgotten(p)
  /\ UNCHANGED file

\* Past the deadline the caller gets LockUnavailable; before it, another try.
NoDeadline(p) == FALSE /\ UNCHANGED lockVars    \* Mutant: waits for ever
GiveUp(p) == At(p, "waiting") /\ Goto(p, "idle") /\ UNCHANGED <<file, seen>>
TryAgain(p) == At(p, "waiting") /\ Goto(p, "trying") /\ UNCHANGED <<file, seen>>

Recheck(p) ==
  /\ At(p, "rechecking")
  /\ IF Holder = seen[p] THEN Goto(p, "unlinking") /\ UNCHANGED seen
                         ELSE Goto(p, "trying") /\ Forgotten(p)
  /\ UNCHANGED file

\* unlink takes the path, not the file that was inspected.
Unlink(p) ==
  /\ At(p, "unlinking")
  /\ file' = None
  /\ Goto(p, "trying") /\ Forgotten(p)

\* The descriptor is the created file's, wherever its name points by now.
WriteToken(p) ==
  /\ At(p, "created")
  /\ file' = IF file # None /\ file.by = p THEN [file EXCEPT !.written = TRUE]
                                           ELSE file
  /\ Goto(p, "inside") /\ UNCHANGED seen

\* The finally clause: look whose lock it is, then remove it.
Leave(p) ==
  /\ At(p, "inside")
  /\ Goto(p, IF Holder = p THEN "releasing" ELSE "idle")
  /\ UNCHANGED <<file, seen>>

Release(p) ==
  /\ At(p, "releasing")
  /\ file' = None
  /\ Goto(p, "idle") /\ UNCHANGED seen

\* The process is killed and runs no finally clause; nobody restarts its pid.
Crashed == {p \in Procs : At(p, "dead")}
Crash(p) ==
  /\ pc[p] \notin {"idle", "dead"} /\ Cardinality(Crashed) < MaxCrashes
  /\ Goto(p, "dead") /\ Forgotten(p) /\ UNCHANGED file

\* The steps of locked() around its body, which sits between the last two.
Acquire(p) ==
  \/ Create(p) \/ Exists(p) \/ ReadHolder(p) \/ Judge(p) \/ TryAgain(p)
  \/ Recheck(p) \/ Unlink(p) \/ WriteToken(p)

LockNext ==
  \E p \in Procs :
    Request(p) \/ Acquire(p) \/ GiveUp(p) \/ Leave(p) \/ Release(p) \/ Crash(p)

LockSpec == LockInit /\ [][LockNext]_lockVars

-----------------------------------------------------------------------------
(* Properties.                                                             *)

LockTypeOK ==
  /\ file \in Files \cup {None}
  /\ pc \in [Procs -> Places]
  /\ seen \in [Procs -> Procs \cup {None}]

Holding(p) == pc[p] \in {"created", "inside", "releasing"}

\* The lock is exclusive: from its creation to its release no second process
\* holds it, whoever crashed and whoever reclaimed what they left.
MutualExclusion == \A p, q \in Procs : Holding(p) /\ Holding(q) => p = q

\* docs/wddctl.md:99: "a live holder is never stolen from".  While a process
\* holds the lock the lock file is the one it created.
NeverStolenFrom == \A p \in Procs : Holding(p) => file # None /\ file.by = p
=============================================================================
