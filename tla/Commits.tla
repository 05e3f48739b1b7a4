------------------------------- MODULE Commits -------------------------------
(***************************************************************************)
(* engine.apply_mutation: what wddctl does with the lock.  A process runs  *)
(* one command: it takes the lock, loads the state, answers a duplicate or *)
(* a revision conflict, or applies its mutator and replaces the state file *)
(* atomically, then releases the lock.  A command that was killed half way *)
(* may be issued again by another process.                                 *)
(*                                                                         *)
(* Abstracted: what the mutator writes (TaskEngine's events); the state is *)
(* its list of applied events, and its revision their number.  Recovery of *)
(* a crashed archive, which runs after the load, is in Epics.              *)
(***************************************************************************)
EXTENDS StateLock, Sequences

CONSTANTS
  Commands,   \* [key, expected]: idempotency key and expected revision
  MaxEvents   \* bound: no new command once this many events are stored

\* An idempotency key names one command.
ASSUME CommandsAssumption ==
  /\ None \notin Commands
  /\ \A c, d \in Commands : c.key # None /\ c.key = d.key => c = d
Answers == {"applied", "duplicate", "refused"}
ASSUME AnswerAssumption == None \notin Answers /\ None \notin Seq(Commands)

VARIABLES
  events,     \* the stored state: the commands applied, oldest first
  cmd,        \* the command each process runs
  loaded,     \* the events it read under the lock, None before
  answer,     \* what it is about to report: applied, duplicate or refused
  reported    \* the commands whose issuer was told they are in the state

vars == <<lockVars, events, cmd, loaded, answer, reported>>
session == <<cmd, loaded, answer>>

Init ==
  /\ LockInit
  /\ events = <<>>
  /\ cmd = [p \in Procs |-> None] /\ loaded = [p \in Procs |-> None]
  /\ answer = [p \in Procs |-> None] /\ reported = {}

Issue(p, c) ==
  /\ Len(events) < MaxEvents
  /\ Request(p)
  /\ cmd' = [cmd EXCEPT ![p] = c]
  /\ UNCHANGED <<events, loaded, answer, reported>>

Lock(p) == Acquire(p) /\ UNCHANGED <<events, session, reported>>

\* The command is over: what it knew goes with its process.
Forget(p) ==
  /\ cmd' = [cmd EXCEPT ![p] = None]
  /\ loaded' = [loaded EXCEPT ![p] = None]
  /\ answer' = [answer EXCEPT ![p] = None]

LockUnavailable(p) == GiveUp(p) /\ Forget(p) /\ UNCHANGED <<events, reported>>
Killed(p) == Crash(p) /\ Forget(p) /\ UNCHANGED <<events, reported>>

\* The same key was applied before.  A command without a key gets one made
\* from the next revision, which cannot be there yet.
Entries(log) == {log[i] : i \in DOMAIN log}
NeverDuplicate(c, log) == FALSE     \* Mutant: keys are stored, not looked up
Duplicate(c, log) == c.key # None /\ \E e \in Entries(log) : e.key = c.key
Conflict(c, log) == c.expected # None /\ c.expected # Len(log)

\* Read the state; a mutator may also refuse (a ValidationError).
Load(p) ==
  /\ At(p, "inside") /\ loaded[p] = None
  /\ loaded' = [loaded EXCEPT ![p] = events]
  /\ LET c == cmd[p] IN
     \/ Duplicate(c, events) /\ answer' = [answer EXCEPT ![p] = "duplicate"]
     \/ /\ ~Duplicate(c, events)
        /\ answer' = [answer EXCEPT ![p] = "refused"]
     \/ /\ ~Duplicate(c, events) /\ ~Conflict(c, events)
        /\ UNCHANGED answer
  /\ UNCHANGED <<lockVars, events, cmd, reported>>

\* atomic_write_text: os.replace makes the new state the state in one step.
Write(p) ==
  /\ At(p, "inside") /\ loaded[p] # None /\ answer[p] = None
  /\ events' = Append(loaded[p], cmd[p])
  /\ answer' = [answer EXCEPT ![p] = "applied"]
  /\ UNCHANGED <<lockVars, cmd, loaded, reported>>

Stored(p) == answer[p] \in {"applied", "duplicate"}

\* Out of locked(), the command reports its answer.  Leave finds the lock
\* file to be removed, or no longer its own.
Report(p) ==
  /\ reported' = IF Stored(p) THEN reported \cup {cmd[p]} ELSE reported
  /\ Forget(p) /\ UNCHANGED events

Unlock(p) ==
  /\ At(p, "inside") /\ answer[p] # None
  /\ Leave(p)
  /\ IF Holder = p THEN UNCHANGED <<events, session, reported>> ELSE Report(p)

Finish(p) == Release(p) /\ Report(p)

Step(p) == Lock(p) \/ Load(p) \/ Write(p) \/ Unlock(p) \/ Finish(p)

Next ==
  \E p \in Procs :
    \/ Step(p) \/ LockUnavailable(p) \/ Killed(p)
    \/ \E c \in Commands : Issue(p, c)

\* A process that is not killed keeps running, and its wait has a deadline:
\* _lock_timeout_seconds passes however often it looks.
Fairness ==
  \A p \in Procs : WF_vars(Step(p)) /\ SF_vars(LockUnavailable(p))

Spec == Init /\ [][Next]_vars /\ Fairness

-----------------------------------------------------------------------------
(* Properties.                                                             *)

\* No update is lost: what a process was told is stored, is stored, and what
\* it writes under the lock rests on the state as it is.
ReportedIsStored ==
  /\ reported \subseteq Entries(events)
  /\ \A p \in Procs :
       At(p, "inside") /\ loaded[p] # None /\ answer[p] = None
         => loaded[p] = events

\* A keyed command is applied once however often it is issued, killed between
\* its write and its answer included.
OncePerKey ==
  \A i, j \in DOMAIN events :
    events[i].key # None /\ events[i].key = events[j].key => i = j

\* A command issued against a revision is applied to that revision, so of two
\* issued against the same one at most one is.
AppliedToExpected ==
  \A i \in DOMAIN events :
    events[i].expected # None => events[i].expected = i - 1

\* The log only grows, one event at a time: nothing already stored is ever
\* replaced, which is what makes the revision a version.
LogGrows ==
  [][/\ \A i \in DOMAIN events : i \in DOMAIN events' /\ events'[i] = events[i]
     /\ Len(events') <= Len(events) + 1]_vars

\* docs/wddctl.md:97: a crash inside the lock does not freeze the scope.  Once
\* its pid was written, a dead holder's lock goes as soon as a process of its
\* machine asks.
StaleBy(q) == file # None /\ file.written /\ file.by = q /\ At(q, "dead")
StaleIsReclaimed ==
  \A q \in Procs :
    (StaleBy(q) /\ \E p \in Procs : Host[p] = Host[q] /\ At(p, "trying"))
      ~> (~StaleBy(q) \/ \A p \in Procs : Host[p] = Host[q] => At(p, "dead"))

\* Every command comes to an answer, a timeout or its death.
CommandsEnd == \A p \in Procs : pc[p] # "idle" ~> pc[p] \in {"idle", "dead"}
=============================================================================
