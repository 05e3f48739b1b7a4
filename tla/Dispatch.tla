------------------------------- MODULE Dispatch -------------------------------
(***************************************************************************)
(* What a worker and a reviewer are given and what comes back: attempt     *)
(* snapshots (handover.materialize_attempt, record_attempt), probes and    *)
(* dispatch through a configured runner (runner.py), and the collection of *)
(* review results.  None of it holds the lock but the commits of start,    *)
(* collect and probes, so several of these commands interleave at every    *)
(* file of .wdd/dispatch, and any of them may be killed.                   *)
(*                                                                         *)
(* Abstracted: one task; a brief with its context is a version; a range    *)
(* under review is its head; findings are there or not; what a reviewer    *)
(* prints is a review result, other JSON (Malformed) or, with a failed     *)
(* exit or a timeout, Token, as all that a worker prints.  The gates and   *)
(* the status of the task are in Intake and TaskEngine.                    *)
(***************************************************************************)
EXTENDS Naturals, FiniteSets

CONSTANTS
  Procs,        \* processes of wddctl start and wddctl dispatch --task
  Commands,     \* runner commands
  Briefs,       \* what the brief can hold
  MaxHead,      \* bound: submissions
  MaxNumber,    \* bound: attempt directories, and logs of a role
  None,         \* nothing
  Token,        \* an answer that is not kept as a result
  Malformed     \* JSON that is kept as a result and is no valid review result

Numbers == 1 .. MaxNumber
NoDirectory == [made |-> FALSE, holds |-> {}]
Attempts == [made : BOOLEAN, holds : SUBSET Briefs]
Roles == {"worker", "reviewer"}
Prompts == [brief : SUBSET Briefs, head : Nat]
Reviews == [head : Nat, clean : BOOLEAN]
Outputs == Reviews \cup {Token, Malformed}

VARIABLES
  brief,        \* the live brief of the task
  command,      \* the ratified runner's command in config.json
  probes,       \* probes of the state: commands that passed one
  head,         \* the submitted head; 0 before the first submission
  snapshot,     \* the recorded attempt
  review,       \* the recorded review
  attempt,      \* dispatch/<task>-<n>
  prompt, log, result,  \* dispatch/<task>-<role>-<n>.prompt, .log, -result.json
  proc,         \* each process
  said          \* history: what reviewers ever answered

world == <<brief, command, probes, head>>
record == <<snapshot, review>>
files == <<prompt, log, result>>
vars == <<world, record, attempt, files, proc, said>>

Idle == [at |-> "idle", role |-> "worker", command |-> None, head |-> 0,
         dir |-> 0, number |-> 0, out |-> Token]

Init ==
  /\ brief \in Briefs /\ command \in Commands /\ probes = {}
  /\ head = 0 /\ snapshot = None /\ review = None
  /\ attempt = [n \in Numbers |-> NoDirectory]
  /\ prompt = [r \in Roles |-> [n \in Numbers |-> None]]
  /\ log = [r \in Roles |-> [n \in Numbers |-> None]]
  /\ result = [n \in Numbers |-> None]
  /\ proc = [p \in Procs |-> Idle]
  /\ said = {}

\* Where a process is; where its runner has answered.
Places == {"idle", "count", "mkdir", "copy", "record", "number", "prompt",
           "run", "log", "result", "check", "returned"}
Answering == {"log", "result", "check", "returned"}

At(p, step) == proc[p].at = step
Goto(p, step) == proc' = [proc EXCEPT ![p].at = step]
End(p) == proc' = [proc EXCEPT ![p] = Idle]

-----------------------------------------------------------------------------
(* The commands begin: what each reads of the state and of config.json.    *)

\* task.started has been committed; the attempt comes after the lock.
BeginStart(p) ==
  /\ proc[p] = Idle
  /\ proc' = [proc EXCEPT ![p] = [Idle EXCEPT !.at = "count", !.role = "start"]]
  /\ UNCHANGED <<world, record, attempt, files, said>>

\* _require_passing_probe looks a digest of the command up.
Probed == command \in probes

\* A worker works from the recorded attempt.
BeginWorker(p) ==
  /\ proc[p] = Idle /\ Probed /\ snapshot # None
  /\ proc' = [proc EXCEPT ![p] = [Idle EXCEPT
       !.at = "number", !.role = "worker", !.command = command, !.dir = snapshot]]
  /\ UNCHANGED <<world, record, attempt, files, said>>

\* A reviewer gets the range under review and an attempt of its own.
BeginReviewer(p) ==
  /\ proc[p] = Idle /\ Probed /\ head # 0
  /\ proc' = [proc EXCEPT ![p] = [Idle EXCEPT
       !.at = "count", !.role = "reviewer", !.command = command, !.head = head]]
  /\ UNCHANGED <<world, record, attempt, files, said>>

-----------------------------------------------------------------------------
(* materialize_attempt, and record_attempt for start.                      *)

\* _next_attempt_number counts directories.
Count(p) ==
  /\ At(p, "count")
  /\ \E n \in Numbers :
       /\ n = 1 + Cardinality({m \in Numbers : attempt[m].made})
       /\ proc' = [proc EXCEPT ![p].at = "mkdir", ![p].dir = n]
  /\ UNCHANGED <<world, record, attempt, files, said>>

\* mkdir with exist_ok=False, or the next number.
Mkdir(p) ==
  /\ At(p, "mkdir") /\ ~attempt[proc[p].dir].made
  /\ attempt' = [attempt EXCEPT ![proc[p].dir].made = TRUE]
  /\ Goto(p, "copy")
  /\ UNCHANGED <<world, record, files, said>>
Collision(p) ==
  /\ At(p, "mkdir") /\ attempt[proc[p].dir].made
  /\ proc[p].dir + 1 \in Numbers
  /\ proc' = [proc EXCEPT ![p].dir = @ + 1]
  /\ UNCHANGED <<world, record, attempt, files, said>>

Copy(p) ==
  /\ At(p, "copy")
  /\ attempt' = [attempt EXCEPT ![proc[p].dir].holds = {brief}]
  /\ Goto(p, IF proc[p].role = "start" THEN "record" ELSE "number")
  /\ UNCHANGED <<world, record, files, said>>

RecordAttempt(p) ==
  /\ At(p, "record")
  /\ snapshot' = proc[p].dir
  /\ End(p)
  /\ UNCHANGED <<world, review, attempt, files, said>>

-----------------------------------------------------------------------------
(* dispatch_task: number, prompt, runner, log, result, check.              *)

\* _next_log_attempt counts logs, which are written after the run.
Number(p) ==
  LET r == proc[p].role IN
  /\ At(p, "number")
  /\ \E n \in Numbers :
       /\ n = 1 + Cardinality({m \in Numbers : log[r][m] # None})
       /\ proc' = [proc EXCEPT ![p].at = "prompt", ![p].number = n]
  /\ UNCHANGED <<world, record, attempt, files, said>>

WritePrompt(p) ==
  /\ At(p, "prompt")
  /\ prompt' = [prompt EXCEPT ![proc[p].role][proc[p].number] =
       [brief |-> attempt[proc[p].dir].holds, head |-> proc[p].head]]
  /\ Goto(p, "run")
  /\ UNCHANGED <<world, record, attempt, log, result, said>>

\* The runner reads its prompt and its environment.  A reviewer answers about
\* the range in one of them, or fails; of a worker only a token comes back.
Answers(r, heads) ==
  {Token} \cup (IF r = "worker" THEN {}
              ELSE {Malformed} \cup [head : heads, clean : BOOLEAN])
Run(p) ==
  LET r == proc[p].role IN
  /\ At(p, "run")
  /\ \E out \in Answers(r, {prompt[r][proc[p].number].head, proc[p].head}) :
       /\ proc' = [proc EXCEPT ![p].at = "log", ![p].out = out]
       /\ said' = said \cup ({out} \ {Token, Malformed})
  /\ UNCHANGED <<world, record, attempt, files>>

WriteLog(p) ==
  /\ At(p, "log")
  /\ log' = [log EXCEPT ![proc[p].role][proc[p].number] = proc[p].out]
  /\ IF proc[p].out = Token THEN End(p) ELSE Goto(p, "result")
  /\ UNCHANGED <<world, record, attempt, prompt, result, said>>

WriteResult(p) ==
  /\ At(p, "result")
  /\ result' = [result EXCEPT ![proc[p].number] = proc[p].out]
  /\ Goto(p, "check")
  /\ UNCHANGED <<world, record, attempt, prompt, log, said>>

\* normalize_review_results reads the file back: it must be a review result,
\* and of the range that was handed out.
Describes(r, h) == r # Malformed /\ r.head = h
Check(p) ==
  /\ At(p, "check")
  /\ IF Describes(result[proc[p].number], proc[p].head)
     THEN Goto(p, "returned") ELSE End(p)
  /\ UNCHANGED <<world, record, attempt, files, said>>

\* The controller hands the result files of some dispatches to review
\* collect, which refuses malformed results and results of another range.
Collect(S) ==
  LET read == {result[proc[p].number] : p \in S} IN
  /\ S # {} /\ \A p \in S : At(p, "returned")
  /\ \A r \in read : Describes(r, head)
  /\ review' = [head |-> head, clean |-> \A r \in read : r.clean]
  /\ proc' = [p \in Procs |-> IF p \in S THEN Idle ELSE proc[p]]
  /\ UNCHANGED <<world, snapshot, attempt, files, said>>

-----------------------------------------------------------------------------
(* The world.                                                              *)

Kill(p) ==
  /\ proc[p] # Idle /\ End(p)
  /\ UNCHANGED <<world, record, attempt, files, said>>

EditBrief ==
  /\ brief' \in Briefs
  /\ UNCHANGED <<command, probes, head, record, attempt, files, proc, said>>
SetCommand ==       \* config set runners, constitution amend
  /\ command' \in Commands
  /\ UNCHANGED <<brief, probes, head, record, attempt, files, proc, said>>
RecordProbe ==      \* only a probe that passed is recorded
  /\ \E c \in Commands : probes' = probes \cup {c}
  /\ UNCHANGED <<brief, command, head, record, attempt, files, proc, said>>
Submit ==
  /\ head < MaxHead /\ head' = head + 1
  /\ UNCHANGED <<brief, command, probes, record, attempt, files, proc, said>>

Step(p) ==
  \/ BeginStart(p) \/ BeginWorker(p) \/ BeginReviewer(p)
  \/ Count(p) \/ Mkdir(p) \/ Collision(p) \/ Copy(p) \/ RecordAttempt(p)
  \/ Number(p) \/ WritePrompt(p) \/ Run(p) \/ WriteLog(p) \/ WriteResult(p)
  \/ Check(p) \/ Kill(p)
Next ==
  \/ \E p \in Procs : Step(p)
  \/ \E S \in SUBSET Procs : Collect(S)
  \/ EditBrief \/ SetCommand \/ RecordProbe \/ Submit

Spec == Init /\ [][Next]_vars

-----------------------------------------------------------------------------
(* Properties.                                                             *)

Session ==
  [at : Places, role : Roles \cup {"start"}, command : Commands \cup {None},
   head : Nat, dir : Nat, number : Nat, out : Outputs]
Sessions ==
  {c \in Session :
     /\ c.at \notin {"idle", "count"} => c.dir \in Numbers
     /\ c.at \in {"prompt", "run"} \cup Answering => c.number \in Numbers}

\* Every variable holds a value of its type.
DispatchTypeOK ==
  /\ brief \in Briefs /\ command \in Commands /\ probes \subseteq Commands
  /\ head \in Nat /\ snapshot \in Numbers \cup {None}
  /\ attempt \in [Numbers -> Attempts]
  /\ prompt \in [Roles -> [Numbers -> Prompts \cup {None}]]
  /\ log \in [Roles -> [Numbers -> Outputs \cup {None}]]
  /\ result \in [Numbers -> Reviews \cup {Malformed, None}]
  /\ proc \in [Procs -> Sessions]
  /\ review \in Reviews \cup {None} /\ said \subseteq Reviews

\* docs/wddctl.md:1731, of attempts: "numbering per task, never overwritten".
\* Attempt numbers are counted before the directory is made, by commands that
\* race; the files of a whole attempt still never change, whoever comes next.
AttemptsAreKept ==
  [][\A n \in Numbers : attempt[n].holds # {} => attempt'[n] = attempt[n]]_vars

\* The attempt a worker is sent to is whole, although start records it in a
\* second step and may be killed or overtaken before.
SnapshotIsWhole == snapshot # None => attempt[snapshot].holds # {}

\* "The guarantee follows the exact bytes a probe proved, not the runner's
\* name": a runner that is executed has a command that passed a probe, also
\* when the configuration changed after the check.
RunsAreProbed == \A p \in Procs : At(p, "run") => proc[p].command \in probes

\* A recorded review is one that some reviewer gave, for that head: files of
\* other dispatches may be in its place, but of no other range.
ReviewWasGiven == review # None => review \in said

\* docs/wddctl.md:2537, of dispatch: "Filenames use attempt numbering per
\* task+role (<task>-<role>-<n>.log, never overwritten)".
NeverOverwritten ==
  [][/\ \A r \in Roles, n \in Numbers : log[r][n] # None => log'[r][n] = log[r][n]
     /\ \A n \in Numbers : result[n] # None => result'[n] = result[n]]_vars
=============================================================================
