--------------------------- MODULE Dispatch_proofs ---------------------------
(* Proofs about Dispatch: what an attempt, a runner and a review on record *)
(* can rely on although dispatches race for names and may be killed.       *)
EXTENDS Dispatch, TLAPS

\* Only its maker copies into a directory that is still without its files.
Owned ==
  /\ \A n \in Numbers : attempt[n].holds # {} => attempt[n].made
  /\ \A p \in Procs : At(p, "copy") =>
       /\ attempt[proc[p].dir].made /\ attempt[proc[p].dir].holds = {}
       /\ \A q \in Procs : At(q, "copy") /\ proc[q].dir = proc[p].dir => q = p

\* A process goes on from the copy, or from a recorded attempt, with its files.
Having == {"record", "number", "prompt", "run"}
Whole ==
  \A p \in Procs : proc[p].at \in Having => attempt[proc[p].dir].holds # {}

\* A dispatch, as opposed to a start, was admitted for a command that passed a
\* probe; and only dispatches get to number their files.
Dispatching == {"number", "prompt", "run"} \cup Answering
Admitted ==
  \A p \in Procs :
    /\ ~At(p, "idle") /\ proc[p].role # "start" => proc[p].command \in probes
    /\ proc[p].at \in Dispatching => proc[p].role # "start"

\* Results, in files or about to be, were answered by a reviewer to a prompt.
Answered ==
  /\ \A n \in Numbers : result[n] # None => result[n] \in said \cup {Malformed}
  /\ \A p \in Procs :
       /\ At(p, "run") => prompt[proc[p].role][proc[p].number] \in Prompts
       /\ proc[p].at \in {"log", "result"} /\ proc[p].out # Token
            => proc[p].out \in said \cup {Malformed}
       /\ At(p, "result") => proc[p].out # Token
       /\ proc[p].at \in {"check", "returned"}
            => result[proc[p].number] \in said \cup {Malformed}

DInv ==
  /\ DispatchTypeOK /\ Owned /\ Whole /\ SnapshotIsWhole /\ Admitted
  /\ Answered /\ ReviewWasGiven

-----------------------------------------------------------------------------
(* The invariant holds at first, and every step preserves it.              *)

LEMMA InitDInv == Init => DInv
<1> SUFFICES ASSUME Init PROVE DInv
  OBVIOUS
<1> USE DEF Init, Idle
<1>1. DispatchTypeOK
  <2>1. attempt \in [Numbers -> Attempts]
    BY DEF NoDirectory, Attempts
  <2>2. Idle \in Session
    BY DEF Session, Places, Roles, Outputs
  <2>3. Idle \in Sessions
    BY <2>2 DEF Sessions, Answering
  <2>4. QED
    BY <2>1, <2>3 DEF DispatchTypeOK
<1>2. Owned /\ Whole
  BY DEF Owned, Whole, Having, At, NoDirectory
<1>3. SnapshotIsWhole /\ Admitted /\ Answered /\ ReviewWasGiven
  BY DEF SnapshotIsWhole, Admitted, Answered, ReviewWasGiven, At, Dispatching,
     Answering
<1>4. QED
  BY <1>1, <1>2, <1>3 DEF DInv

LEMMA IdleType == Idle \in Sessions /\ Idle.at = "idle"
<1>1. Idle \in Session
  BY DEF Idle, Session, Places, Roles, Outputs
<1>2. QED
  BY <1>1 DEF Sessions, Answering, Idle

LEMMA NumbersAreNat == Numbers \subseteq Nat
BY DEF Numbers

LEMMA TypeStep == DInv /\ [Next]_vars => DispatchTypeOK'
<1> SUFFICES ASSUME DInv, [Next]_vars PROVE DispatchTypeOK'
  OBVIOUS
<1> USE DEF DispatchTypeOK
<1>0. DispatchTypeOK
  BY DEF DInv
<1>a. \A p \in Procs : proc[p] \in Session
  BY <1>0 DEF Sessions
<1>1. ASSUME NEW p \in Procs, BeginStart(p) PROVE DispatchTypeOK'
  <2>1. [Idle EXCEPT !.at = "count", !.role = "start"] \in Sessions
    BY DEF Idle, Sessions, Session, Places, Roles, Outputs, Answering
  <2>2. QED
    BY <1>0, <1>1, <2>1 DEF BeginStart, world, record, files
<1>2. ASSUME NEW p \in Procs, BeginWorker(p) PROVE DispatchTypeOK'
  <2>1. [Idle EXCEPT !.at = "number", !.role = "worker", !.command = command,
                     !.dir = snapshot] \in Sessions
    BY <1>0, <1>2, NumbersAreNat DEF BeginWorker, Idle, Sessions, Session, Places,
       Roles, Outputs, Answering
  <2>2. QED
    BY <1>0, <1>2, <2>1 DEF BeginWorker, world, record, files
<1>3. ASSUME NEW p \in Procs, BeginReviewer(p) PROVE DispatchTypeOK'
  <2>1. [Idle EXCEPT !.at = "count", !.role = "reviewer", !.command = command,
                     !.head = head] \in Sessions
    BY <1>0 DEF Idle, Sessions, Session, Places, Roles, Outputs, Answering
  <2>2. QED
    BY <1>0, <1>3, <2>1 DEF BeginReviewer, world, record, files
<1>4. ASSUME NEW p \in Procs, Count(p) PROVE DispatchTypeOK'
  <2>1. \A n \in Numbers : [proc[p] EXCEPT !.at = "mkdir", !.dir = n] \in Sessions
    BY <1>a, NumbersAreNat DEF Sessions, Session, Places, Answering
  <2>2. QED
    BY <1>0, <1>4, <2>1 DEF Count, world, record, files
<1>5. ASSUME NEW p \in Procs, Mkdir(p) PROVE DispatchTypeOK'
  <2>1. [proc[p] EXCEPT !.at = "copy"] \in Sessions
    BY <1>0, <1>5 DEF Mkdir, At, Sessions, Session, Places, Answering
  <2>2. attempt' \in [Numbers -> Attempts]
    BY <1>0, <1>5 DEF Mkdir, Attempts
  <2>3. QED
    BY <1>0, <1>5, <2>1, <2>2 DEF Mkdir, Goto, world, record, files
<1>6. ASSUME NEW p \in Procs, Collision(p) PROVE DispatchTypeOK'
  <2>1. /\ proc[p] \in Session /\ proc[p].at = "mkdir"
        /\ proc[p].dir + 1 \in Numbers
    BY <1>a, <1>6 DEF Collision, At
  <2>2. [proc[p] EXCEPT !.dir = @ + 1] \in Session
    BY <2>1, NumbersAreNat DEF Session
  <2>3. [proc[p] EXCEPT !.dir = @ + 1] \in Sessions
    BY <2>1, <2>2 DEF Sessions, Session, Answering
  <2>4. QED
    BY <1>0, <1>6, <2>3 DEF Collision, world, record, files
<1>7. ASSUME NEW p \in Procs, Copy(p) PROVE DispatchTypeOK'
  <2>1. \A place \in {"record", "number"} : [proc[p] EXCEPT !.at = place] \in Sessions
    BY <1>0, <1>7 DEF Copy, At, Sessions, Session, Places, Answering
  <2>2. attempt' \in [Numbers -> Attempts]
    BY <1>0, <1>7 DEF Copy, Attempts
  <2>3. proc' \in [Procs -> Sessions]
    BY <1>0, <1>7, <2>1 DEF Copy, Goto
  <2>4. QED
    BY <1>0, <1>7, <2>2, <2>3 DEF Copy, world, record, files
<1>8. ASSUME NEW p \in Procs, RecordAttempt(p) PROVE DispatchTypeOK'
  <2>1. proc[p].dir \in Numbers
    BY <1>0, <1>8 DEF RecordAttempt, At, Sessions
  <2>2. QED
    BY <1>0, <1>8, <2>1, IdleType DEF RecordAttempt, End, world, files
<1>9. ASSUME NEW p \in Procs, Number(p) PROVE DispatchTypeOK'
  <2>1. proc[p] \in Session /\ proc[p].dir \in Numbers
    BY <1>0, <1>9 DEF Number, At, Sessions
  <2>2. \A n \in Numbers : [proc[p] EXCEPT !.at = "prompt", !.number = n] \in Session
    BY <2>1, NumbersAreNat DEF Session, Places
  <2>3. \A n \in Numbers : [proc[p] EXCEPT !.at = "prompt", !.number = n] \in Sessions
    BY <2>1, <2>2 DEF Sessions, Session
  <2>4. QED
    BY <1>0, <1>9, <2>3 DEF Number, world, record, files
<1>10. ASSUME NEW p \in Procs, WritePrompt(p) PROVE DispatchTypeOK'
  <2>1. [proc[p] EXCEPT !.at = "run"] \in Sessions
    BY <1>0, <1>10 DEF WritePrompt, At, Sessions, Session, Places, Answering
  <2>2. [brief |-> attempt[proc[p].dir].holds, head |-> proc[p].head] \in Prompts
    BY <1>0, <1>10 DEF WritePrompt, At, Sessions, Session, Attempts, Prompts
  <2>3. prompt' \in [Roles -> [Numbers -> Prompts \cup {None}]]
    BY <1>0, <1>10, <2>2 DEF WritePrompt
  <2>4. QED
    BY <1>0, <1>10, <2>1, <2>3 DEF WritePrompt, Goto, world, record
<1>11. ASSUME NEW p \in Procs, Run(p) PROVE DispatchTypeOK'
  <2>1. At(p, "run") /\ proc[p].number \in Numbers /\ proc[p].role \in Roles
    BY <1>0, <1>a, <1>11 DEF Run, At, Sessions, Session, DInv, Admitted, Dispatching
  <2>2. prompt[proc[p].role][proc[p].number] \in Prompts
    BY <1>0, <2>1 DEF DInv, Answered
  <2>h. prompt[proc[p].role][proc[p].number].head \in Nat /\ proc[p].head \in Nat
    BY <1>a, <2>2 DEF Prompts, Session
  <2>3. Answers(proc[p].role,
                {prompt[proc[p].role][proc[p].number].head, proc[p].head}) \subseteq Outputs
    BY <2>h DEF Answers, Outputs, Reviews
  <2>4. PICK out \in Outputs :
          /\ proc' = [proc EXCEPT ![p].at = "log", ![p].out = out]
          /\ said' = said \cup ({out} \ {Token, Malformed})
    BY <1>11, <2>3 DEF Run
  <2>5. [proc[p] EXCEPT !.at = "log", !.out = out] \in Sessions
    BY <1>0, <2>1 DEF At, Sessions, Session, Places, Answering
  <2>6. said' \subseteq Reviews
    BY <1>0, <2>4 DEF Outputs
  <2>7. proc' \in [Procs -> Sessions]
    BY <1>0, <2>4, <2>5
  <2>8. QED
    BY <1>0, <1>11, <2>6, <2>7 DEF Run, world, record, files
<1>12. ASSUME NEW p \in Procs, WriteLog(p) PROVE DispatchTypeOK'
  <2>1. proc[p].out \in Outputs /\ [proc[p] EXCEPT !.at = "result"] \in Sessions
    BY <1>0, <1>12 DEF WriteLog, At, Sessions, Session, Places, Answering
  <2>2. log' \in [Roles -> [Numbers -> Outputs \cup {None}]]
    BY <1>0, <1>12, <2>1 DEF WriteLog
  <2>3. proc' \in [Procs -> Sessions]
    BY <1>0, <1>12, <2>1, IdleType DEF WriteLog, Goto, End
  <2>4. QED
    BY <1>0, <1>12, <2>2, <2>3 DEF WriteLog, world, record
<1>13. ASSUME NEW p \in Procs, WriteResult(p) PROVE DispatchTypeOK'
  <2>1. proc[p].out \in Reviews \cup {Malformed} /\ [proc[p] EXCEPT !.at = "check"] \in Sessions
    BY <1>0, <1>13 DEF WriteResult, At, Sessions, Session, Places, Answering,
       DInv, Answered, Outputs
  <2>2. result' \in [Numbers -> Reviews \cup {Malformed, None}]
    BY <1>0, <1>13, <2>1 DEF WriteResult
  <2>3. QED
    BY <1>0, <1>13, <2>1, <2>2 DEF WriteResult, Goto, world, record
<1>14. ASSUME NEW p \in Procs, Check(p) \/ Kill(p) PROVE DispatchTypeOK'
  <2>1. At(p, "check") => [proc[p] EXCEPT !.at = "returned"] \in Sessions
    BY <1>0 DEF At, Sessions, Session, Places, Answering
  <2>2. proc' \in [Procs -> Sessions]
    BY <1>0, <1>14, <2>1, IdleType DEF Check, Kill, Goto, End
  <2>3. QED
    BY <1>0, <1>14, <2>2 DEF Check, Kill, world, record, files
<1>15. ASSUME NEW S \in SUBSET Procs, Collect(S) PROVE DispatchTypeOK'
  <2>1. review' \in Reviews
    BY <1>0, <1>15 DEF Collect, Describes, Reviews
  <2>2. proc' \in [Procs -> Sessions]
    BY <1>0, <1>15, IdleType DEF Collect
  <2>3. QED
    BY <1>0, <1>15, <2>1, <2>2 DEF Collect, world, files
<1>16. ASSUME EditBrief \/ SetCommand \/ RecordProbe \/ Submit PROVE DispatchTypeOK'
  BY <1>0, <1>16 DEF EditBrief, SetCommand, RecordProbe, Submit, record, files
<1>17. CASE UNCHANGED vars
  BY <1>0, <1>17 DEF vars, world, record, files
<1>18. QED
  BY <1>1, <1>2, <1>3, <1>4, <1>5, <1>6, <1>7, <1>8, <1>9, <1>10, <1>11, <1>12,
     <1>13, <1>14, <1>15, <1>16, <1>17 DEF Next, Step

\* Steps other than mkdir and the copy leave attempts alone, and bring nobody
\* to the copy; who goes on with an attempt had it before, or the recorded one.
Others ==
  \/ \E p \in Procs :
       \/ BeginStart(p) \/ BeginWorker(p) \/ BeginReviewer(p) \/ Count(p)
       \/ Collision(p) \/ RecordAttempt(p) \/ Number(p) \/ WritePrompt(p)
       \/ Run(p) \/ WriteLog(p) \/ WriteResult(p) \/ Check(p) \/ Kill(p)
  \/ \E S \in SUBSET Procs : Collect(S)
  \/ EditBrief \/ SetCommand \/ RecordProbe \/ Submit
  \/ UNCHANGED vars

LEMMA SplitNext ==
  ASSUME [Next]_vars
  PROVE  Others \/ \E p \in Procs : Mkdir(p) \/ Copy(p)
BY DEF Next, Step, Others

\* What one process of such a step does to itself.
Keeps(old, new) ==
  /\ new.at = "copy" => old.at = "copy" /\ new.dir = old.dir
  /\ new.at \in Having => \/ old.at \in Having /\ new.dir = old.dir
                          \/ snapshot # None /\ new.dir = snapshot

LEMMA OthersKeep ==
  ASSUME DispatchTypeOK, Others
  PROVE  attempt' = attempt /\ \A q \in Procs : Keeps(proc[q], proc'[q])
<1>0. \A q \in Procs : proc \in [Procs -> Sessions] /\ proc[q] \in Session
  BY DEF DispatchTypeOK, Sessions
<1> USE DEF Keeps, Having, At, Idle, Session
<1>1. ASSUME NEW p \in Procs, BeginStart(p)
      PROVE  attempt' = attempt /\ \A q \in Procs : Keeps(proc[q], proc'[q])
  BY <1>0, <1>1 DEF BeginStart
<1>2. ASSUME NEW p \in Procs, BeginWorker(p)
      PROVE  attempt' = attempt /\ \A q \in Procs : Keeps(proc[q], proc'[q])
  BY <1>0, <1>2 DEF BeginWorker
<1>3. ASSUME NEW p \in Procs, BeginReviewer(p)
      PROVE  attempt' = attempt /\ \A q \in Procs : Keeps(proc[q], proc'[q])
  BY <1>0, <1>3 DEF BeginReviewer
<1>4. ASSUME NEW p \in Procs, Count(p)
      PROVE  attempt' = attempt /\ \A q \in Procs : Keeps(proc[q], proc'[q])
  BY <1>0, <1>4 DEF Count
<1>5. ASSUME NEW p \in Procs, Collision(p)
      PROVE  attempt' = attempt /\ \A q \in Procs : Keeps(proc[q], proc'[q])
  BY <1>0, <1>5 DEF Collision
<1>6. ASSUME NEW p \in Procs, RecordAttempt(p)
      PROVE  attempt' = attempt /\ \A q \in Procs : Keeps(proc[q], proc'[q])
  BY <1>0, <1>6 DEF RecordAttempt, End
<1>7. ASSUME NEW p \in Procs, Number(p)
      PROVE  attempt' = attempt /\ \A q \in Procs : Keeps(proc[q], proc'[q])
  BY <1>0, <1>7 DEF Number
<1>8. ASSUME NEW p \in Procs, WritePrompt(p)
      PROVE  attempt' = attempt /\ \A q \in Procs : Keeps(proc[q], proc'[q])
  BY <1>0, <1>8 DEF WritePrompt, Goto
<1>9. ASSUME NEW p \in Procs, Run(p)
      PROVE  attempt' = attempt /\ \A q \in Procs : Keeps(proc[q], proc'[q])
  BY <1>0, <1>9 DEF Run
<1>10. ASSUME NEW p \in Procs, WriteLog(p)
      PROVE  attempt' = attempt /\ \A q \in Procs : Keeps(proc[q], proc'[q])
  BY <1>0, <1>10 DEF WriteLog, Goto, End
<1>11. ASSUME NEW p \in Procs, WriteResult(p)
      PROVE  attempt' = attempt /\ \A q \in Procs : Keeps(proc[q], proc'[q])
  BY <1>0, <1>11 DEF WriteResult, Goto
<1>12. ASSUME NEW p \in Procs, Check(p)
      PROVE  attempt' = attempt /\ \A q \in Procs : Keeps(proc[q], proc'[q])
  BY <1>0, <1>12 DEF Check, Goto, End
<1>13. ASSUME NEW p \in Procs, Kill(p)
      PROVE  attempt' = attempt /\ \A q \in Procs : Keeps(proc[q], proc'[q])
  BY <1>0, <1>13 DEF Kill, End
<1>14. ASSUME NEW S \in SUBSET Procs, Collect(S)
      PROVE  attempt' = attempt /\ \A q \in Procs : Keeps(proc[q], proc'[q])
  BY <1>14 DEF Collect
<1>15. CASE EditBrief \/ SetCommand \/ RecordProbe \/ Submit \/ UNCHANGED vars
  BY <1>15 DEF EditBrief, SetCommand, RecordProbe, Submit, vars
<1>16. QED
  BY <1>1, <1>2, <1>3, <1>4, <1>5, <1>6, <1>7, <1>8, <1>9, <1>10, <1>11, <1>12,
     <1>13, <1>14, <1>15 DEF Others

LEMMA OwnedStep == DInv /\ [Next]_vars => Owned'
<1> SUFFICES ASSUME DInv, [Next]_vars PROVE Owned'
  OBVIOUS
<1>0. DispatchTypeOK /\ Owned
  BY DEF DInv
<1>1. ASSUME NEW p \in Procs, Mkdir(p) PROVE Owned'
  <2>1. /\ proc[p].dir \in Numbers /\ ~attempt[proc[p].dir].made
        /\ attempt[proc[p].dir].holds = {}
    BY <1>0, <1>1 DEF Mkdir, At, DispatchTypeOK, Sessions, Owned
  <2>2. /\ attempt'[proc[p].dir].made /\ attempt'[proc[p].dir].holds = {}
        /\ \A n \in Numbers \ {proc[p].dir} : attempt'[n] = attempt[n]
        /\ proc'[p].dir = proc[p].dir
        /\ \A q \in Procs \ {p} : proc'[q] = proc[q]
    BY <1>0, <1>1, <2>1 DEF Mkdir, Goto, DispatchTypeOK, Attempts
  <2>3. \A q \in Procs : At(q, "copy") =>
          proc[q].dir \in Numbers /\ proc[q].dir # proc[p].dir
    BY <1>0, <2>1 DEF Owned, DispatchTypeOK, Sessions, At
  <2>4. QED
    BY <1>0, <2>1, <2>2, <2>3 DEF Owned, At
<1>2. ASSUME NEW p \in Procs, Copy(p) PROVE Owned'
  <2>1. proc[p].dir \in Numbers /\ attempt[proc[p].dir].made /\ At(p, "copy")
    BY <1>0, <1>2 DEF Copy, At, DispatchTypeOK, Sessions, Owned
  <2>2. /\ attempt'[proc[p].dir].made
        /\ \A n \in Numbers \ {proc[p].dir} : attempt'[n] = attempt[n]
        /\ proc'[p].at # "copy"
        /\ \A q \in Procs \ {p} : proc'[q] = proc[q]
    BY <1>0, <1>2, <2>1 DEF Copy, Goto, DispatchTypeOK, Attempts, Sessions, Session
  <2>3. \A q \in Procs \ {p} : At(q, "copy") =>
          proc[q].dir \in Numbers /\ proc[q].dir # proc[p].dir
    BY <1>0, <2>1 DEF Owned, DispatchTypeOK, Sessions, At
  <2>4. QED
    BY <1>0, <2>1, <2>2, <2>3 DEF Owned, At
<1>3. ASSUME Others PROVE Owned'
  BY <1>0, <1>3, OthersKeep DEF Owned, Keeps, At
<1>4. QED
  BY <1>1, <1>2, <1>3, SplitNext

\* The holding of an attempt that is whole never changes.
LEMMA KeptStep ==
  ASSUME DInv, [Next]_vars, NEW n \in Numbers, attempt[n].holds # {}
  PROVE  attempt'[n] = attempt[n]
<1>0. DispatchTypeOK /\ Owned
  BY DEF DInv
<1>1. ASSUME NEW p \in Procs, Mkdir(p) \/ Copy(p) PROVE attempt'[n] = attempt[n]
  <2>1. proc[p].dir # n
    BY <1>0, <1>1 DEF Mkdir, Copy, At, Owned
  <2>2. QED
    BY <1>0, <1>1, <2>1 DEF Mkdir, Copy, DispatchTypeOK
<1>2. QED
  BY <1>0, <1>1, SplitNext, OthersKeep

LEMMA WholeStep == DInv /\ [Next]_vars => Whole' /\ SnapshotIsWhole'
<1> SUFFICES ASSUME DInv, [Next]_vars PROVE Whole' /\ SnapshotIsWhole'
  OBVIOUS
<1>0. DispatchTypeOK /\ Whole /\ SnapshotIsWhole
  BY DEF DInv
<1>1. \A n \in Numbers : attempt[n].holds # {} => attempt'[n].holds # {}
  BY KeptStep
<1>2. \A p \in Procs : proc[p].at \in Having => proc[p].dir \in Numbers
  BY <1>0 DEF DispatchTypeOK, Sessions, Having
<1>3. Whole'
  <2>1. ASSUME NEW p \in Procs, Mkdir(p) PROVE Whole'
    <3>1. /\ proc'[p].at = "copy"
          /\ \A q \in Procs \ {p} : proc'[q] = proc[q]
      BY <1>0, <2>1 DEF Mkdir, Goto, DispatchTypeOK, Sessions, Session
    <3>2. QED
      BY <1>0, <1>1, <1>2, <3>1 DEF Whole, Having
  <2>2. ASSUME NEW p \in Procs, Copy(p) PROVE Whole'
    <3>1. proc[p].dir \in Numbers
      BY <1>0, <2>2 DEF Copy, At, DispatchTypeOK, Sessions
    <3>2. attempt'[proc[p].dir].holds = {brief}
      BY <1>0, <2>2, <3>1 DEF Copy, DispatchTypeOK, Attempts
    <3>3. proc'[p].dir = proc[p].dir /\ \A q \in Procs \ {p} : proc'[q] = proc[q]
      BY <1>0, <2>2 DEF Copy, Goto, DispatchTypeOK, Sessions, Session
    <3>4. QED
      BY <1>0, <1>1, <1>2, <3>2, <3>3 DEF Whole
  <2>3. ASSUME Others PROVE Whole'
    BY <1>0, <1>1, <2>3, OthersKeep DEF Whole, SnapshotIsWhole, Keeps, Having
  <2>4. QED
    BY <2>1, <2>2, <2>3, SplitNext
<1>4. SnapshotIsWhole'
  <2>1. \/ snapshot' = snapshot
        \/ \E p \in Procs : At(p, "record") /\ snapshot' = proc[p].dir
    BY DEF Next, Step, BeginStart, BeginWorker, BeginReviewer, Count, Mkdir,
       Collision, Copy, RecordAttempt, Number, WritePrompt, Run, WriteLog,
       WriteResult, Check, Kill, Collect, EditBrief, SetCommand, RecordProbe,
       Submit, record, vars
  <2>2. QED
    BY <1>0, <1>1, <1>2, <2>1 DEF SnapshotIsWhole, Whole, At, Having, DispatchTypeOK
<1>5. QED
  BY <1>3, <1>4

LEMMA AdmittedStep == DInv /\ [Next]_vars => Admitted'
<1> SUFFICES ASSUME DInv, [Next]_vars PROVE Admitted'
  OBVIOUS
<1>0. /\ Admitted /\ proc \in [Procs -> Sessions]
      /\ \A q \in Procs : proc[q] \in Session
  BY DEF DInv, DispatchTypeOK, Sessions
<1> USE DEF Admitted, Dispatching, Answering, At, Idle, Session, world
<1>1. ASSUME NEW p \in Procs, BeginStart(p) PROVE Admitted'
  BY <1>0, <1>1 DEF BeginStart
<1>2. ASSUME NEW p \in Procs, BeginWorker(p) PROVE Admitted'
  BY <1>0, <1>2 DEF BeginWorker, Probed
<1>3. ASSUME NEW p \in Procs, BeginReviewer(p) PROVE Admitted'
  BY <1>0, <1>3 DEF BeginReviewer, Probed
<1>4. ASSUME NEW p \in Procs, Count(p) PROVE Admitted'
  BY <1>0, <1>4 DEF Count
<1>5. ASSUME NEW p \in Procs, Mkdir(p) PROVE Admitted'
  BY <1>0, <1>5 DEF Mkdir, Goto
<1>6. ASSUME NEW p \in Procs, Collision(p) PROVE Admitted'
  BY <1>0, <1>6 DEF Collision
<1>7. ASSUME NEW p \in Procs, Copy(p) PROVE Admitted'
  BY <1>0, <1>7 DEF Copy, Goto
<1>8. ASSUME NEW p \in Procs, RecordAttempt(p) PROVE Admitted'
  BY <1>0, <1>8 DEF RecordAttempt, End
<1>9. ASSUME NEW p \in Procs, Number(p) PROVE Admitted'
  BY <1>0, <1>9 DEF Number
<1>10. ASSUME NEW p \in Procs, WritePrompt(p) PROVE Admitted'
  BY <1>0, <1>10 DEF WritePrompt, Goto
<1>11. ASSUME NEW p \in Procs, Run(p) PROVE Admitted'
  BY <1>0, <1>11 DEF Run
<1>12. ASSUME NEW p \in Procs, WriteLog(p) PROVE Admitted'
  BY <1>0, <1>12 DEF WriteLog, Goto, End
<1>13. ASSUME NEW p \in Procs, WriteResult(p) PROVE Admitted'
  BY <1>0, <1>13 DEF WriteResult, Goto
<1>14. ASSUME NEW p \in Procs, Check(p) PROVE Admitted'
  BY <1>0, <1>14 DEF Check, Goto, End
<1>15. ASSUME NEW p \in Procs, Kill(p) PROVE Admitted'
  BY <1>0, <1>15 DEF Kill, End
<1>16. ASSUME NEW S \in SUBSET Procs, Collect(S) PROVE Admitted'
  BY <1>0, <1>16 DEF Collect
<1>17. CASE EditBrief \/ SetCommand \/ RecordProbe \/ Submit \/ UNCHANGED vars
  BY <1>0, <1>17 DEF EditBrief, SetCommand, RecordProbe, Submit, vars
<1>18. QED
  BY <1>1, <1>2, <1>3, <1>4, <1>5, <1>6, <1>7, <1>8, <1>9, <1>10, <1>11, <1>12,
     <1>13, <1>14, <1>15, <1>16, <1>17 DEF Next, Step

LEMMA AnsweredStep == DInv /\ [Next]_vars => Answered'
<1> SUFFICES ASSUME DInv, [Next]_vars PROVE Answered'
  OBVIOUS
<1>0. /\ Answered /\ Admitted /\ DispatchTypeOK
      /\ \A q \in Procs : proc[q] \in Session
  BY DEF DInv, DispatchTypeOK, Sessions
<1> USE DEF Answered, At, DispatchTypeOK
<1>1. ASSUME NEW p \in Procs, BeginStart(p) PROVE Answered'
  BY <1>0, <1>1 DEF BeginStart, Idle, files
<1>2. ASSUME NEW p \in Procs, BeginWorker(p) PROVE Answered'
  BY <1>0, <1>2 DEF BeginWorker, Idle, files
<1>3. ASSUME NEW p \in Procs, BeginReviewer(p) PROVE Answered'
  BY <1>0, <1>3 DEF BeginReviewer, Idle, files
<1>4. ASSUME NEW p \in Procs, Count(p) PROVE Answered'
  BY <1>0, <1>4 DEF Count, Session, files
<1>5. ASSUME NEW p \in Procs, Mkdir(p) PROVE Answered'
  BY <1>0, <1>5 DEF Mkdir, Goto, Session, files
<1>6. ASSUME NEW p \in Procs, Collision(p) PROVE Answered'
  BY <1>0, <1>6 DEF Collision, Session, files
<1>7. ASSUME NEW p \in Procs, Copy(p) PROVE Answered'
  BY <1>0, <1>7 DEF Copy, Goto, Session, files
<1>8. ASSUME NEW p \in Procs, RecordAttempt(p) PROVE Answered'
  BY <1>0, <1>8 DEF RecordAttempt, End, Idle, files
<1>9. ASSUME NEW p \in Procs, Number(p) PROVE Answered'
  BY <1>0, <1>9 DEF Number, Session, files
<1>10. ASSUME NEW p \in Procs, Kill(p) PROVE Answered'
  BY <1>0, <1>10 DEF Kill, End, Idle, files
<1>11. ASSUME NEW p \in Procs, WritePrompt(p) PROVE Answered'
  <2>1. /\ proc[p].at = "prompt" /\ proc[p].role \in Roles
        /\ proc[p].number \in Numbers
    BY <1>0, <1>11 DEF WritePrompt, Session, Sessions, Admitted, Dispatching
  <2>2. proc'[p] = [proc[p] EXCEPT !.at = "run"]
        /\ \A q \in Procs \ {p} : proc'[q] = proc[q]
    BY <1>0, <1>11 DEF WritePrompt, Goto
  <2>3. [brief |-> attempt[proc[p].dir].holds, head |-> proc[p].head] \in Prompts
    BY <1>0, <1>11 DEF WritePrompt, Sessions, Session, Attempts, Prompts
  <2>4. /\ prompt'[proc[p].role][proc[p].number] \in Prompts
        /\ \A o \in Roles, n \in Numbers :
             prompt[o][n] \in Prompts => prompt'[o][n] \in Prompts
    BY <1>0, <1>11, <2>1, <2>3 DEF WritePrompt
  <2>5. \A q \in Procs : proc[q].at = "run" =>
          proc[q].role \in Roles /\ proc[q].number \in Numbers
    BY <1>0 DEF Sessions, Session, Admitted, Dispatching
  <2>6. /\ result' = result /\ said' = said
        /\ proc'[p].at = "run" /\ proc'[p].role = proc[p].role
        /\ proc'[p].number = proc[p].number
    BY <1>0, <1>11, <2>2 DEF WritePrompt, Session
  <2>7. \A q \in Procs : proc'[q].at = "run"
                           => prompt'[proc'[q].role][proc'[q].number] \in Prompts
    <3>1. ASSUME NEW q \in Procs \ {p}, proc'[q].at = "run"
          PROVE  prompt'[proc'[q].role][proc'[q].number] \in Prompts
      BY <1>0, <3>1, <2>2, <2>4, <2>5
    <3>2. QED
      BY <3>1, <2>4, <2>6
  <2>8. QED
    BY <1>0, <2>2, <2>6, <2>7
<1>12. ASSUME NEW p \in Procs, Run(p) PROVE Answered'
  <2>1. PICK out \in Answers(proc[p].role,
                {prompt[proc[p].role][proc[p].number].head, proc[p].head}) :
          /\ proc' = [proc EXCEPT ![p].at = "log", ![p].out = out]
          /\ said' = said \cup ({out} \ {Token, Malformed})
    BY <1>12 DEF Run
  <2>2. /\ proc'[p].at = "log" /\ proc'[p].out = out
        /\ \A q \in Procs \ {p} : proc'[q] = proc[q]
    BY <1>0, <2>1 DEF Session
  <2>3. result' = result /\ prompt' = prompt
    BY <1>12 DEF Run, files
  <2>4. QED
    BY <1>0, <2>1, <2>2, <2>3
<1>13. ASSUME NEW p \in Procs, WriteLog(p) PROVE Answered'
  <2>1. /\ \/ proc'[p] = Idle
           \/ /\ proc'[p].at = "result" /\ proc'[p].out = proc[p].out
              /\ proc[p].at = "log" /\ proc[p].out # Token
        /\ \A q \in Procs \ {p} : proc'[q] = proc[q]
    BY <1>0, <1>13 DEF WriteLog, Goto, End, Session
  <2>2. result' = result /\ prompt' = prompt /\ said' = said
    BY <1>13 DEF WriteLog
  <2>3. QED
    BY <1>0, <2>1, <2>2 DEF Idle
<1>14. ASSUME NEW p \in Procs, WriteResult(p) PROVE Answered'
  <2>1. /\ proc[p].at = "result" /\ proc[p].out \in said \cup {Malformed}
        /\ proc[p].number \in Numbers
    BY <1>0, <1>14 DEF WriteResult, Sessions, Answering
  <2>2. /\ proc'[p].at = "check" /\ proc'[p].number = proc[p].number
        /\ \A q \in Procs \ {p} : proc'[q] = proc[q]
    BY <1>0, <1>14 DEF WriteResult, Goto, Session
  <2>3. /\ result'[proc[p].number] \in said \cup {Malformed}
        /\ \A n \in Numbers \ {proc[p].number} : result'[n] = result[n]
        /\ prompt' = prompt /\ said' = said
    BY <1>0, <1>14, <2>1 DEF WriteResult
  <2>4. \A q \in Procs : proc[q].at \in {"check", "returned"} => proc[q].number \in Numbers
    BY <1>0 DEF Sessions, Answering
  <2>5. \A n \in Numbers :
          /\ result'[n] # None => result'[n] \in said' \cup {Malformed}
          /\ result[n] \in said \cup {Malformed} => result'[n] \in said' \cup {Malformed}
    BY <1>0, <2>3
  <2>6. \A q \in Procs : proc'[q].at \in {"check", "returned"}
                           => result'[proc'[q].number] \in said' \cup {Malformed}
    <3>1. ASSUME NEW q \in Procs \ {p}, proc'[q].at \in {"check", "returned"}
          PROVE  result'[proc'[q].number] \in said' \cup {Malformed}
      BY <1>0, <3>1, <2>2, <2>4, <2>5
    <3>2. QED
      BY <3>1, <2>1, <2>2, <2>3
  <2>7. QED
    BY <1>0, <2>2, <2>3, <2>5, <2>6
<1>15. ASSUME NEW p \in Procs, Check(p) PROVE Answered'
  <2>1. /\ \/ proc'[p] = Idle
           \/ /\ proc'[p].at = "returned" /\ proc'[p].number = proc[p].number
              /\ proc[p].at = "check"
        /\ \A q \in Procs \ {p} : proc'[q] = proc[q]
    BY <1>0, <1>15 DEF Check, Goto, End, Session
  <2>2. result' = result /\ prompt' = prompt /\ said' = said
    BY <1>15 DEF Check, files
  <2>3. QED
    BY <1>0, <2>1, <2>2 DEF Idle
<1>16. ASSUME NEW S \in SUBSET Procs, Collect(S) PROVE Answered'
  BY <1>0, <1>16 DEF Collect, Idle, files
<1>17. CASE EditBrief \/ SetCommand \/ RecordProbe \/ Submit \/ UNCHANGED vars
  BY <1>0, <1>17 DEF EditBrief, SetCommand, RecordProbe, Submit, vars, files
<1>18. QED
  BY <1>1, <1>2, <1>3, <1>4, <1>5, <1>6, <1>7, <1>8, <1>9, <1>10, <1>11, <1>12,
     <1>13, <1>14, <1>15, <1>16, <1>17 DEF Next, Step

LEMMA GivenStep == DInv /\ [Next]_vars => ReviewWasGiven'
<1> SUFFICES ASSUME DInv, [Next]_vars PROVE ReviewWasGiven'
  OBVIOUS
<1>0. ReviewWasGiven /\ Answered /\ said \subseteq Reviews
  BY DEF DInv, DispatchTypeOK
<1>1. ASSUME NEW S \in SUBSET Procs, Collect(S) PROVE ReviewWasGiven'
  <2> DEFINE read == {result[proc[p].number] : p \in S}
  <2>a. /\ \A r \in read : r \in said /\ r \in Reviews /\ r.head = head
        /\ read # {}
    BY <1>0, <1>1 DEF Collect, Describes, Answered, At
  <2>b. review' = [head |-> head, clean |-> \A r \in read : r.clean] /\ said' = said
    BY <1>1 DEF Collect
  <2> HIDE DEF read
  <2>1. PICK r \in read : r.clean = review'.clean /\ r.head = review'.head
    <3>1. CASE \A r \in read : r.clean
      BY <2>a, <2>b, <3>1 DEF Reviews
    <3>2. CASE \E r \in read : ~r.clean
      BY <2>a, <2>b, <3>2 DEF Reviews
    <3>3. QED
      BY <3>1, <3>2
  <2>2. r \in said /\ r \in Reviews /\ said' = said
    BY <2>a, <2>b
  <2>3. review' = r
    BY <2>1, <2>2, <2>b DEF Reviews
  <2>4. QED
    BY <2>2, <2>3 DEF ReviewWasGiven
<1>2. ASSUME review' = review, said \subseteq said' PROVE ReviewWasGiven'
  BY <1>0, <1>2 DEF ReviewWasGiven
<1>3. (review' = review /\ said \subseteq said') \/ \E S \in SUBSET Procs : Collect(S)
  BY DEF Next, Step, BeginStart, BeginWorker, BeginReviewer, Count, Mkdir,
     Collision, Copy, RecordAttempt, Number, WritePrompt, Run, WriteLog,
     WriteResult, Check, Kill, EditBrief, SetCommand, RecordProbe, Submit,
     record, vars
<1>4. QED
  BY <1>1, <1>2, <1>3

-----------------------------------------------------------------------------
(* Theorems.                                                               *)

\* In every reachable state the invariant holds, for any number of processes.
THEOREM DispatchInvariant == Spec => []DInv
<1>1. DInv /\ [Next]_vars => DInv'
  BY TypeStep, OwnedStep, WholeStep, AdmittedStep, AnsweredStep, GivenStep DEF DInv
<1>2. QED
  BY <1>1, InitDInv, PTL DEF Spec

\* Nobody changes an attempt that has its files, and the recorded one has them:
\* what handover.materialize_attempt gave to a worker stays what it was.
THEOREM AttemptsStay == Spec => AttemptsAreKept /\ []SnapshotIsWhole
<1>1. DInv /\ [Next]_vars =>
        [\A n \in Numbers : attempt[n].holds # {} => attempt'[n] = attempt[n]]_vars
  BY KeptStep
<1>2. DInv => SnapshotIsWhole
  BY DEF DInv
<1>3. QED
  BY <1>1, <1>2, DispatchInvariant, PTL DEF Spec, AttemptsAreKept

\* Only commands that passed a probe are executed (runner._require_passing_probe),
\* whatever is configured between the check and the run.
THEOREM OnlyProbedRun == Spec => []RunsAreProbed
<1>1. DInv => RunsAreProbed
  BY DEF DInv, Admitted, Dispatching, RunsAreProbed, At
<1>2. QED
  BY <1>1, DispatchInvariant, PTL

\* A review that review collect recorded was given for that head by a reviewer.
THEOREM ReviewsAreGiven == Spec => []ReviewWasGiven
<1>1. DInv => ReviewWasGiven
  BY DEF DInv
<1>2. QED
  BY <1>1, DispatchInvariant, PTL
=============================================================================
