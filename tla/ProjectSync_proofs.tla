------------------------- MODULE ProjectSync_proofs -------------------------
(* Proofs about ProjectSync: one issue per task, no invented status, no     *)
(* text of people planned over, and pulls that converge.                    *)
EXTENDS ProjectSync, FiniteSetTheorems, TLAPS

\* An issue made for a task is linked in the manifest, or people owe its link.
Accounted ==
  \A i \in Made :
    issues[i].for # None =>
      HasLink(issues[i].for) \/ <<issues[i].for, i>> \in owed

\* An issue is only to be made for a task that has none, and only once.
MadeOnce ==
  \A o \in ops : o.act = "create" =>
    /\ \A i \in Made : issues[i].for # o.task
    /\ \A p \in ops : p.act = "create" /\ p.task = o.task => p = o

\* While a sync writes, no link is owed: it plans the push from what it wrote.
NothingOwed == cmd # None /\ cmd.mode = "sync" => owed = {}

\* An operation names a column only for a task whose status is recorded.
NoGuess == \A o \in ops : o.column # None => state[o.task] # None

\* The fingerprint of a task that was pulled is of rendered text.
ByHand(text) == text # None /\ text.by = "hand"
PulledPrints ==
  \A t \in Tasks \ relinked :
    manifest[t].local # NoPrint =>
      ~ByHand(manifest[t].local[1]) /\ ~ByHand(manifest[t].local[2])
Rendered ==
  cmd # None /\ cmd.step = "briefs" => \A t \in Imported : ~ByHand(plan[t])

IInv ==
  /\ SyncTypeOK /\ Accounted /\ MadeOnce /\ OneIssuePerTask
  /\ NothingOwed /\ NoGuess /\ PulledPrints /\ Rendered

OpType == [act : Acts, task : Tasks, issue : Links, column : Columns \cup {None}]

-----------------------------------------------------------------------------
(* The initial state.                                                      *)

LEMMA InitIInv == Init => IInv
<1> SUFFICES ASSUME Init PROVE IInv
  OBVIOUS
<1> USE SyncAssumption DEF Init
<1>1. Made = {} /\ IsFiniteSet(Made) /\ Cardinality(Made) = 0
  BY FS_EmptySet DEF Made
<1>2. SyncTypeOK
  BY <1>1 DEF SyncTypeOK, Unlinked, Links, Blank
<1>3. PulledPrints
  BY DEF PulledPrints, Unlinked, NoPrint
<1>4. QED
  BY <1>1, <1>2, <1>3 DEF IInv, Accounted, MadeOnce, OneIssuePerTask,
     NothingOwed, NoGuess, Rendered

-----------------------------------------------------------------------------
(* The operations of a push, from a state in which no link is owed.        *)

\* What planning a push establishes, over the tasks and links it read.
LEMMA Planned ==
  ASSUME NEW s, NEW o \in PushOps(s), SyncTypeOK
  PROVE  /\ o \in OpType
         /\ o.column # None => state[o.task] # None
         /\ o.act = "create" =>
              ~HasLink(o.task) /\ o = Op("create", o.task, None, state[o.task])
<1> USE SyncAssumption DEF SyncTypeOK, Known, OpType, Op, Acts, Desired
<1>1. PICK t \in Tasks : o \in Created(t, s) \cup Readded(t, s) \cup Drifted(t, s)
  BY DEF PushOps
<1>2. CASE o \in Created(t, s)
  BY <1>2 DEF Created, IsNew, Links
<1>3. CASE o \in Readded(t, s)
  BY <1>3 DEF Readded, Links
<1>4. CASE o \in Drifted(t, s)
  <2>1. Linked(t, s) \in Links
    BY DEF Linked, Links
  <2>2. QED
    BY <1>4, <2>1 DEF Drifted
<1>5. QED
  BY <1>1, <1>2, <1>3, <1>4

-----------------------------------------------------------------------------
(* The commands keep the invariant.                                        *)

\* The operations planned when no link is owed may be carried out.
LEMMA PlannedPush ==
  ASSUME IInv, owed = {}, NEW s
  PROVE  /\ PushOps(s) \subseteq OpType
         /\ \A o \in PushOps(s) : o.column # None => state[o.task] # None
         /\ \A o \in PushOps(s) : o.act = "create" =>
              /\ \A i \in Made : issues[i].for # o.task
              /\ \A p \in PushOps(s) : p.act = "create" /\ p.task = o.task => p = o
<1> USE DEF IInv
<1>1. \A i \in Made : issues[i].for # None => HasLink(issues[i].for)
  BY DEF Accounted
<1>2. \A o \in PushOps(s) : o.task \in Tasks
  BY Planned DEF OpType
<1>3. QED
  BY <1>1, <1>2, Planned, SyncAssumption

LEMMA PushStep == IInv /\ Push => IInv'
<1> SUFFICES ASSUME IInv, Push PROVE IInv'
  OBVIOUS
<1>1. PICK s \in Snapshots : ops' = PushOps(s)
  BY DEF Push
<1>2. owed = {} /\ UNCHANGED <<local, state, issues, owed, cmd, relinked, edits>>
  BY DEF Push
<1>3. SyncTypeOK'
  BY <1>1, <1>2, PlannedPush DEF IInv, SyncTypeOK, local, Made, OpType
<1>4. MadeOnce' /\ NoGuess'
  BY <1>1, <1>2, PlannedPush DEF MadeOnce, NoGuess, Made
<1>5. QED
  BY <1>2, <1>3, <1>4 DEF IInv, Accounted, OneIssuePerTask, NothingOwed,
     PulledPrints, Rendered, local, Made, HasLink, Imported

LEMMA PullStep ==
  ASSUME NEW mode \in {"pull", "sync"}, IInv, Pull(mode)
  PROVE  IInv'
<1> UNCHANGED <<local, state, issues, owed, relinked, edits>> /\ cmd = None
  BY DEF Pull
<1>1. PICK s \in Snapshots : \E a \in Assignments(s) : \E last \in Lasts(a) :
        \E from \in Imports(a, New(s, a, last)) :
          IF DOMAIN from # {}
            THEN /\ cmd' = [step |-> "plan", last |-> last, from |-> from,
                            snap |-> s, mode |-> mode]
                 /\ UNCHANGED ops
            ELSE mode = "sync" /\ ops' = PushOps(s) /\ UNCHANGED cmd
  BY DEF Pull
<1>2. PICK a \in Assignments(s) : \E last \in Lasts(a) :
        \E from \in Imports(a, New(s, a, last)) :
          IF DOMAIN from # {}
            THEN /\ cmd' = [step |-> "plan", last |-> last, from |-> from,
                            snap |-> s, mode |-> mode]
                 /\ UNCHANGED ops
            ELSE mode = "sync" /\ ops' = PushOps(s) /\ UNCHANGED cmd
  BY <1>1
<1>l. PICK last \in Lasts(a) :
        \E from \in Imports(a, New(s, a, last)) :
          IF DOMAIN from # {}
            THEN /\ cmd' = [step |-> "plan", last |-> last, from |-> from,
                            snap |-> s, mode |-> mode]
                 /\ UNCHANGED ops
            ELSE mode = "sync" /\ ops' = PushOps(s) /\ UNCHANGED cmd
  BY <1>2
<1>3. PICK from \in Imports(a, New(s, a, last)) :
        IF DOMAIN from # {}
          THEN /\ cmd' = [step |-> "plan", last |-> last, from |-> from,
                          snap |-> s, mode |-> mode]
               /\ UNCHANGED ops
          ELSE mode = "sync" /\ ops' = PushOps(s) /\ UNCHANGED cmd
  BY <1>l
<1>4. mode = "sync" => owed = {}
  BY DEF Pull
<1>5. CASE DOMAIN from # {}
  <2>1. DOMAIN s \subseteq Made
    BY DEF Snapshots, Restrict, Board
  <2>2. /\ DOMAIN from \subseteq DOMAIN last /\ DOMAIN last \subseteq Tasks
        /\ Range(last) \subseteq Made
    BY <2>1 DEF Imports, New, Lasts, Assignments, Range
  <2>3. /\ cmd'.mode = mode /\ cmd'.from = from /\ cmd'.last = last
        /\ mode \in {"pull", "sync"} /\ UNCHANGED <<local, issues, ops, owed, state, edits>>
    BY <1>3, <1>5 DEF Pull
  <2>t. SyncTypeOK'
    BY <2>2, <2>3 DEF IInv, SyncTypeOK, local, Made
  <2>4. QED
    BY <1>3, <1>4, <1>5, <2>t DEF IInv, Accounted, OneIssuePerTask, NothingOwed,
       PulledPrints, Rendered, local, Made, HasLink, Imported, MadeOnce, NoGuess
<1>6. CASE DOMAIN from = {}
  <2>1. ops' = PushOps(s) /\ owed = {} /\ UNCHANGED cmd
    BY <1>3, <1>4, <1>6
  <2>2. SyncTypeOK'
    BY <2>1, PlannedPush DEF IInv, SyncTypeOK, local, Made, OpType
  <2>3. MadeOnce' /\ NoGuess'
    BY <2>1, PlannedPush DEF MadeOnce, NoGuess, Made
  <2>4. QED
    BY <2>1, <2>2, <2>3 DEF IInv, Accounted, OneIssuePerTask, NothingOwed,
       PulledPrints, Rendered, local, Made, HasLink, Imported
<1>7. QED
  BY <1>5, <1>6

LEMMA WritePlanStep == IInv /\ WritePlan => IInv'
<1> SUFFICES ASSUME IInv, WritePlan PROVE IInv'
  OBVIOUS
<1> USE DEF WritePlan, Writing
<1>1. cmd # None /\ cmd'.from = cmd.from /\ cmd'.mode = cmd.mode
      /\ cmd'.snap = cmd.snap /\ cmd'.last = cmd.last
  BY DEF Step
<1>2. SyncTypeOK'
  BY <1>1 DEF IInv, SyncTypeOK, Made
<1>3. Rendered'
  <2>1. \A t \in Imported : plan'[t] = Import(t) /\ ~ByHand(Import(t))
    BY <1>1 DEF IInv, SyncTypeOK, Imported, ByHand, Import, EntryOf, Hub
  <2>2. QED
    BY <1>1, <2>1 DEF Rendered, Imported, ByHand
<1>4. NothingOwed'
  BY <1>1 DEF IInv, NothingOwed
<1>5. QED
  BY <1>2, <1>3, <1>4 DEF IInv, Accounted, OneIssuePerTask, PulledPrints, Made,
     HasLink, MadeOnce, NoGuess

LEMMA WriteBriefStep ==
  ASSUME NEW t \in Tasks, IInv, WriteBrief(t)
  PROVE  IInv'
<1> USE DEF WriteBrief, Writing
<1>1. SyncTypeOK'
  BY DEF IInv, SyncTypeOK, Made
<1>2. QED
  BY <1>1 DEF IInv, Accounted, OneIssuePerTask, PulledPrints, Made,
     HasLink, MadeOnce, NoGuess, Rendered, NothingOwed, Imported

LEMMA KillStep == IInv /\ Kill => IInv'
<1> SUFFICES ASSUME IInv, Kill PROVE IInv'
  OBVIOUS
<1> USE DEF Kill, local, remote
<1>1. SyncTypeOK'
  BY DEF IInv, SyncTypeOK, Made
<1>2. QED
  BY <1>1 DEF IInv, Accounted, OneIssuePerTask, PulledPrints, Made,
     HasLink, MadeOnce, NoGuess, Rendered, NothingOwed

\* A link stays a link when a pull records what it wrote.
LEMMA ManifestLinks ==
  ASSUME IInv, WriteManifest
  PROVE  /\ DOMAIN manifest' = Tasks
         /\ \A t \in Tasks : /\ DOMAIN manifest'[t] = DOMAIN Unlinked
                             /\ {manifest'[t].issue, manifest'[t].item} \subseteq Links
                             /\ HasLink(t) => HasLink(t)'
         /\ \A t \in Tasks \ Imported : manifest'[t] = manifest[t]
<1>1. cmd # None
  BY DEF WriteManifest, Step
<1>2. \A t \in Imported : t \in Tasks /\ cmd.last[t] \in Made
  BY <1>1 DEF IInv, SyncTypeOK, Imported, Range
<1>3. \A t \in Imported : cmd.last[t] \in Issues /\ cmd.last[t] # None
  <2>1. Made \subseteq Issues /\ Issues \subseteq Nat
    BY SyncAssumption DEF IInv, SyncTypeOK, Issues
  <2>2. QED
    BY <1>2, <2>1, SyncAssumption
<1>4. \A t \in Imported : /\ manifest'[t].issue = cmd.last[t]
                          /\ manifest'[t].item = cmd.last[t]
                          /\ DOMAIN manifest'[t] = DOMAIN Unlinked
  BY <1>2 DEF WriteManifest, Unlinked
<1>5. \A t \in Tasks \ Imported : manifest'[t] = manifest[t]
  BY DEF WriteManifest
<1>6. ASSUME NEW t \in Imported PROVE HasLink(t)'
  BY <1>3, <1>4 DEF HasLink
<1>7. \A t \in Tasks \ Imported : HasLink(t) => HasLink(t)'
  BY <1>5 DEF HasLink
<1>8. QED
  BY <1>3, <1>4, <1>5, <1>6, <1>7 DEF WriteManifest, IInv, SyncTypeOK, Unlinked, Links

\* What a sync plans after it wrote is planned like a push.
LEMMA Replanned ==
  ASSUME IInv, WriteManifest, cmd.mode # "pull", owed = {}
  PROVE  /\ ops' \subseteq OpType
         /\ \A o \in ops' : o.column # None => state[o.task] # None
         /\ \A o \in ops' : o.act = "create" =>
              /\ \A i \in Made : issues[i].for # o.task
              /\ \A p \in ops' : p.act = "create" /\ p.task = o.task => p = o
<1> USE DEF IInv
<1> UNCHANGED <<plan, brief, state, issues>>
  BY DEF WriteManifest, Writing
<1>1. ops' = UNION {PushOps(s)' : s \in {cmd.snap}}
  BY DEF WriteManifest
<1>2. ASSUME NEW o \in ops'
      PROVE  /\ o \in OpType
             /\ o.column # None => state[o.task] # None
             /\ o.act = "create" =>
                  ~HasLink(o.task)' /\ o = Op("create", o.task, None, state[o.task])
  <2> USE SyncAssumption, ManifestLinks DEF Known, OpType, Op, Acts, Desired, SyncTypeOK
  <2>1. PICK s \in {cmd.snap} : o \in PushOps(s)'
    BY <1>1
  <2>2. PICK t \in Tasks :
          o \in Created(t, s)' \cup Readded(t, s)' \cup Drifted(t, s)'
    BY <2>1 DEF PushOps
  <2>3. CASE o \in Created(t, s)'
    BY <2>3 DEF Created, IsNew, Links
  <2>4. CASE o \in Readded(t, s)'
    BY <2>4 DEF Readded, Links
  <2>5. CASE o \in Drifted(t, s)'
    <3>1. Linked(t, s)' \in Links
      BY DEF Linked, Links
    <3>2. QED
      BY <2>5, <3>1 DEF Drifted
  <2>6. QED
    BY <2>2, <2>3, <2>4, <2>5
<1>3. \A i \in Made : issues[i].for # None => HasLink(issues[i].for)'
  <2>1. \A i \in Made : issues[i].for # None => issues[i].for \in Tasks
    BY DEF SyncTypeOK, Issue
  <2>2. QED
    BY <2>1, ManifestLinks DEF Accounted
<1>4. QED
  BY <1>2, <1>3, SyncAssumption DEF OpType

LEMMA WriteManifestStep == IInv /\ WriteManifest => IInv'
<1> SUFFICES ASSUME IInv, WriteManifest PROVE IInv'
  OBVIOUS
<1>1. UNCHANGED <<plan, brief, state, issues, owed, edits, kills>> /\ cmd' = None
  BY DEF WriteManifest, Writing
<1>2. \A i \in Made : issues[i].for # None => issues[i].for \in Tasks
  BY DEF IInv, SyncTypeOK, Issue
<1>3. Accounted'
  BY <1>1, <1>2, ManifestLinks DEF IInv, Accounted, Made
<1>4. ops' = ops \/ (cmd.mode # "pull" /\ owed = {})
  <2>1. cmd # None /\ cmd.mode \in {"pull", "sync"}
    BY DEF WriteManifest, Step, IInv, SyncTypeOK
  <2>2. QED
    BY <2>1 DEF WriteManifest, IInv, NothingOwed
<1>5. SyncTypeOK'
  BY <1>1, <1>4, ManifestLinks, Replanned DEF IInv, SyncTypeOK, Made, OpType
<1>6. MadeOnce' /\ NoGuess'
  BY <1>1, <1>4, Replanned DEF IInv, MadeOnce, NoGuess, Made
<1>7. PulledPrints'
  <2>1. \A t \in Imported : ~ByHand(plan[t]) /\ ~ByHand(brief[t])
    <3>1. \A t \in Imported : ~ByHand(plan[t])
      BY DEF WriteManifest, Step, IInv, Rendered
    <3>2. ASSUME NEW t \in Imported PROVE brief[t].by = "hub"
      <4>1. brief[t] = ImportBrief(t)
        BY DEF WriteManifest
      <4>2. QED
        BY <4>1 DEF ImportBrief, HubBrief
    <3>3. QED
      BY <3>1, <3>2 DEF ByHand
  <2>2. \A t \in Imported \cap Tasks :
          manifest'[t].local = <<plan[t], brief[t]>>
    BY DEF WriteManifest, PrintOfDisk, LocalPrint
  <2>3. relinked' = relinked \ Imported
    BY DEF WriteManifest
  <2>4. QED
    BY <2>1, <2>2, <2>3, ManifestLinks DEF IInv, PulledPrints, ByHand
<1>8. QED
  BY <1>1, <1>3, <1>5, <1>6, <1>7 DEF IInv, OneIssuePerTask, Made, NothingOwed,
     Rendered

LEMMA RecordLinkStep ==
  ASSUME NEW t \in Tasks, NEW i \in Issues, IInv, RecordLink(t, i)
  PROVE  IInv'
<1>1. UNCHANGED <<plan, brief, state, issues, ops, cmd, edits, kills>>
      /\ cmd = None /\ owed' = owed \ {<<t, i>>} /\ relinked' = relinked \cup {t}
  BY DEF RecordLink
<1>2. i # None
  BY SyncAssumption DEF Issues
<1>3. /\ DOMAIN manifest' = Tasks
      /\ \A u \in Tasks \ {t} : manifest'[u] = manifest[u]
      /\ DOMAIN manifest'[t] = DOMAIN Unlinked
      /\ {manifest'[t].issue, manifest'[t].item} \subseteq Links
      /\ HasLink(t)'
  BY <1>2 DEF RecordLink, IInv, SyncTypeOK, Unlinked, Links, HasLink
<1>4. SyncTypeOK'
  <2>1. Made' = Made /\ owed' \subseteq owed /\ UNCHANGED cmd
    BY <1>1 DEF Made
  <2>2. \A u \in Tasks : /\ DOMAIN manifest'[u] = DOMAIN Unlinked
                         /\ {manifest'[u].issue, manifest'[u].item} \subseteq Links
    BY <1>3 DEF IInv, SyncTypeOK
  <2> QED
    BY <1>1, <1>3, <2>1, <2>2 DEF IInv, SyncTypeOK
<1>5. Accounted'
  <2>1. \A j \in Made : issues[j].for # None => issues[j].for \in Tasks
    BY DEF IInv, SyncTypeOK, Issue
  <2>2. \A u \in Tasks \ {t} : HasLink(u) => HasLink(u)'
    BY <1>3 DEF HasLink
  <2>3. QED
    BY <1>1, <1>3, <2>1, <2>2 DEF IInv, Accounted, Made
<1>6. PulledPrints'
  BY <1>1, <1>3 DEF IInv, PulledPrints, ByHand
<1>7. QED
  BY <1>1, <1>4, <1>5, <1>6 DEF IInv, OneIssuePerTask, Made, NothingOwed,
     Rendered, MadeOnce, NoGuess

-----------------------------------------------------------------------------
(* What people do keeps the invariant.                                     *)

\* The next issue is a new one.
LEMMA NewNumber ==
  ASSUME SyncTypeOK, NEW issue \in Issue, Extend(issue), NextIssue \in Issues
  PROVE  /\ NextIssue \notin Made /\ NextIssue # None
         /\ Made' = Made \cup {NextIssue}
         /\ issues' \in [Made' -> Issue]
         /\ issues'[NextIssue] = issue
         /\ \A i \in Made : issues'[i] = issues[i]
         /\ Made' = 1 .. Cardinality(Made') /\ IsFiniteSet(Made')
         /\ Made' \subseteq Issues
<1> USE SyncAssumption
<1>1. Made = 1 .. Cardinality(Made) /\ Cardinality(Made) \in Nat
  BY FS_CardinalityType DEF SyncTypeOK
<1>2. NextIssue \notin Made /\ NextIssue # None
  BY <1>1 DEF NextIssue
<1>3. Made' = Made \cup {NextIssue}
  BY DEF Extend, Made
<1>4. IsFiniteSet(Made') /\ Cardinality(Made') = Cardinality(Made) + 1
  BY <1>2, <1>3, FS_AddElement DEF SyncTypeOK, NextIssue
<1>5. Made' = 1 .. Cardinality(Made')
  BY <1>1, <1>3, <1>4 DEF NextIssue
<1>6. QED
  BY <1>2, <1>3, <1>4, <1>5 DEF Extend, SyncTypeOK

LEMMA CreateStep ==
  ASSUME NEW o \in ops, IInv, CarryOutCreate(o),
         UNCHANGED <<local, state, cmd, relinked, edits, kills>>, cmd = None
  PROVE  IInv'
<1> DEFINE new == NewIssue(0, o.task, None, FALSE)
           add == Op("add", o.task, NextIssue, None)
           fields == Op("fields", o.task, NextIssue, o.column)
<1>1. o \in OpType
  BY DEF IInv, SyncTypeOK, OpType
<1>2. new \in Issue /\ new.for = o.task
  BY <1>1 DEF NewIssue, Issue, OpType, Columns
<1>3. Extend(new) /\ NextIssue \in Issues /\ o.act = "create"
  BY DEF CarryOutCreate
<1>4. /\ NextIssue \notin Made /\ NextIssue # None
      /\ Made' = Made \cup {NextIssue}
      /\ issues' \in [Made' -> Issue]
      /\ issues'[NextIssue] = new
      /\ \A i \in Made : issues'[i] = issues[i]
      /\ Made' = 1 .. Cardinality(Made') /\ IsFiniteSet(Made')
      /\ Made' \subseteq Issues
  BY <1>2, <1>3, NewNumber DEF IInv
<1> HIDE DEF new
<1>5. ops' = (ops \ {o}) \cup {add, fields} /\ owed' = owed \cup {<<o.task, NextIssue>>}
  BY DEF CarryOutCreate
<1>6. /\ {add, fields} \subseteq OpType /\ add.act = "add" /\ fields.act = "fields"
      /\ add.column = None /\ fields.column = o.column /\ fields.task = o.task
  BY <1>1, <1>3 DEF Op, OpType, Acts, Links
<1> HIDE DEF add, fields
<1>7. SyncTypeOK'
  <2>1. owed' \subseteq Tasks \X Made'
    BY <1>1, <1>4, <1>5 DEF IInv, SyncTypeOK, OpType
  <2>2. ops' \subseteq OpType
    BY <1>5, <1>6 DEF IInv, SyncTypeOK, OpType
  <2>3. QED
    BY <1>4, <2>1, <2>2 DEF IInv, SyncTypeOK, local, OpType
<1>8. Accounted'
  <2>1. \A t \in Tasks : HasLink(t)' = HasLink(t)
    BY DEF HasLink, local
  <2>2. \A i \in Made : issues[i].for # None => issues[i].for \in Tasks
    BY DEF IInv, SyncTypeOK, Issue
  <2>3. QED
    BY <1>2, <1>4, <1>5, <2>1, <2>2 DEF IInv, Accounted
<1>9. OneIssuePerTask' /\ MadeOnce'
  <2>1. \A i \in Made : issues[i].for # o.task
    BY <1>3 DEF IInv, MadeOnce
  <2>2. OneIssuePerTask'
    BY <1>2, <1>4, <2>1 DEF IInv, OneIssuePerTask
  <2>3. \A p \in ops' : p.act = "create" => p \in ops \ {o}
    BY <1>5, <1>6
  <2>4. \A p \in ops \ {o} : p.act = "create" => p.task # o.task
    BY <1>3 DEF IInv, MadeOnce
  <2>5. MadeOnce'
    BY <1>2, <1>4, <2>3, <2>4 DEF IInv, MadeOnce
  <2>6. QED
    BY <2>2, <2>5
<1>10. NoGuess'
  BY <1>5, <1>6 DEF IInv, NoGuess
<1>11. QED
  BY <1>7, <1>8, <1>9, <1>10 DEF IInv, NothingOwed, PulledPrints, Rendered, local

\* An edit of one issue, that keeps what it was made for.
LEMMA EditIssue ==
  ASSUME IInv, DOMAIN issues' = DOMAIN issues,
         \A i \in Made : issues'[i] \in Issue /\ issues'[i].for = issues[i].for,
         issues' = [i \in DOMAIN issues' |-> issues'[i]],
         ops' \subseteq ops, owed' = owed, UNCHANGED <<local, state, cmd, relinked>>,
         edits' \in Nat
  PROVE  IInv'
<1>1. Made' = Made
  BY DEF Made
<1>2. SyncTypeOK'
  BY <1>1 DEF IInv, SyncTypeOK, local, Made
<1>3. Accounted' /\ OneIssuePerTask' /\ MadeOnce' /\ NoGuess'
  <2>1. Accounted'
    BY <1>1 DEF IInv, Accounted, HasLink, local
  <2>2. OneIssuePerTask'
    BY <1>1 DEF IInv, OneIssuePerTask
  <2>3. MadeOnce' /\ NoGuess'
    BY <1>1 DEF IInv, MadeOnce, NoGuess
  <2>4. QED
    BY <2>1, <2>2, <2>3
<1>4. QED
  BY <1>2, <1>3 DEF IInv, NothingOwed, PulledPrints, Rendered, local, Imported

LEMMA Numbered == IInv => issues \in [Made -> Issue] /\ edits \in Nat
  BY DEF IInv, SyncTypeOK

LEMMA EditedOn ==
  ASSUME NEW r \in Issue, NEW on \in BOOLEAN
  PROVE  [r EXCEPT !.on = on] \in Issue /\ [r EXCEPT !.on = on].for = r.for
  BY DEF Issue

LEMMA EditedText ==
  ASSUME NEW r \in Issue, NEW n \in Nat
  PROVE  [r EXCEPT !.text = n] \in Issue /\ [r EXCEPT !.text = n].for = r.for
  BY DEF Issue

LEMMA EditedColumn ==
  ASSUME NEW r \in Issue, NEW c \in Columns
  PROVE  [r EXCEPT !.column = c] \in Issue /\ [r EXCEPT !.column = c].for = r.for
  BY DEF Issue

LEMMA EditedFields ==
  ASSUME NEW r \in Issue, NEW id \in Tasks \cup {None}, NEW c \in Columns
  PROVE  /\ [r EXCEPT !.id = id, !.column = c] \in Issue
         /\ [r EXCEPT !.id = id, !.column = c].for = r.for
  BY DEF Issue

LEMMA CarryOutStep ==
  ASSUME NEW t \in Tasks, NEW act \in Acts, IInv, CarryOut(t, act)
  PROVE  IInv'
<1>1. UNCHANGED <<local, state, cmd, relinked, edits, kills>> /\ cmd = None
  BY DEF CarryOut
<1>2. PICK o \in ops : CarryOutCreate(o) \/ CarryOutAdd(o) \/ CarryOutFields(o)
  BY DEF CarryOut
<1>3. o \in OpType
  BY DEF IInv, SyncTypeOK, OpType
<1>4. CASE CarryOutCreate(o)
  BY <1>1, <1>4, CreateStep
<1>5. CASE CarryOutAdd(o)
  <2>1. \A i \in Made : issues'[i] \in Issue /\ issues'[i].for = issues[i].for
    <3> SUFFICES ASSUME NEW i \in Made
                 PROVE  issues'[i] \in Issue /\ issues'[i].for = issues[i].for
      OBVIOUS
    <3>1. issues[i] \in Issue
      BY DEF IInv, SyncTypeOK
    <3>2. issues'[i] \in {issues[i], [issues[i] EXCEPT !.on = TRUE]}
      BY <1>5 DEF CarryOutAdd, Made
    <3>3. QED
      BY <3>1, <3>2, EditedOn
  <2>2. QED
    BY <1>1, <1>5, <2>1, EditIssue DEF CarryOutAdd, IInv, SyncTypeOK, Made
<1>6. CASE CarryOutFields(o)
  <2>1. \A i \in Made : issues'[i] \in Issue /\ issues'[i].for = issues[i].for
    <3> SUFFICES ASSUME NEW i \in Made
                 PROVE  issues'[i] \in Issue /\ issues'[i].for = issues[i].for
      OBVIOUS
    <3> DEFINE c == IF o.column = None THEN issues[i].column ELSE o.column
    <3>1. issues[i] \in Issue /\ c \in Columns /\ o.task \in Tasks
      BY <1>3 DEF IInv, SyncTypeOK, Issue, OpType
    <3>2. issues'[i] = issues[i]
          \/ issues'[i] = [issues[i] EXCEPT !.id = o.task, !.column = c]
      BY <1>6 DEF CarryOutFields, Made
    <3> HIDE DEF c
    <3>3. o.task \in Tasks \cup {None}
      BY <3>1
    <3>4. /\ [issues[i] EXCEPT !.id = o.task, !.column = c] \in Issue
          /\ [issues[i] EXCEPT !.id = o.task, !.column = c].for = issues[i].for
      BY <3>1, <3>3, EditedFields
    <3>5. QED
      BY <3>1, <3>2, <3>4
  <2>2. /\ DOMAIN issues' = DOMAIN issues
        /\ issues' = [i \in DOMAIN issues' |-> issues'[i]]
        /\ ops' \subseteq ops /\ owed' = owed /\ edits' \in Nat
    BY <1>1, <1>6, Numbered DEF CarryOutFields, Made
  <2>3. QED
    BY <1>1, <2>1, <2>2, EditIssue
<1>7. QED
  BY <1>2, <1>4, <1>5, <1>6

LEMMA EditHereStep ==
  ASSUME NEW t \in Tasks, IInv, EditHere(t)
  PROVE  IInv'
<1> UNCHANGED <<manifest, state, remote, cmd, relinked, kills>> /\ cmd = None
  BY DEF EditHere
<1>1. edits' \in Nat /\ {DOMAIN plan', DOMAIN brief'} = {Tasks}
  BY DEF EditHere, Edits, IInv, SyncTypeOK
<1>2. SyncTypeOK'
  BY <1>1 DEF IInv, SyncTypeOK, remote, Made
<1>3. QED
  BY <1>2 DEF IInv, Accounted, OneIssuePerTask, PulledPrints, Made, HasLink,
     MadeOnce, NoGuess, Rendered, NothingOwed, remote

LEMMA EditThereStep == IInv /\ EditThere => IInv'
<1> SUFFICES ASSUME IInv, EditThere PROVE IInv'
  OBVIOUS
<1>1. UNCHANGED <<local, state, ops, owed, cmd, relinked, kills>> /\ edits' \in Nat
  BY DEF EditThere, Edits, IInv, SyncTypeOK
<1>2. CASE /\ NextIssue \in Issues
           /\ \E id \in FreeIds \cup {None} :
                Extend(NewIssue(edits', None, id, TRUE))
  <2>1. PICK id \in Tasks \cup {None} : Extend(NewIssue(edits', None, id, TRUE))
    BY <1>2 DEF FreeIds
  <2> DEFINE new == NewIssue(edits', None, id, TRUE)
  <2>2. new \in Issue /\ new.for = None
    BY <1>1 DEF NewIssue, Issue, Columns
  <2>3. NextIssue \in Issues
    BY <1>2
  <2>4. /\ NextIssue \notin Made /\ NextIssue # None
        /\ Made' = Made \cup {NextIssue}
        /\ issues' \in [Made' -> Issue]
        /\ issues'[NextIssue] = new
        /\ \A i \in Made : issues'[i] = issues[i]
        /\ Made' = 1 .. Cardinality(Made') /\ IsFiniteSet(Made')
        /\ Made' \subseteq Issues
    BY <2>1, <2>2, <2>3, NewNumber DEF IInv
  <2> HIDE DEF new
  <2>5. SyncTypeOK'
    BY <1>1, <2>4 DEF IInv, SyncTypeOK, local
  <2>6. Accounted'
    BY <1>1, <2>2, <2>4 DEF IInv, Accounted, HasLink, local
  <2>7. OneIssuePerTask'
    BY <2>2, <2>4 DEF IInv, OneIssuePerTask
  <2>8. MadeOnce' /\ NoGuess'
    <3>1. \A o \in ops : o.task # None
      BY SyncAssumption DEF IInv, SyncTypeOK
    <3>2. QED
      BY <1>1, <2>2, <2>4, <3>1 DEF IInv, MadeOnce, NoGuess
  <2>9. QED
    BY <1>1, <2>5, <2>6, <2>7, <2>8 DEF IInv, NothingOwed, PulledPrints,
       Rendered, local, Imported
<1>3. CASE \E i \in Board : issues' = [issues EXCEPT ![i].text = edits']
  <2>1. \A i \in Made : issues'[i] \in Issue /\ issues'[i].for = issues[i].for
    <3> SUFFICES ASSUME NEW i \in Made
                 PROVE  issues'[i] \in Issue /\ issues'[i].for = issues[i].for
      OBVIOUS
    <3> DEFINE n == edits'
    <3>1. issues'[i] = issues[i] \/ issues'[i] = [issues[i] EXCEPT !.text = n]
      BY <1>3, Numbered DEF Made, Board
    <3>2. n \in Nat /\ issues[i] \in Issue
      BY <1>1, Numbered
    <3> HIDE DEF n
    <3>3. [issues[i] EXCEPT !.text = n] \in Issue
          /\ [issues[i] EXCEPT !.text = n].for = issues[i].for
      BY <3>2, EditedText
    <3>4. QED
      BY <3>1, <3>2, <3>3
  <2>2. /\ DOMAIN issues' = DOMAIN issues
        /\ issues' = [i \in DOMAIN issues' |-> issues'[i]]
    BY <1>3, Numbered DEF Made
  <2>3. QED
    BY <1>1, <2>1, <2>2, EditIssue DEF local
<1>4. CASE \E i \in Board : issues' = [issues EXCEPT ![i].column = "Done"]
  <2>1. \A i \in Made : issues'[i] \in Issue /\ issues'[i].for = issues[i].for
    <3> SUFFICES ASSUME NEW i \in Made
                 PROVE  issues'[i] \in Issue /\ issues'[i].for = issues[i].for
      OBVIOUS
    <3>1. issues[i] \in Issue
      BY DEF IInv, SyncTypeOK
    <3>2. issues'[i] \in {issues[i], [issues[i] EXCEPT !.column = "Done"]}
      BY <1>4 DEF Made, Board
    <3>3. QED
      BY <3>1, <3>2, EditedColumn DEF Columns
  <2>2. /\ DOMAIN issues' = DOMAIN issues
        /\ issues' = [i \in DOMAIN issues' |-> issues'[i]]
    BY <1>4 DEF IInv, SyncTypeOK, Made
  <2>3. QED
    BY <1>1, <2>1, <2>2, EditIssue DEF local
<1>5. CASE \E i \in Made : issues' = [issues EXCEPT ![i].on = ~@]
  <2>1. \A i \in Made : issues'[i] \in Issue /\ issues'[i].for = issues[i].for
    <3> SUFFICES ASSUME NEW i \in Made
                 PROVE  issues'[i] \in Issue /\ issues'[i].for = issues[i].for
      OBVIOUS
    <3>1. issues[i] \in Issue
      BY DEF IInv, SyncTypeOK
    <3>2. issues'[i] = issues[i]
          \/ issues'[i] = [issues[i] EXCEPT !.on = ~issues[i].on]
      BY <1>5 DEF Made
    <3> DEFINE on == ~issues[i].on
    <3>3. on \in BOOLEAN
      OBVIOUS
    <3>4. issues'[i] = issues[i] \/ issues'[i] = [issues[i] EXCEPT !.on = on]
      BY <3>2
    <3> HIDE DEF on
    <3>5. QED
      BY <3>1, <3>3, <3>4, EditedOn
  <2>2. /\ DOMAIN issues' = DOMAIN issues
        /\ issues' = [i \in DOMAIN issues' |-> issues'[i]]
    BY <1>5 DEF IInv, SyncTypeOK, Made
  <2>3. QED
    BY <1>1, <2>1, <2>2, EditIssue DEF local
<1>6. QED
  BY <1>2, <1>3, <1>4, <1>5 DEF EditThere

LEMMA MoveStep ==
  ASSUME NEW t \in Tasks, IInv, Move(t)
  PROVE  IInv'
<1>1. UNCHANGED <<local, remote, cmd, relinked, edits, kills>>
  BY DEF Move
<1>2. SyncTypeOK'
  <2>1. state' \in [Tasks -> Columns \cup {None}]
    BY DEF Move, IInv, SyncTypeOK, Columns
  <2>2. QED
    BY <1>1, <2>1 DEF IInv, SyncTypeOK, local, remote, Made
<1>3. NoGuess'
  <2>1. \A u \in Tasks : state[u] # None => state'[u] # None
    BY SyncAssumption DEF Move, IInv, SyncTypeOK, Columns
  <2>2. QED
    BY <1>1, <2>1 DEF IInv, NoGuess, remote, SyncTypeOK
<1>4. QED
  BY <1>1, <1>2, <1>3 DEF IInv, Accounted, OneIssuePerTask, PulledPrints, Made,
     HasLink, MadeOnce, Rendered, NothingOwed, local, remote, Imported

-----------------------------------------------------------------------------
(* The theorems.                                                           *)

LEMMA NextIInv == IInv /\ [SyncNext]_vars => IInv'
<1> SUFFICES ASSUME IInv, [SyncNext]_vars PROVE IInv'
  OBVIOUS
<1>1. ASSUME NEW t \in Tasks, WriteBrief(t) \/ EditHere(t) \/ Move(t) PROVE IInv'
  BY <1>1, WriteBriefStep, EditHereStep, MoveStep
<1>2. ASSUME NEW t \in Tasks, NEW i \in Issues, RecordLink(t, i) PROVE IInv'
  BY <1>2, RecordLinkStep
<1>3. ASSUME NEW t \in Tasks, NEW act \in Acts, CarryOut(t, act) PROVE IInv'
  BY <1>3, CarryOutStep
<1>4. CASE UNCHANGED vars
  BY <1>4 DEF vars, local, remote, IInv, SyncTypeOK, Accounted, OneIssuePerTask,
     PulledPrints, Made, HasLink, MadeOnce, Rendered, NothingOwed, NoGuess,
     Imported
<1>5. QED
  BY <1>1, <1>2, <1>3, <1>4, PushStep, PullStep, WritePlanStep,
     WriteManifestStep, KillStep, EditThereStep DEF SyncNext

\* The invariant everything else rests on.
THEOREM AlwaysIInv == Spec => []IInv
  BY InitIInv, NextIInv, PTL DEF Spec

\* However pushes are carried out, and whatever part of the board they were
\* given, no task ever has two issues.
THEOREM NeverTwice == Spec => []OneIssuePerTask
  BY AlwaysIInv, PTL DEF IInv

\* A column that a push sets is that of a recorded status.
LEMMA CarriedColumn ==
  ASSUME NEW o \in ops, IInv, CarryOutCreate(o) \/ CarryOutAdd(o) \/ CarryOutFields(o)
  PROVE  ColumnsAreTrue
<1> SUFFICES ASSUME NEW i \in Made, issues'[i].column # issues[i].column
             PROVE  issues'[i].id # None /\ state[issues'[i].id] # None
  BY DEF ColumnsAreTrue
<1>1. issues[i] \in Issue /\ o \in OpType
  BY DEF IInv, SyncTypeOK, OpType
<1>2. CASE CarryOutCreate(o)
  <2>1. Cardinality(Made) \in Nat /\ Made = 1 .. Cardinality(Made)
    BY FS_CardinalityType DEF IInv, SyncTypeOK
  <2>2. issues'[i] = issues[i]
    <3>1. i # NextIssue
      BY <2>1 DEF NextIssue
    <3>2. QED
      BY <1>2, <3>1 DEF CarryOutCreate, Extend
  <2>3. QED
    BY <2>2
<1>3. CASE CarryOutAdd(o)
  <2>1. issues'[i].column = issues[i].column
    BY <1>1, <1>3 DEF CarryOutAdd, Made, Issue
  <2>2. QED
    BY <2>1
<1>4. CASE CarryOutFields(o)
  <2> DEFINE c == IF o.column = None THEN issues[i].column ELSE o.column
  <2>1. issues'[i] = issues[i]
        \/ issues'[i] = [issues[i] EXCEPT !.id = o.task, !.column = c]
    BY <1>4 DEF CarryOutFields, Made
  <2>2. issues'[i] = [issues[i] EXCEPT !.id = o.task, !.column = c]
    BY <2>1
  <2>3. issues'[i].id = o.task /\ issues'[i].column = c
    BY <1>1, <2>2 DEF Issue
  <2>4. o.column # None
    BY <2>3
  <2>5. QED
    BY <1>1, <2>3, <2>4, SyncAssumption DEF IInv, NoGuess, OpType
<1>5. QED
  BY <1>2, <1>3, <1>4

\* No push ever sets the column of a task whose status is not recorded.
THEOREM StatusIsNeverGuessed == Spec => NoInventedStatus
<1>1. IInv /\ [SyncNext]_vars => ColumnsAreTrue
  <2> SUFFICES ASSUME IInv, [SyncNext]_vars PROVE ColumnsAreTrue
    OBVIOUS
  <2>1. CASE UNCHANGED issues
    BY <2>1 DEF ColumnsAreTrue
  <2>2. CASE EditThere
    <3>1. edits' # edits
      BY <2>2 DEF EditThere, Edits, IInv, SyncTypeOK
    <3>2. QED
      BY <3>1 DEF ColumnsAreTrue
  <2>3. ASSUME NEW t \in Tasks, NEW act \in Acts, CarryOut(t, act)
        PROVE  ColumnsAreTrue
    <3>1. PICK o \in ops : CarryOutCreate(o) \/ CarryOutAdd(o) \/ CarryOutFields(o)
      BY <2>3 DEF CarryOut
    <3>2. QED
      BY <3>1, CarriedColumn
  <2>4. QED
    BY <2>1, <2>2, <2>3 DEF SyncNext, vars, remote, Push, Pull, WritePlan,
       WriteManifest, WriteBrief, Writing, Kill, RecordLink, EditHere, Move
<1>2. QED
  BY <1>1, AlwaysIInv, PTL DEF Spec, NoInventedStatus

\* What a pull imports into a task that was pulled before is not people's.
LEMMA PullSparesHands ==
  ASSUME NEW mode, NEW t \in Known, IInv, Pull(mode), Overwrites(t), HandMade(t)
  PROVE  t \in relinked
<1>1. PICK s \in Snapshots : \E a \in Assignments(s) : \E last \in Lasts(a) :
        \E from \in Imports(a, New(s, a, last)) :
        /\ DOMAIN from # {} => cmd' = [step |-> "plan", last |-> last,
                                       from |-> from, snap |-> s, mode |-> mode]
        /\ DOMAIN from = {} => UNCHANGED cmd
  BY DEF Pull
<1>2. PICK a \in Assignments(s) : \E last \in Lasts(a) :
        \E from \in Imports(a, New(s, a, last)) :
        /\ DOMAIN from # {} => cmd' = [step |-> "plan", last |-> last,
                                       from |-> from, snap |-> s, mode |-> mode]
        /\ DOMAIN from = {} => UNCHANGED cmd
  BY <1>1
<1>l. PICK last \in Lasts(a) :
        \E from \in Imports(a, New(s, a, last)) :
          /\ DOMAIN from # {} => cmd' = [step |-> "plan", last |-> last,
                                         from |-> from, snap |-> s, mode |-> mode]
          /\ DOMAIN from = {} => UNCHANGED cmd
  BY <1>2
<1>3. PICK from \in Imports(a, New(s, a, last)) :
        /\ DOMAIN from # {} => cmd' = [step |-> "plan", last |-> last,
                                       from |-> from, snap |-> s, mode |-> mode]
        /\ DOMAIN from = {} => UNCHANGED cmd
  BY <1>l
<1>4. t \in DOMAIN from
  <2>1. cmd = None /\ cmd' # None /\ t \in DOMAIN cmd'.from
    BY DEF Overwrites, Imported
  <2>2. cmd' = [step |-> "plan", last |-> last, from |-> from, snap |-> s,
                mode |-> mode]
    BY <1>3, <2>1
  <2>3. cmd'.from = from
    BY <2>2
  <2>4. QED
    BY <2>1, <2>3
<1>5. PICK i \in DOMAIN s :
        a[i] = t /\ Importable(t, i, s[i], EntryOf(s, last, t))
  BY <1>4 DEF Imports, New
<1>6. t \in Recorded /\ <<plan[t], brief[t]>> = manifest[t].local
  BY <1>5 DEF Importable, LocalChanged, LocalPrint, Entry, Known
<1>7. /\ manifest[t].local # NoPrint
      /\ manifest[t].local[1] = plan[t] /\ manifest[t].local[2] = brief[t]
  BY <1>6 DEF NoPrint
<1>8. QED
  BY <1>6, <1>7 DEF IInv, PulledPrints, HandMade, ByHand, Known

\* No pull plans to write over what people wrote into a task of the plan,
\* unless record-link took that for synchronised.
THEOREM PeoplesTextIsSpared == Spec => EditsSurvive
<1>1. IInv /\ [SyncNext]_vars =>
        \A t \in Known : Overwrites(t) /\ HandMade(t) => t \in relinked
  <2> SUFFICES ASSUME IInv, [SyncNext]_vars,
                      NEW t \in Known, Overwrites(t), HandMade(t)
               PROVE  t \in relinked
    OBVIOUS
  <2>1. cmd = None /\ cmd' # None
    BY DEF Overwrites
  <2>2. Pull("pull") \/ Pull("sync")
    BY <2>1 DEF SyncNext, vars, Push, WritePlan, WriteManifest, WriteBrief, Step,
       Kill, RecordLink, CarryOut, EditHere, EditThere, Move
  <2>3. QED
    BY <2>2, PullSparesHands
<1>2. QED
  BY <1>1, AlwaysIInv, PTL DEF Spec, EditsSurvive

-----------------------------------------------------------------------------
(* A pull that wrote everything has settled.                               *)

\* How the pull under way matched the items with tasks: by ids and links, each
\* task with some item of which it is the last.  What it does not import was in
\* step when it planned, and is since nothing but this pull writes here.
Matching(a) ==
  /\ a \in [DOMAIN cmd.snap -> Tasks]
  /\ \A i \in DOMAIN cmd.snap :
       IF cmd.snap[i].id # None THEN a[i] = cmd.snap[i].id
       ELSE IF LinkedBy(i) # {} THEN a[i] \in LinkedBy(i)
       ELSE a[i] \in Imported
  /\ \A t \in DOMAIN cmd.last : a[cmd.last[t]] = t
  /\ \A i \in DOMAIN cmd.snap : \A item, entry :
       a[i] \notin Imported /\ item = cmd.snap[i]
         /\ entry = EntryOf(cmd.snap, cmd.last, a[i]) =>
           ~Conflict(a[i], i, item, entry) /\ ~Importable(a[i], i, item, entry)
  /\ \A t \in Imported : cmd.from[t] \in DOMAIN cmd.snap /\ a[cmd.from[t]] = t

UnderWay ==
  cmd # None => /\ \E a \in [DOMAIN cmd.snap -> Tasks] : Matching(a)
                /\ cmd.step = "briefs" => \A t \in Imported : plan[t] = Import(t)

\* A pull that starts to write has matched the items of its snapshot.
LEMMA PullMatches ==
  ASSUME NEW mode, Pull(mode), cmd' # None
  PROVE  UnderWay'
<1> UNCHANGED <<plan, brief, manifest>> /\ cmd = None
  BY DEF Pull, local
<1>0. PICK s \in Snapshots : \E a \in Assignments(s) : \E last \in Lasts(a) :
        /\ Conflicts(s, a, last) = {}
        /\ \E from \in Imports(a, New(s, a, last)) :
             IF DOMAIN from # {}
               THEN cmd' = [step |-> "plan", last |-> last, from |-> from,
                            snap |-> s, mode |-> mode]
               ELSE UNCHANGED cmd
  BY DEF Pull
<1>a. PICK a \in Assignments(s) : \E last \in Lasts(a) :
        /\ Conflicts(s, a, last) = {}
        /\ \E from \in Imports(a, New(s, a, last)) :
             IF DOMAIN from # {}
               THEN cmd' = [step |-> "plan", last |-> last, from |-> from,
                            snap |-> s, mode |-> mode]
               ELSE UNCHANGED cmd
  BY <1>0
<1>1. PICK last \in Lasts(a) :
        /\ Conflicts(s, a, last) = {}
        /\ \E from \in Imports(a, New(s, a, last)) :
             cmd' = [step |-> "plan", last |-> last, from |-> from, snap |-> s,
                     mode |-> mode]
  BY <1>a
<1> DEFINE new == New(s, a, last)
<1>2. PICK from \in Imports(a, new) :
        cmd' = [step |-> "plan", last |-> last, from |-> from, snap |-> s,
                mode |-> mode]
  BY <1>1
<1>3. /\ cmd'.snap = s /\ cmd'.from = from /\ cmd'.last = last
      /\ cmd'.step = "plan" /\ Imported' = DOMAIN from
  BY <1>2 DEF Imported
<1>4. /\ from \in [{a[i] : i \in new} -> new] /\ new \subseteq DOMAIN s
      /\ \A i \in new : a[from[a[i]]] = a[i]
  BY DEF Imports, New
<1>5. a \in [DOMAIN s -> Tasks]
  BY DEF Assignments
<1>6. \A t \in DOMAIN from : from[t] \in DOMAIN s /\ a[from[t]] = t
  BY <1>4
<1>7. ASSUME NEW i \in DOMAIN s, a[i] \notin DOMAIN from
      PROVE  \A item, entry : item = s[i] /\ entry = EntryOf(s, last, a[i]) =>
               ~Conflict(a[i], i, item, entry) /\ ~Importable(a[i], i, item, entry)
  <2>1. i \notin new /\ i \notin Conflicts(s, a, last)
    BY <1>1, <1>4, <1>7
  <2> QED BY <2>1 DEF New, Conflicts
<1>8. ASSUME NEW i \in DOMAIN s, s[i].id = None, LinkedBy(i) = {}
      PROVE  a[i] \in DOMAIN from
  <2>1. a[i] \notin Known \cup Recorded
    BY <1>8 DEF Assignments
  <2>2. \A entry : Importable(a[i], i, s[i], entry)
    BY <2>1 DEF Importable
  <2>3. i \in new
    BY <2>2 DEF New
  <2>4. QED
    BY <1>4, <2>3
<1>9. \A i \in DOMAIN s :
        IF s[i].id # None THEN a[i] = s[i].id
        ELSE IF LinkedBy(i) # {} THEN a[i] \in LinkedBy(i)
        ELSE a[i] \in DOMAIN from
  BY <1>8 DEF Assignments
<1> HIDE DEF new
<1>l. \A t \in DOMAIN last : a[last[t]] = t
  BY <1>5 DEF Lasts, Range
<1>10. /\ \A i : LinkedBy(i)' = LinkedBy(i)
       /\ \A t, i, item, entry :
            /\ Conflict(t, i, item, entry)' = Conflict(t, i, item, entry)
            /\ Importable(t, i, item, entry)' = Importable(t, i, item, entry)
  BY DEF LinkedBy, Recorded, Known, Conflict, Importable, LocalChanged, Entry,
     RemoteChanged
<1>e. \A t : EntryOf(cmd'.snap, cmd'.last, t) = EntryOf(s, last, t)
  BY <1>3
<1>11. Matching(a)'
  BY <1>3, <1>5, <1>6, <1>7, <1>9, <1>l, <1>10, <1>e DEF Matching
<1>12. QED
  BY <1>3, <1>5, <1>11 DEF UnderWay

\* What a pull writes leaves the tasks alone that it does not import.
LEMMA OthersStay ==
  ASSUME NEW t \in Tasks, NEW i, NEW item, NEW entry,
         plan'[t] = plan[t], brief'[t] = brief[t], manifest'[t] = manifest[t]
  PROVE  /\ Conflict(t, i, item, entry)' = Conflict(t, i, item, entry)
         /\ Importable(t, i, item, entry)' = Importable(t, i, item, entry)
<1>1. /\ t \in Known' <=> t \in Known
      /\ t \in Recorded' <=> t \in Recorded
  BY DEF Known, Recorded
<1>2. /\ LocalChanged(t, entry)' = LocalChanged(t, entry)
      /\ RemoteChanged(t, i, item, entry)' = RemoteChanged(t, i, item, entry)
  BY DEF LocalChanged, RemoteChanged, Entry
<1> QED BY <1>1, <1>2 DEF Conflict, Importable

\* A step that writes the plan or a brief keeps the matching.
LEMMA MatchingStays ==
  ASSUME NEW a, Matching(a), cmd # None, cmd'.snap = cmd.snap,
         cmd'.from = cmd.from, cmd'.last = cmd.last, manifest' = manifest,
         \A t \in Tasks \ Imported : plan'[t] = plan[t] /\ brief'[t] = brief[t]
  PROVE  Matching(a)'
<1>1. Imported' = Imported
  BY DEF Imported
<1>2. \A i : LinkedBy(i)' = LinkedBy(i)
  BY DEF LinkedBy, Recorded
<1>3. ASSUME NEW i \in DOMAIN cmd.snap, NEW item, NEW entry,
             a[i] \notin Imported, item = cmd.snap[i],
             entry = EntryOf(cmd.snap, cmd.last, a[i])
      PROVE  ~Conflict(a[i], i, item, entry)' /\ ~Importable(a[i], i, item, entry)'
  <2>1. a[i] \in Tasks /\ ~Conflict(a[i], i, item, entry)
        /\ ~Importable(a[i], i, item, entry)
    BY <1>3 DEF Matching
  <2>2. PICK t \in Tasks : t = a[i]
    BY <2>1
  <2>3. /\ Conflict(t, i, item, entry)' = Conflict(t, i, item, entry)
        /\ Importable(t, i, item, entry)' = Importable(t, i, item, entry)
    BY <1>3, <2>2, OthersStay
  <2> QED BY <2>1, <2>2, <2>3
<1>4. \A t : EntryOf(cmd'.snap, cmd'.last, t) = EntryOf(cmd.snap, cmd.last, t)
  OBVIOUS
<1> QED BY <1>1, <1>2, <1>3, <1>4 DEF Matching

\* No step of anybody else disturbs a pull under way.
LEMMA UnderWayKept ==
  ASSUME UnderWay, [SyncNext]_vars
  PROVE  UnderWay'
<1>1. CASE cmd' = None
  BY <1>1 DEF UnderWay
<1>2. CASE cmd = None /\ cmd' # None
  <2>1. Pull("pull") \/ Pull("sync")
    BY <1>2 DEF SyncNext, vars, Push, WritePlan, WriteManifest, WriteBrief, Step,
       Kill, RecordLink, CarryOut, EditHere, EditThere, Move
  <2> QED BY <1>2, <2>1, PullMatches
<1>3. ASSUME cmd # None, cmd' # None, cmd' = cmd, UNCHANGED local
      PROVE  UnderWay'
  <2>1. PICK a \in [DOMAIN cmd.snap -> Tasks] : Matching(a)
    BY <1>3 DEF UnderWay
  <2>2. Matching(a)'
    BY <1>3, <2>1, MatchingStays DEF local
  <2> QED BY <1>3, <2>1, <2>2 DEF UnderWay, Imported, Import, local
<1>4. ASSUME NEW t \in Tasks, WriteBrief(t) PROVE UnderWay'
  <2>1. /\ cmd # None /\ cmd' = cmd /\ UNCHANGED <<plan, manifest>>
        /\ t \in Imported /\ \A u \in Tasks \ Imported : brief'[u] = brief[u]
    BY <1>4 DEF WriteBrief, Step
  <2>2. PICK a \in [DOMAIN cmd.snap -> Tasks] : Matching(a)
    BY <2>1 DEF UnderWay
  <2>3. Matching(a)'
    BY <2>1, <2>2, MatchingStays
  <2> QED BY <2>1, <2>2, <2>3 DEF UnderWay, Imported, Import
<1>5. CASE WritePlan
  <2>1. /\ cmd # None /\ UNCHANGED <<brief, manifest>>
        /\ cmd'.snap = cmd.snap /\ cmd'.from = cmd.from /\ cmd'.last = cmd.last
        /\ plan' = [u \in Tasks |-> IF u \in Imported THEN Import(u) ELSE plan[u]]
    BY <1>5 DEF WritePlan, Step
  <2>2. PICK a \in [DOMAIN cmd.snap -> Tasks] : Matching(a)
    BY <2>1 DEF UnderWay
  <2>3. Matching(a)'
    BY <2>1, <2>2, MatchingStays
  <2>4. Imported' = Imported /\ Imported \subseteq Tasks
    BY <2>1, <2>2 DEF Imported, Matching
  <2>5. \A u \in Imported : plan'[u] = Import(u)'
    BY <2>1, <2>4 DEF Import
  <2> QED BY <2>1, <2>2, <2>3, <2>4, <2>5 DEF UnderWay
<1> QED
  BY <1>1, <1>2, <1>3, <1>4, <1>5 DEF SyncNext, vars, Push, Pull, WriteManifest,
     Step, Kill, RecordLink, CarryOut, EditHere, EditThere, Move

-----------------------------------------------------------------------------
(* What holds when the manifest is written.                                *)

\* Whom an item is linked to, and when nobody.
LEMMA LinkedMeans ==
  ASSUME NEW i
  PROVE  /\ \A t \in LinkedBy(i) : t \in Recorded /\ LinksTo(t, i)
         /\ \A t \in Recorded : LinksTo(t, i) => LinkedBy(i) # {}
  BY DEF LinkedBy, LinksTo

\* Without clashes the items were matched with tasks one to one.
LEMMA MatchedOnce ==
  ASSUME NEW a, Matching(a), OneToOne(cmd), DOMAIN cmd.last \subseteq Tasks
  PROVE  /\ \A i \in DOMAIN cmd.snap :
              cmd.snap[i].id = None /\ LinkedBy(i) # {} => Claims(a[i], i, cmd.snap)
         /\ \A i, j \in DOMAIN cmd.snap : a[i] = a[j] => i = j
<1>1. \A i \in DOMAIN cmd.snap :
        cmd.snap[i].id = None /\ LinkedBy(i) # {} => Claims(a[i], i, cmd.snap)
  BY LinkedMeans DEF Matching, Claims
<1>2. \A i \in DOMAIN cmd.snap : cmd.last[a[i]] = i
  BY DEF OneToOne, Matching, Range
<1> QED BY <1>1, <1>2

\* The record of a task that was imported agrees with both sides.
LEMMA ImportedAgrees ==
  ASSUME IInv, UnderWay, WriteManifest, NEW t \in Imported
  PROVE  /\ t \in Recorded'
         /\ \A i : LinksTo(t, i)' <=> i = cmd.last[t]
         /\ \A i, item, entry :
              i = cmd.last[t] /\ item = Item(t) /\ entry = Import(t) =>
              ~LocalChanged(t, entry)' /\ ~RemoteChanged(t, i, item, entry)'
<1>1. t \in Tasks /\ cmd.last[t] \in Made /\ cmd # None
  BY DEF IInv, SyncTypeOK, WriteManifest, Step, Imported, Range
<1>2. cmd.last[t] # None
  <2>1. Made \subseteq Issues /\ Issues \subseteq Nat
    BY SyncAssumption DEF IInv, SyncTypeOK, Issues
  <2> QED BY <1>1, <2>1, SyncAssumption
<1>3. /\ manifest'[t].issue = cmd.last[t] /\ manifest'[t].item = cmd.last[t]
      /\ manifest'[t].local = PrintOfDisk(t)
      /\ manifest'[t].remote = RemotePrint(cmd.last[t], Item(t), Import(t))
  BY <1>1 DEF WriteManifest
<1>4. plan'[t] = Import(t) /\ plan[t] = Import(t) /\ brief'[t] = brief[t]
  BY <1>1 DEF WriteManifest, UnderWay, Step
<1>5. t \in Recorded' /\ \A i : LinksTo(t, i)' <=> i = cmd.last[t]
  BY <1>1, <1>2, <1>3 DEF Recorded, LinksTo, Unlinked
<1>6. ASSUME NEW entry, entry = Import(t) PROVE ~LocalChanged(t, entry)'
  BY <1>3, <1>4, <1>6 DEF LocalChanged, Entry, LocalPrint, PrintOfDisk
<1>7. ASSUME NEW i, NEW item, NEW entry,
             i = cmd.last[t], item = Item(t), entry = Import(t)
      PROVE  ~RemoteChanged(t, i, item, entry)'
  BY <1>3, <1>7 DEF RemoteChanged, RemotePrint
<1> QED BY <1>5, <1>6, <1>7

\* After the manifest is written, every item is matched with the same task.
LEMMA MatchedAgain ==
  ASSUME IInv, UnderWay, WriteManifest, OneToOne(cmd),
         NEW a, Matching(a), NEW i \in DOMAIN cmd.snap, NEW t \in Tasks,
         IF cmd.snap[i].id # None THEN t = cmd.snap[i].id
         ELSE LinkedBy(i)' # {} => t \in LinkedBy(i)'
  PROVE  t = a[i]
<1> DEFINE s == cmd.snap
<1>1. /\ a[i] \in Tasks /\ DOMAIN cmd.last \subseteq Tasks
      /\ Imported \subseteq DOMAIN cmd.last
      /\ \A u \in DOMAIN cmd.last : a[cmd.last[u]] = u
  BY DEF Matching, IInv, SyncTypeOK, WriteManifest, Step, Imported
<1>2. a[i] \in Imported => cmd.last[a[i]] = i
  <2>1. Range(cmd.last) = DOMAIN s
    BY DEF OneToOne
  <2> QED BY <1>1, <2>1, MatchedOnce DEF Range
<1>3. \A u \in Tasks \ Imported : manifest'[u] = manifest[u]
  BY DEF WriteManifest
<1>4. CASE s[i].id # None
  BY <1>4 DEF Matching
<1>5. CASE s[i].id = None /\ LinkedBy(i)' # {}
  <2>1. t \in LinkedBy(i)'
    BY <1>5
  <2>2. t \in Recorded' /\ LinksTo(t, i)'
    BY <2>1 DEF LinkedBy, LinksTo
  <2>3. CASE t \in Imported
    BY <1>1, <2>2, <2>3, ImportedAgrees
  <2>4. CASE t \notin Imported
    <3>1. t \in Recorded /\ LinksTo(t, i)
      BY <1>3, <2>2, <2>4 DEF Recorded, LinksTo
    <3>2. LinkedBy(i) # {}
      BY <3>1, LinkedMeans
    <3>3. Claims(a[i], i, s) /\ Claims(t, i, s)
      BY <1>1, <1>5, <3>1, <3>2, MatchedOnce DEF Claims
    <3> QED BY <1>1, <3>3 DEF OneToOne
  <2> QED BY <2>3, <2>4
<1>6. CASE s[i].id = None /\ LinkedBy(i)' = {}
  <2>1. \A u \in Recorded' : ~LinksTo(u, i)'
    BY <1>6 DEF LinkedBy, LinksTo
  <2>2. a[i] \notin Imported
    BY <1>2, <2>1, ImportedAgrees
  <2>3. a[i] \in LinkedBy(i)
    BY <1>6, <2>2 DEF Matching
  <2>4. a[i] \in Recorded /\ LinksTo(a[i], i)
    BY <2>3, LinkedMeans
  <2>5. a[i] \in Recorded' /\ LinksTo(a[i], i)'
    BY <1>1, <1>3, <2>2, <2>4 DEF Recorded, LinksTo
  <2> QED BY <2>1, <2>5
<1> QED BY <1>4, <1>5, <1>6

\* What the manifest then says of every item of the snapshot.
LEMMA Converged ==
  ASSUME IInv, UnderWay, WriteManifest, OneToOne(cmd)
  PROVE  \E c \in {cmd} : (Settled(c.snap) /\ InStep(c))'
<1>1. PICK a \in [DOMAIN cmd.snap -> Tasks] : Matching(a)
  BY DEF UnderWay, WriteManifest, Step
<1>2. PICK c : c = cmd
  OBVIOUS
<1>3. /\ DOMAIN cmd.last \subseteq Tasks /\ Imported \subseteq DOMAIN cmd.last
      /\ Range(cmd.last) = DOMAIN cmd.snap
      /\ \A t \in DOMAIN cmd.last : a[cmd.last[t]] = t
  BY <1>1 DEF IInv, SyncTypeOK, WriteManifest, Step, Imported, OneToOne, Matching
<1>4. \A i \in DOMAIN cmd.snap : cmd.last[a[i]] = i
  BY <1>3 DEF Range
<1>5. ASSUME NEW b \in Assignments(c.snap)', NEW last \in Lasts(b),
             NEW i \in DOMAIN c.snap
      PROVE  /\ ~Conflict(b[i], i, c.snap[i], EntryOf(c.snap, last, b[i]))'
             /\ ~Importable(b[i], i, c.snap[i], EntryOf(c.snap, last, b[i]))'
  <2>1. \A j \in DOMAIN c.snap : b[j] = a[j]
    <3>1. ASSUME NEW j \in DOMAIN c.snap PROVE b[j] = a[j]
      <4>1. PICK t \in Tasks : t = b[j]
        BY DEF Assignments
      <4>2. IF c.snap[j].id # None THEN t = c.snap[j].id
            ELSE LinkedBy(j)' # {} => t \in LinkedBy(j)'
        BY <4>1 DEF Assignments
      <4> QED BY <1>1, <1>2, <4>1, <4>2, MatchedAgain
    <3> QED BY <3>1
  <2>2. last[b[i]] = i
    <3>1. DOMAIN b = DOMAIN c.snap
      BY DEF Assignments
    <3>2. last[b[i]] \in DOMAIN c.snap /\ b[last[b[i]]] = b[i]
      BY <3>1 DEF Lasts, Range
    <3> QED BY <1>2, <1>4, <2>1, <3>2
  <2>3. PICK t \in Tasks : t = b[i]
    BY DEF Assignments
  <2>4. PICK item, entry : item = c.snap[i] /\ entry = EntryOf(c.snap, last, t)
    OBVIOUS
  <2>5. entry = EntryOf(cmd.snap, cmd.last, t) /\ cmd.last[t] = i
    BY <1>2, <1>4, <2>1, <2>2, <2>3, <2>4 DEF EntryOf
  <2>6. CASE t \in Imported
    <3>1. item = Item(t) /\ entry = Import(t)
      BY <1>2, <2>4, <2>5 DEF Item, Import
    <3>2. /\ t \in Recorded'
          /\ ~LocalChanged(t, entry)' /\ ~RemoteChanged(t, i, item, entry)'
      BY <2>5, <2>6, <3>1, ImportedAgrees
    <3>3. ~Conflict(t, i, item, entry)' /\ ~Importable(t, i, item, entry)'
      BY <3>2 DEF Conflict, Importable
    <3> QED BY <2>3, <2>4, <3>3
  <2>7. CASE t \notin Imported
    <3>1. ~Conflict(t, i, item, entry) /\ ~Importable(t, i, item, entry)
      BY <1>1, <1>2, <2>1, <2>3, <2>4, <2>5, <2>7 DEF Matching
    <3>2. plan'[t] = plan[t] /\ brief'[t] = brief[t] /\ manifest'[t] = manifest[t]
      BY <2>7 DEF WriteManifest
    <3>3. ~Conflict(t, i, item, entry)' /\ ~Importable(t, i, item, entry)'
      BY <3>1, <3>2, OthersStay
    <3> QED BY <2>3, <2>4, <3>3
  <2> QED BY <2>6, <2>7
<1>6. Settled(c.snap)'
  BY <1>5 DEF Settled, Conflicts, New
<1>7. ASSUME NEW t \in DOMAIN c.from
      PROVE  ~LocalChanged(t, EntryOf(c.snap, c.last, t))'
  <2>1. t \in Imported
    BY <1>2 DEF Imported
  <2>2. PICK entry : entry = EntryOf(c.snap, c.last, t)
    OBVIOUS
  <2>3. entry = Import(t)
    BY <1>2, <2>2 DEF Import
  <2>4. ~LocalChanged(t, entry)'
    BY <2>1, <2>3, ImportedAgrees
  <2> QED BY <2>2, <2>4
<1>8. InStep(c)'
  BY <1>7 DEF InStep
<1> QED BY <1>2, <1>6, <1>8

\* A pull that wrote everything has settled: pulling the same snapshot again
\* does nothing, unless items and tasks claimed each other more than once.
THEOREM PullSettles == Spec => PullConverges
<1> DEFINE CInv == UnderWay /\ kills \in Nat
<1>1. Init => CInv
  BY DEF Init, UnderWay
<1>2. CInv /\ [SyncNext]_vars => CInv'
  <2> SUFFICES ASSUME CInv, [SyncNext]_vars PROVE kills' \in Nat
    BY UnderWayKept
  <2>1. CASE Kill
    BY <2>1 DEF Kill
  <2>2. Kill \/ kills' = kills
    <3>1. ASSUME NEW t \in Tasks PROVE EditHere(t) \/ Move(t) => kills' = kills
      BY DEF EditHere, Move
    <3>2. WritePlan \/ WriteManifest \/ (\E t \in Tasks : WriteBrief(t)) =>
            kills' = kills
      BY DEF WritePlan, WriteManifest, WriteBrief, Writing
    <3>3. Push \/ Pull("pull") \/ Pull("sync") \/ EditThere => kills' = kills
      BY DEF Push, Pull, EditThere
    <3>4. ASSUME NEW t \in Tasks
          PROVE  (\E i \in Issues : RecordLink(t, i))
                 \/ (\E act \in Acts : CarryOut(t, act)) => kills' = kills
      BY DEF RecordLink, CarryOut
    <3> QED BY <3>1, <3>2, <3>3, <3>4 DEF SyncNext, vars
  <2> QED BY <2>1, <2>2
<1>3. IInv /\ CInv /\ [SyncNext]_vars =>
        (Finished /\ OneToOne(cmd) =>
           \E c \in {cmd} : (Settled(c.snap) /\ InStep(c))')
  <2> SUFFICES ASSUME IInv, CInv, [SyncNext]_vars, Finished, OneToOne(cmd)
               PROVE  \E c \in {cmd} : (Settled(c.snap) /\ InStep(c))'
    OBVIOUS
  <2>1. ~Kill
    BY DEF Kill, Finished
  <2>2. cmd # None /\ cmd' # cmd
    BY DEF Finished, Step
  <2>3. ~Push /\ ~Pull("pull") /\ ~Pull("sync") /\ ~EditThere
    BY <2>2 DEF Push, Pull, EditThere
  <2>4. ~WritePlan
    BY DEF WritePlan, Finished, Step
  <2>5. ASSUME NEW t \in Tasks
        PROVE  /\ ~WriteBrief(t) /\ ~EditHere(t) /\ ~Move(t)
               /\ \A i \in Issues : ~RecordLink(t, i)
               /\ \A act \in Acts : ~CarryOut(t, act)
    BY <2>2 DEF WriteBrief, EditHere, Move, RecordLink, CarryOut
  <2>6. WriteManifest
    BY <2>1, <2>2, <2>3, <2>4, <2>5 DEF SyncNext, vars
  <2> QED BY <2>6, Converged
<1> HIDE DEF CInv
<1>4. QED
  BY <1>1, <1>2, <1>3, AlwaysIInv, PTL DEF Spec, PullConverges

=============================================================================
