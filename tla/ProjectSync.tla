----------------------------- MODULE ProjectSync -----------------------------
(***************************************************************************)
(* The adapter between .wdd/plan.json with its briefs and a GitHub Project *)
(* (skills/wdd-sync-github-project/scripts/wdd_github_project_sync.py):    *)
(* plan_sync in its modes pull, push and sync, apply_local_operations and  *)
(* record_remote_links, with the people who edit both sides and carry out  *)
(* what push proposes.                                                     *)
(*                                                                         *)
(* A pull that applies writes plan.json, the briefs and the manifest one   *)
(* after the other and may be killed between any two.  A snapshot of the   *)
(* project may be partial, and is old when its pull writes.  push only     *)
(* prints operations; people may carry out some of them, and later.        *)
(*                                                                         *)
(* A text stands for all the content a fingerprint is taken of but the     *)
(* status.  Left out: draft items, malformed WDD IDs and plans of another  *)
(* scope (each blocks the whole command), risk and dependency inference,   *)
(* and path containment.                                                   *)
(***************************************************************************)
EXTENDS Naturals, FiniteSets, Functions

CONSTANTS
  Tasks,      \* task ids
  None,
  MaxIssues,  \* bound: issues of the repository
  MaxEdits,   \* bound: edits people make to either side
  MaxKills,   \* bound: pulls killed while they write
  MaxMoved    \* bound: tasks the controller records a status of

Issues == 1 .. MaxIssues
Columns == {"Todo", "Done"}     \* local_status_to_remote of a task's status

ASSUME SyncAssumption ==
  /\ IsFiniteSet(Tasks) /\ None \notin Tasks \cup Nat \cup Columns
  /\ {MaxIssues, MaxEdits, MaxKills, MaxMoved} \subseteq Nat

VARIABLES
  plan, brief,    \* per task: its entry in plan.json and the text of its brief
  manifest,       \* per task: its links and the fingerprints of both sides
  state,          \* per task: the column of the status in state.json
  issues,         \* the issues of the repository
  cmd,            \* a pull that is writing, with the snapshot it planned from
  ops,            \* the operations of the last push, not yet carried out
  owed,           \* issues made for tasks, whose links are not recorded yet
  relinked,       \* tasks whose local fingerprint record-link took
  edits, kills

local == <<plan, brief, manifest>>
remote == <<issues, ops, owed>>
vars == <<local, state, remote, cmd, relinked, edits, kills>>

Blank == [t \in Tasks |-> None]
Hand(n) == [by |-> "hand", n |-> n]     \* written by people here
Hub(n) == [by |-> "hub", n |-> n]       \* an entry, from the text of an issue
\* A brief, from the text of an issue and the entry of its task.
HubBrief(n, entry) == [by |-> "hub", n |-> n, entry |-> entry]

\* No entry in the manifest.
NoPrint == <<>>
Unlinked ==
  [issue |-> None, item |-> None, local |-> NoPrint, remote |-> NoPrint]

Known == {t \in Tasks : plan[t] # None}
Recorded == {t \in Tasks : manifest[t] # Unlinked}
Made == DOMAIN issues
Board == {i \in Made : issues[i].on}

Init ==
  /\ plan = Blank /\ brief = Blank /\ state = Blank
  /\ manifest = [t \in Tasks |-> Unlinked]
  /\ issues = <<>>
  /\ cmd = None /\ ops = {} /\ owed = {} /\ relinked = {}
  /\ edits = 0 /\ kills = 0

-----------------------------------------------------------------------------
(* What plan_sync compares.                                                *)

EntryOnly(e, b) == e    \* Mutant: the brief is not part of the fingerprint
LocalPrint(e, b) == <<e, b>>
RemotePrint(i, item, entry) == <<item.text, item.column, i, entry>>

\* build_reverse_lookup: an issue number goes before an item id.  Of two tasks
\* with one issue the code takes the id that sorts last; here, either.
LinkedBy(i) ==
  LET byIssue == {t \in Recorded : manifest[t].issue = i}
  IN IF byIssue # {} THEN byIssue ELSE {t \in Recorded : manifest[t].item = i}

\* assign_task_ids, in the order of the board: the WDD ID, a recorded link, or
\* an id that no task and no earlier item has; a later one may still claim it.
Assignments(s) ==
  {a \in [DOMAIN s -> Tasks] :
     \A i \in DOMAIN s :
       IF s[i].id # None THEN a[i] = s[i].id
       ELSE IF LinkedBy(i) # {} THEN a[i] \in LinkedBy(i)
       ELSE a[i] \notin Known \cup Recorded
            /\ \A j \in DOMAIN s : j < i => a[j] # a[i]}

\* process_remote_items: each task's last item, of which its entry is made.
Lasts(a) ==
  {last \in [Range(a) -> DOMAIN a] :
     \A i \in DOMAIN a : a[last[a[i]]] = a[i] /\ i <= last[a[i]]}

\* A task that was dropped from the plan is compared by what it would import.
Entry(t, entry) == IF plan[t] = None THEN entry ELSE plan[t]
LocalChanged(t, entry) == LocalPrint(Entry(t, entry), brief[t]) # manifest[t].local
RemoteChanged(t, i, item, entry) == RemotePrint(i, item, entry) # manifest[t].remote

Conflict(t, i, item, entry) ==
  IF t \in Recorded THEN LocalChanged(t, entry) /\ RemoteChanged(t, i, item, entry)
  ELSE t \in Known
Importable(t, i, item, entry) ==
  IF t \in Recorded THEN ~LocalChanged(t, entry) /\ RemoteChanged(t, i, item, entry)
  ELSE t \notin Known

EntryOf(s, last, t) == Hub(s[last[t]].text)
Conflicts(s, a, last) ==
  {i \in DOMAIN s : Conflict(a[i], i, s[i], EntryOf(s, last, a[i]))}
New(s, a, last) ==
  {i \in DOMAIN s : Importable(a[i], i, s[i], EntryOf(s, last, a[i]))}

\* What a pull imports: tasks, each with its brief from the last new item.
Imports(a, new) ==
  {from \in [{a[i] : i \in new} -> new] :
     \A i \in new : a[from[a[i]]] = a[i] /\ i <= from[a[i]]}

-----------------------------------------------------------------------------
(* push: the operations people are to carry out.                           *)

HasLink(t) == manifest[t].issue # None \/ manifest[t].item # None
Linked(t, s) ==
  IF manifest[t].issue \in DOMAIN s THEN manifest[t].issue
  ELSE IF manifest[t].item \in DOMAIN s THEN manifest[t].item
  ELSE None

NotOnBoard(t, s) == Linked(t, s) = None  \* Mutant: a link out of sight is none
IsNew(t, s) == ~HasLink(t)

Missing(t, s) == HasLink(t) /\ Linked(t, s) = None
\* A bare item id that is gone: nothing is safe to propose.
PushBlocked(s) == \E t \in Known : Missing(t, s) /\ manifest[t].issue = None

Acts == {"create", "add", "fields"}
Op(act, t, i, c) == [act |-> act, task |-> t, issue |-> i, column |-> c]

Readded(t, s) ==
  IF Missing(t, s) THEN {Op("add", t, manifest[t].issue, None)} ELSE {}

TodoColumn(t) ==    \* Mutant: a task without a recorded status is todo
  IF state[t] = None THEN "Todo" ELSE state[t]
Desired(t) == state[t]

Drifted(t, s) ==
  IF /\ Linked(t, s) # None
     /\ Desired(t) \notin {None, s[Linked(t, s)].column}
  THEN {Op("fields", t, Linked(t, s), Desired(t))} ELSE {}

\* create_remote_issue; adding the issue and setting its fields depend on it.
Created(t, s) ==
  IF IsNew(t, s) THEN {Op("create", t, None, Desired(t))} ELSE {}

PushOps(s) ==
  UNION {Created(t, s) \cup Readded(t, s) \cup Drifted(t, s) : t \in Known}

-----------------------------------------------------------------------------
(* The commands.                                                           *)

\* What gh project item-list may return: all the items, or some of them.
Snapshots == {Restrict(issues, S) : S \in SUBSET Board}

\* People record the links of what they carried out before they push again.
Push ==
  /\ cmd = None /\ owed = {}
  /\ \E s \in Snapshots : ~PushBlocked(s) /\ ops' = PushOps(s)
  /\ UNCHANGED <<local, state, issues, owed, cmd, relinked, edits, kills>>

\* pull or sync with --apply-local: one conflict stops all of it.  Of a sync
\* that wrote something, people see the operations of the plan made after it.
Pull(mode) ==
  /\ cmd = None /\ (mode = "sync" => owed = {})
  /\ \E s \in Snapshots : \E a \in Assignments(s) : \E last \in Lasts(a) :
       /\ Conflicts(s, a, last) = {}
       /\ mode = "sync" => ~PushBlocked(s)
       /\ \E from \in Imports(a, New(s, a, last)) :
            IF DOMAIN from # {}
              THEN /\ cmd' = [step |-> "plan", last |-> last, from |-> from,
                              snap |-> s, mode |-> mode]
                   /\ UNCHANGED ops
              ELSE mode = "sync" /\ ops' = PushOps(s) /\ UNCHANGED cmd
  /\ UNCHANGED <<local, state, issues, owed, relinked, edits, kills>>

Step(s) == cmd # None /\ cmd.step = s
Writing == UNCHANGED <<state, issues, owed, edits, kills>>

Imported == DOMAIN cmd.from
Item(t) == cmd.snap[cmd.last[t]]
Import(t) == EntryOf(cmd.snap, cmd.last, t)
ImportBrief(t) == HubBrief(cmd.snap[cmd.from[t]].text, Import(t))

WritePlan ==
  /\ Step("plan")
  /\ plan' = [t \in Tasks |-> IF t \in Imported THEN Import(t) ELSE plan[t]]
  /\ cmd' = [cmd EXCEPT !.step = "briefs"]
  /\ UNCHANGED <<brief, manifest, ops, relinked>> /\ Writing

WriteBrief(t) ==
  /\ Step("briefs") /\ t \in Imported /\ brief[t] # ImportBrief(t)
  /\ brief' = [brief EXCEPT ![t] = ImportBrief(t)]
  /\ UNCHANGED <<plan, manifest, ops, cmd, relinked>> /\ Writing

PrintOfItem(t) ==   \* Mutant: the brief is taken as rendered, not as it reads
  LocalPrint(Import(t), None)
PrintOfDisk(t) == LocalPrint(plan[t], brief[t])

\* build_manifest: both fingerprints of what was just written.
WriteManifest ==
  /\ Step("briefs") /\ \A t \in Imported : brief[t] = ImportBrief(t)
  /\ manifest' =
       [t \in Tasks |->
          IF t \notin Imported THEN manifest[t]
          ELSE [issue |-> cmd.last[t], item |-> cmd.last[t],
                local |-> PrintOfDisk(t),
                remote |-> RemotePrint(cmd.last[t], Item(t), Import(t))]]
  /\ UNCHANGED <<plan, brief>> /\ Writing
  /\ ops' = IF cmd.mode = "pull" THEN ops
            ELSE UNION {PushOps(s)' : s \in {cmd.snap}}
  /\ cmd' = None /\ relinked' = relinked \ Imported

Kill ==
  /\ cmd # None /\ cmd' = None
  /\ kills < MaxKills /\ kills' = kills + 1
  /\ UNCHANGED <<local, state, remote, relinked, edits>>

\* record-link, with the number of the issue or the id of its board item; the
\* remote fingerprint stays what it was, or unset.
RecordLink(t, i) ==
  /\ cmd = None /\ <<t, i>> \in owed /\ t \in Known
  /\ \/ manifest' = [manifest EXCEPT ![t].issue = i,
                                     ![t].local = LocalPrint(plan[t], brief[t])]
     \/ /\ i \in Board
        /\ manifest' = [manifest EXCEPT ![t].item = i,
                                        ![t].local = LocalPrint(plan[t], brief[t])]
  /\ owed' = owed \ {<<t, i>>}
  /\ relinked' = relinked \cup {t}
  /\ UNCHANGED <<plan, brief, state, issues, ops, cmd, edits, kills>>

-----------------------------------------------------------------------------
(* People carry out what push proposed, in part or in full.                *)

\* A board gives a new item its first column.
NewIssue(n, t, id, on) ==
  [text |-> n, column |-> "Todo", id |-> id, on |-> on, for |-> t]
NextIssue == Cardinality(Made) + 1
Extend(issue) ==
  issues' = [i \in Made \cup {NextIssue} |->
               IF i = NextIssue THEN issue ELSE issues[i]]

CarryOutCreate(o) ==
  /\ o.act = "create" /\ o.task \in Known /\ NextIssue \in Issues
  /\ Extend(NewIssue(0, o.task, None, FALSE))
  /\ ops' = (ops \ {o}) \cup {Op("add", o.task, NextIssue, None),
                             Op("fields", o.task, NextIssue, o.column)}
  /\ owed' = owed \cup {<<o.task, NextIssue>>}

CarryOutAdd(o) ==
  /\ o.act = "add"
  /\ issues' = [issues EXCEPT ![o.issue].on = TRUE]
  /\ ops' = ops \ {o} /\ UNCHANGED owed

\* Only an item of the board has fields.
CarryOutFields(o) ==
  /\ o.act = "fields" /\ issues[o.issue].on
  /\ issues' = [issues EXCEPT
       ![o.issue].id = o.task,
       ![o.issue].column = IF o.column = None THEN @ ELSE o.column]
  /\ ops' = ops \ {o} /\ UNCHANGED owed

CarryOut(t, act) ==
  /\ cmd = None
  /\ \E o \in {p \in ops : p.task = t /\ p.act = act} :
       CarryOutCreate(o) \/ CarryOutAdd(o) \/ CarryOutFields(o)
  /\ UNCHANGED <<local, state, cmd, relinked, edits, kills>>

-----------------------------------------------------------------------------
(* People edit both sides, and the controller moves its tasks.             *)

Edits == edits < MaxEdits /\ edits' = edits + 1

EditHere(t) ==
  /\ cmd = None /\ Edits
  /\ \/ plan' = [plan EXCEPT ![t] = Hand(edits')] /\ UNCHANGED brief
     \/ /\ t \in Known /\ \A i \in Made : <<t, i>> \notin owed
        /\ plan' = [plan EXCEPT ![t] = None] /\ UNCHANGED brief
     \/ /\ t \in Known
        /\ brief' = [brief EXCEPT ![t] = Hand(edits')] /\ UNCHANGED plan
  /\ UNCHANGED <<manifest, state, remote, cmd, relinked, kills>>

\* An id people give an item is not the id of another item or task.
FreeIds == Tasks \ ({issues[i].id : i \in Made} \cup Recorded \cup Known)

EditThere ==
  /\ Edits
  /\ \/ /\ NextIssue \in Issues
        /\ \E id \in FreeIds \cup {None} :
             Extend(NewIssue(edits', None, id, TRUE))
     \/ \E i \in Board : issues' = [issues EXCEPT ![i].text = edits']
     \/ \E i \in Board : issues' = [issues EXCEPT ![i].column = "Done"]
     \/ \E i \in Made : issues' = [issues EXCEPT ![i].on = ~@]
  /\ UNCHANGED <<local, state, ops, owed, cmd, relinked, kills>>

Move(t) ==
  /\ t \in Known
  /\ \/ /\ state[t] = None
        /\ Cardinality({u \in Tasks : state[u] # None}) < MaxMoved
        /\ state' = [state EXCEPT ![t] = "Todo"]
     \/ state[t] = "Todo" /\ state' = [state EXCEPT ![t] = "Done"]
  /\ UNCHANGED <<local, remote, cmd, relinked, edits, kills>>

-----------------------------------------------------------------------------
SyncNext ==
  \/ Push \/ Pull("pull") \/ Pull("sync")
  \/ WritePlan \/ WriteManifest \/ Kill \/ EditThere
  \/ \E t \in Tasks : WriteBrief(t) \/ EditHere(t) \/ Move(t)
  \/ \E t \in Tasks, i \in Issues : RecordLink(t, i)
  \/ \E t \in Tasks, act \in Acts : CarryOut(t, act)

Spec == Init /\ [][SyncNext]_vars

-----------------------------------------------------------------------------
(* Properties.                                                             *)

Issue == [text : Nat, column : Columns, id : Tasks \cup {None}, on : BOOLEAN,
          for : Tasks \cup {None}]
Links == Issues \cup {None}
SyncTypeOK ==
  /\ {DOMAIN plan, DOMAIN brief, DOMAIN manifest} = {Tasks}
  /\ state \in [Tasks -> Columns \cup {None}]
  /\ \A t \in Tasks :
       /\ DOMAIN manifest[t] = DOMAIN Unlinked
       /\ {manifest[t].issue, manifest[t].item} \subseteq Links
  /\ issues \in [Made -> Issue] /\ edits \in Nat
  /\ Made = 1 .. Cardinality(Made) /\ IsFiniteSet(Made) /\ Made \subseteq Issues
  /\ ops \subseteq [act : Acts, task : Tasks, issue : Links,
                    column : Columns \cup {None}]
  /\ owed \subseteq Tasks \X Made
  /\ cmd # None => /\ cmd.mode \in {"pull", "sync"}
                   /\ DOMAIN cmd.from \subseteq DOMAIN cmd.last
                   /\ DOMAIN cmd.last \subseteq Tasks
                   /\ Range(cmd.last) \subseteq Made

\* push never makes a second issue for a task, whatever snapshot it was given,
\* in whatever part and order its operations are carried out, and although
\* items leave the board (references/github-projects.md: "Push must never
\* duplicate an already-linked task").
OneIssuePerTask ==
  \A i, j \in Made : issues[i].for = issues[j].for => i = j \/ issues[i].for = None

\* The controller's status is never guessed: a column changes by push only for
\* a task whose status state.json records ("It will not invent todo").
ColumnsAreTrue ==
  \A i \in Made :
    (issues'[i].column # issues[i].column /\ edits' = edits) =>
      issues'[i].id # None /\ state[issues'[i].id] # None
NoInventedStatus == [][ColumnsAreTrue]_vars

\* A pull never plans to write over what people wrote into a task of the plan,
\* unless record-link took it for synchronised; and a pull killed between its
\* files never makes a later one take people's text for its own.
HandMade(t) ==
  \E text \in {plan[t], brief[t]} : text # None /\ text.by = "hand"
Overwrites(t) == cmd = None /\ cmd' # None /\ t \in Imported'
EditsSurvive ==
  [][\A t \in Known : Overwrites(t) /\ HandMade(t) => t \in relinked]_vars

\* After a pull wrote everything, pulling the same snapshot again changes and
\* refuses nothing, and a later edit of an imported item alone will be imported:
\* its task does not count as changed here (main: "Re-plan to confirm
\* convergence").  Unless items were matched with one task, of which only the
\* last is recorded, or two tasks claim one item, which may then go to the other.
Settled(s) ==
  \A a \in Assignments(s) : \A last \in Lasts(a) :
    Conflicts(s, a, last) = {} /\ New(s, a, last) = {}
InStep(c) == \A t \in DOMAIN c.from : ~LocalChanged(t, EntryOf(c.snap, c.last, t))
LinksTo(t, i) == i \in {manifest[t].issue, manifest[t].item}
Claims(t, i, s) == IF s[i].id # None THEN s[i].id = t ELSE LinksTo(t, i)
OneToOne(c) ==
  /\ Range(c.last) = DOMAIN c.snap
  /\ \A i \in DOMAIN c.snap, t, u \in Tasks :
       Claims(t, i, c.snap) /\ Claims(u, i, c.snap) => t = u
Finished == Step("briefs") /\ cmd' = None /\ kills' = kills
PullConverges ==
  [][Finished /\ OneToOne(cmd) =>
       \E c \in {cmd} : (Settled(c.snap) /\ InStep(c))']_vars

-----------------------------------------------------------------------------
(* What a document says and the code does not do.                          *)

\* references/github-projects.md: "a later pull only overwrites a task when the
\* remote side changed and the local side did not".
HandWorkSurvives == [][\A t \in Known : Overwrites(t) => ~HandMade(t)]_vars
=============================================================================
