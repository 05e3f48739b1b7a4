-------------------------------- MODULE Epics --------------------------------
(***************************************************************************)
(* The life of an epic: `epic new`, `epic park`, `epic resume` (setup.py)  *)
(* and `scope archive` with its crash recovery (finalize.py), over         *)
(* state.json and the directories epics/<slug> and archive/<slug>.         *)
(* Everything here runs under the state lock, so one process takes steps   *)
(* at a time; it may be killed between any two writes, and people may put  *)
(* a directory in the way of an archive or spoil an unfinished record.     *)
(*                                                                         *)
(* Abstracted: the scope-carrying sections are one number, how far the     *)
(* epic has come (Delivered at the end); the events are their number; the  *)
(* record and its SHA-256 digest are the record's contents.  A colliding   *)
(* directory is never empty.                                               *)
(***************************************************************************)
EXTENDS Naturals, FiniteSets

CONSTANTS
  Slugs,
  Keys,           \* idempotency keys given to scope archive
  None,
  Damaged,        \* a record that does not match its digest
  Foreign,        \* a directory wddctl did not make
  Delivered,      \* derived_phase says delivered
  MaxRevision,    \* bound: no new command at this revision
  MaxAccidents    \* bound: directories in the way and records spoilt

Stages == 0 .. Delivered
Records == [scope : Stages, events : Nat]

ASSUME EpicsAssumption ==
  /\ Delivered \in Nat \ {0} /\ MaxRevision \in Nat /\ MaxAccidents \in Nat
  /\ None \notin Slugs \cup Nat \cup [slug : Slugs, record : Records]
  /\ {None, Damaged, Foreign} \cap Records = {}
  /\ None # Damaged /\ None # Foreign /\ Damaged # Foreign

VARIABLES
  \* state.json
  epic,       \* the active slug
  scope,      \* its sections
  parked,     \* the sections of each parked epic
  pending,    \* archivePending: slug, and the record its digest is of
  blocked,    \* archiveBlocked: its slug
  keys, revision,
  \* the disk
  dir,        \* epics/<slug>: absent, bare, only an empty overlay, or content
  record,     \* epics/<slug>/record.json
  archive,    \* archive/<slug>: its record, or a foreign directory
  \* the process that holds the lock, and what happened around it
  step, accidents

file == <<epic, scope, parked, pending, blocked, keys, revision>>
disk == <<dir, record, archive>>
vars == <<file, disk, step, accidents>>

NoneYet == [s \in Slugs |-> None]
Idle == [at |-> "idle", slug |-> None, key |-> None]
To(at) == step' = [step EXCEPT !.at = at]

Init ==
  /\ epic = None /\ scope = 0 /\ parked = NoneYet
  /\ pending = None /\ blocked = None /\ keys = {} /\ revision = 0
  /\ dir = [s \in Slugs |-> "absent"] /\ record = NoneYet /\ archive = NoneYet
  /\ step = Idle /\ accidents = 0

\* generate_archive_record: the journal event itself is not counted.
GenerateAll == [scope |-> scope, events |-> revision]   \* Mutant: it is
Generate ==
  [scope |-> scope, events |-> IF pending = None THEN revision ELSE revision - 1]

-----------------------------------------------------------------------------
(* recover_archive_transaction runs first in every command, under the same *)
(* lock: a command starts only when no row of the matrix applies.          *)

Source == dir[pending.slug] # "absent"
Dest == archive[pending.slug] # None

Healthy ==
  /\ pending = None
  /\ blocked # None => dir[blocked] # "absent"
  /\ blocked = None /\ epic # None => record[epic] = None
Command == step = Idle /\ Healthy /\ revision < MaxRevision

\* _reset_to_post_ratification, the event scope.archived on top.
ResetAll ==             \* Mutant: a fresh state for every section
  /\ epic' = None /\ scope' = 0 /\ pending' = None /\ blocked' = None
  /\ parked' = NoneYet /\ revision' = revision + 1 /\ UNCHANGED keys
Reset ==
  /\ epic' = None /\ scope' = 0 /\ pending' = None /\ blocked' = None
  /\ revision' = revision + 1 /\ UNCHANGED <<parked, keys>>

Rename(s) ==
  /\ archive' = [archive EXCEPT ![s] = record[s]]
  /\ dir' = [dir EXCEPT ![s] = "absent"]
  /\ record' = [record EXCEPT ![s] = None]

Recovering == step = Idle /\ pending # None /\ UNCHANGED <<step, accidents>>

\* Rows 1 and 2: _verify_or_regenerate_record, wherever the record is.
HealRecord ==
  /\ Recovering /\ Generate = pending.record /\ UNCHANGED <<file, dir>>
  /\ LET s == pending.slug IN
     \/ /\ Source /\ ~Dest /\ record[s] # pending.record
        /\ record' = [record EXCEPT ![s] = Generate] /\ UNCHANGED archive
     \/ /\ Dest /\ ~Source /\ archive[s] # pending.record
        /\ archive' = [archive EXCEPT ![s] = Generate] /\ UNCHANGED record

\* Row 1 goes on to the rename; the rename makes it row 2.
HealRename ==
  /\ Recovering /\ Source /\ ~Dest /\ record[pending.slug] = pending.record
  /\ Rename(pending.slug) /\ UNCHANGED file

HealReset ==
  /\ Recovering /\ Dest /\ ~Source /\ archive[pending.slug] = pending.record
  /\ Reset /\ UNCHANGED disk

\* Row 3: something else took the slug's place in the archive.
HealUnlink ==
  /\ Recovering /\ Source /\ Dest /\ record[pending.slug] # None
  /\ record' = [record EXCEPT ![pending.slug] = None]
  /\ UNCHANGED <<file, dir, archive>>
NeverBlock == FALSE /\ UNCHANGED vars    \* Mutant: the rename is retried
HealBlock ==
  /\ Recovering /\ Source /\ Dest /\ record[pending.slug] = None
  /\ pending' = None /\ blocked' = pending.slug /\ revision' = revision + 1
  /\ UNCHANGED <<epic, scope, parked, keys, disk>>

\* Row 6: a crash before the journal leaves a stray record.
HealStray ==
  /\ step = Idle /\ pending = None /\ blocked = None
  /\ epic # None /\ record[epic] # None
  /\ record' = [record EXCEPT ![epic] = None]
  /\ UNCHANGED <<file, dir, archive, step, accidents>>

Heal ==
  HealRecord \/ HealRename \/ HealReset \/ HealUnlink \/ HealBlock \/ HealStray

-----------------------------------------------------------------------------
(* epic new: save_overlay inside the mutator, then the state write.        *)

EpicDirShape(s) ==
  IF dir[s] = "absent" THEN "absent"
  ELSE IF record[s] # None THEN "has_record"
  ELSE IF dir[s] = "overlay" THEN "crash_orphan" ELSE "occupied"

AvailableUnparked(s) == \* Mutant: only the directories are asked
  /\ epic = None /\ archive[s] = None
  /\ EpicDirShape(s) \in {"absent", "crash_orphan"}
Available(s) ==
  /\ epic = None /\ archive[s] = None /\ parked[s] = None
  /\ EpicDirShape(s) \in {"absent", "crash_orphan"}

MakeDir(s) ==
  /\ Command /\ Available(s)
  /\ dir' = [dir EXCEPT ![s] = IF @ = "absent" THEN "bare" ELSE @]
  /\ step' = [at |-> "made", slug |-> s, key |-> None]
  /\ UNCHANGED <<file, record, archive, accidents>>
WriteOverlay ==
  /\ step.at = "made" /\ To("overlaid")
  /\ dir' = [dir EXCEPT ![step.slug] = "overlay"]
  /\ UNCHANGED <<file, record, archive, accidents>>
Adopt ==
  /\ step.at = "overlaid" /\ step' = Idle
  /\ epic' = step.slug /\ scope' = 0 /\ revision' = revision + 1
  /\ UNCHANGED <<parked, pending, blocked, keys, disk, accidents>>

\* Any governed event that takes the epic further and writes its files.
Work ==
  /\ Command /\ epic # None /\ scope < Delivered
  /\ scope' = scope + 1 /\ revision' = revision + 1
  /\ dir' = [dir EXCEPT ![epic] = "content"]
  /\ UNCHANGED <<epic, parked, pending, blocked, keys, record, archive, step,
                 accidents>>

Park ==
  /\ Command /\ epic # None /\ pending = None /\ blocked = None
  /\ parked' = [parked EXCEPT ![epic] = scope]
  /\ epic' = None /\ scope' = 0 /\ revision' = revision + 1
  /\ UNCHANGED <<pending, blocked, keys, disk, step, accidents>>
Resume(s) ==
  /\ Command /\ epic = None /\ parked[s] # None /\ dir[s] # "absent"
  /\ epic' = s /\ scope' = parked[s] /\ revision' = revision + 1
  /\ parked' = [parked EXCEPT ![s] = None]
  /\ UNCHANGED <<pending, blocked, keys, disk, step, accidents>>

-----------------------------------------------------------------------------
(* scope archive: record, journal, rename, reset.                          *)

\* What scope archive answers, its checks in their order.
ArchiveAnswer(k) ==
  IF blocked # None /\ archive[blocked] # None THEN "blocked"
  ELSE IF scope # Delivered THEN "not delivered"
  ELSE IF k \in keys THEN "duplicate"
  ELSE IF epic = None \/ dir[epic] = "absent" \/ archive[epic] # None
    THEN "refused"
  ELSE "archived"

ArchiveRecord(k) ==
  /\ Command /\ ArchiveAnswer(k) = "archived"
  /\ record' = [record EXCEPT ![epic] = Generate]
  /\ step' = [at |-> "recorded", slug |-> epic, key |-> k]
  /\ UNCHANGED <<file, dir, archive, accidents>>
ArchiveJournal ==
  /\ step.at = "recorded" /\ To("journaled")
  /\ pending' = [slug |-> epic, record |-> Generate] /\ blocked' = None
  /\ keys' = keys \cup {step.key} /\ revision' = revision + 1
  /\ UNCHANGED <<epic, scope, parked, disk, accidents>>
\* os.rename fails, and ends the command, when a directory got in the way.
ArchiveRename ==
  /\ step.at = "journaled" /\ UNCHANGED <<file, accidents>>
  /\ IF Dest THEN step' = Idle /\ UNCHANGED disk
             ELSE To("moved") /\ Rename(step.slug)
ArchiveReset ==
  /\ step.at = "moved" /\ step' = Idle
  /\ Reset /\ UNCHANGED <<disk, accidents>>

Proceed ==
  WriteOverlay \/ Adopt \/ ArchiveJournal \/ ArchiveRename \/ ArchiveReset

-----------------------------------------------------------------------------
(* Around the program.                                                     *)

Crash == step # Idle /\ step' = Idle /\ UNCHANGED <<file, disk, accidents>>

Accident == accidents < MaxAccidents /\ accidents' = accidents + 1

\* Somebody puts a directory where the active epic's archive will go.
Collide ==
  /\ Accident /\ epic # None /\ archive[epic] = None
  /\ archive' = [archive EXCEPT ![epic] = Foreign]
  /\ UNCHANGED <<file, dir, record, step>>
Clear(s) ==
  /\ archive[s] = Foreign /\ archive' = [archive EXCEPT ![s] = None]
  /\ UNCHANGED <<file, dir, record, step, accidents>>
\* The record of an interrupted archive is lost or edited.
Damage ==
  /\ Accident /\ step = Idle /\ pending # None
  /\ LET s == pending.slug IN
     \/ Source /\ record' = [record EXCEPT ![s] = Damaged] /\ UNCHANGED archive
     \/ ~Source /\ archive' = [archive EXCEPT ![s] = Damaged] /\ UNCHANGED record
  /\ UNCHANGED <<file, dir, step>>

Next ==
  \/ Heal \/ Proceed \/ Work \/ Park \/ Crash \/ Collide \/ Damage
  \/ \E s \in Slugs : MakeDir(s) \/ Resume(s) \/ Clear(s)
  \/ \E k \in Keys : ArchiveRecord(k)

\* A process that is not killed goes on; and commands keep being issued, each
\* of which, a mere next or status included, recovers first.
Spec == Init /\ [][Next]_vars /\ WF_vars(Proceed) /\ WF_vars(Heal)

-----------------------------------------------------------------------------
(* Properties.                                                             *)

TypeOK ==
  /\ epic \in Slugs \cup {None} /\ scope \in Stages
  /\ parked \in [Slugs -> Stages \cup {None}]
  /\ pending \in [slug : Slugs, record : Records] \cup {None}
  /\ blocked \in Slugs \cup {None} /\ keys \subseteq Keys /\ revision \in Nat
  /\ dir \in [Slugs -> {"absent", "bare", "overlay", "content"}]
  /\ record \in [Slugs -> Records \cup {None, Damaged}]
  /\ archive \in [Slugs -> Records \cup {None, Damaged, Foreign}]
  /\ step \in [at : {"idle", "made", "overlaid", "recorded", "journaled", "moved"},
               slug : Slugs \cup {None}, key : Keys \cup {None}]
  /\ accidents \in Nat

\* finalize.py:1127 calls a regenerated record that differs "unreachable", and
\* row 4 has nothing to go by: an interrupted archive always finds its
\* directory in one place, and the live state still yields the journaled
\* record; a blocked one still has its epic.
RecoveryNeverRefuses ==
  /\ pending # None =>
       /\ ~Source => archive[pending.slug] \in Records \cup {Damaged}
       /\ Generate = pending.record
  /\ blocked # None => dir[blocked] # "absent" /\ epic = blocked

\* Slugs are "unique across epics/ and archive/": outside an interrupted
\* archive no slug has both, and active and parked epics have their directory.
SlugsAreUnique ==
  \A s \in Slugs :
    /\ archive[s] \in Records => dir[s] = "absent"
    /\ parked[s] # None => dir[s] # "absent" /\ epic # s
    /\ epic = s /\ (pending = None \/ blocked # None) => dir[s] # "absent"

\* An interrupted archive is completed, or turned into a named blocker, by the
\* commands that follow: recovery does not retry a collision for ever.
PendingResolves == pending # None ~> pending = None

-----------------------------------------------------------------------------
(* What a crash does not show: seen through the ledger, archiving happens  *)
(* when the state is reset, and nothing parked or archived is ever lost.   *)

HomeOf(s) ==
  IF epic = s THEN "active"
  ELSE IF parked[s] # None THEN "parked"
  ELSE IF archive[s] \in Records THEN "archived" ELSE "new"

ContentOf(s) ==
  IF epic = s THEN scope
  ELSE IF parked[s] # None THEN parked[s]
  ELSE IF archive[s] \in Records THEN archive[s].scope ELSE None

Ledger == INSTANCE EpicLedger WITH
  Names <- Slugs, Nothing <- None, Finished <- Delivered,
  home <- [s \in Slugs |-> HomeOf(s)],
  content <- [s \in Slugs |-> ContentOf(s)]

\* Every step of the lifecycle, crashes and recoveries included, is one step
\* of the ledger or none.
ImplementsLedger == Ledger!LedgerSpec
=============================================================================
