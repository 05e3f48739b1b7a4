---------------------------- MODULE Epics_proofs ----------------------------
(* Proofs about Epics: recovery never has to refuse, no slug is in two      *)
(* places, and the lifecycle implements the ledger.                         *)
EXTENDS Epics, TLAPS

\* Where no archive of the slug stands.
Unarchived(s) == archive[s] \in {None, Foreign}

\* The active epic, the parked ones and the archived ones are apart.
Apart ==
  /\ epic # None /\ pending = None => dir[epic] # "absent" /\ Unarchived(epic)
  /\ epic # None => parked[epic] = None
  /\ \A s \in Slugs :
       /\ parked[s] # None => dir[s] # "absent" /\ Unarchived(s)
       /\ archive[s] \in Records => dir[s] = "absent"

\* A journal names the active epic, and the record its live state yields.
Journal ==
  pending # None =>
    /\ epic = pending.slug /\ blocked = None
    /\ scope = Delivered
    /\ revision > 0 /\ pending.record = [scope |-> scope, events |-> revision - 1]
    /\ Source => Unarchived(epic)
    /\ ~Source => archive[epic] \in Records \cup {Damaged}

Blocker == blocked # None => epic = blocked /\ pending = None

\* What each half-done command has established.
Underway ==
  /\ step.at \in {"made", "overlaid"} =>
       /\ epic = None /\ pending = None
       /\ step.slug \in Slugs /\ parked[step.slug] = None
       /\ archive[step.slug] = None /\ dir[step.slug] # "absent"
  /\ step.at = "recorded" =>
       /\ epic # None /\ step.slug = epic /\ pending = None
       /\ scope = Delivered /\ step.key \in Keys
       /\ record[epic] = [scope |-> scope, events |-> revision]
  /\ step.at \in {"journaled", "moved"} =>
       pending # None /\ step.slug = pending.slug
  /\ step.at = "journaled" => Source /\ record[epic] = pending.record
  /\ step.at = "moved" => ~Source /\ archive[epic] = pending.record
  /\ step.at = "idle" => step = Idle

EpicsInv == TypeOK /\ Apart /\ Journal /\ Blocker /\ Underway

LEMMA InvInit == Init => EpicsInv
  BY EpicsAssumption DEF Init, NoneYet, Idle, EpicsInv, TypeOK, Apart, Journal,
     Blocker, Underway, Unarchived, Records, Stages

\* Every action keeps the invariant.
LEMMA InvStep == EpicsInv /\ [Next]_vars => EpicsInv'
<1> SUFFICES ASSUME EpicsInv, [Next]_vars PROVE EpicsInv'
  OBVIOUS
<1> USE EpicsAssumption DEF EpicsInv, TypeOK, Apart, Unarchived, Journal, Blocker,
      Underway, Source, Records, Stages, Idle, file, disk
<1>1. CASE HealRecord
  BY <1>1 DEF HealRecord, Recovering, Generate, Source, Dest
<1>2. CASE HealRename
  BY <1>2 DEF HealRename, Recovering, Rename, Source, Dest
<1>3. CASE HealReset
  BY <1>3 DEF HealReset, Recovering, Reset, Source, Dest
<1>4. CASE HealUnlink
  BY <1>4 DEF HealUnlink, Recovering, Source, Dest
<1>5. CASE HealBlock
  BY <1>5 DEF HealBlock, Recovering, Source, Dest
<1>6. CASE HealStray
  BY <1>6 DEF HealStray
<1>7. CASE WriteOverlay
  BY <1>7 DEF WriteOverlay, To
<1>8. CASE Adopt
  BY <1>8 DEF Adopt
<1>9. CASE ArchiveJournal
  BY <1>9 DEF ArchiveJournal, To, Generate
<1>10. CASE ArchiveRename
  BY <1>10 DEF ArchiveRename, To, Rename, Source, Dest
<1>11. CASE ArchiveReset
  BY <1>11 DEF ArchiveReset, Reset
<1>12. CASE Work
  BY <1>12 DEF Work, Command, Healthy
<1>13. CASE Park
  BY <1>13 DEF Park, Command, Healthy
<1>14. CASE Crash
  BY <1>14 DEF Crash
<1>15. CASE Collide
  BY <1>15 DEF Collide, Accident
<1>16. CASE Damage
  BY <1>16 DEF Damage, Accident, Source
<1>17. ASSUME NEW s \in Slugs, MakeDir(s) PROVE EpicsInv'
  BY <1>17 DEF MakeDir, Command, Healthy, Available, EpicDirShape
<1>18. ASSUME NEW s \in Slugs, Resume(s) PROVE EpicsInv'
  BY <1>18 DEF Resume, Command, Healthy
<1>19. ASSUME NEW s \in Slugs, Clear(s) PROVE EpicsInv'
  BY <1>19 DEF Clear
<1>20. ASSUME NEW k \in Keys, ArchiveRecord(k) PROVE EpicsInv'
  BY <1>20 DEF ArchiveRecord, Command, Healthy, ArchiveAnswer, Generate
<1>21. CASE UNCHANGED vars
  BY <1>21 DEF vars
<1>22. QED
  BY <1>1, <1>2, <1>3, <1>4, <1>5, <1>6, <1>7, <1>8, <1>9, <1>10, <1>11, <1>12, <1>13, <1>14, <1>15, <1>16, <1>17, <1>18, <1>19, <1>20, <1>21 DEF Next, Heal, Proceed

LEMMA InvariantHolds == Spec => []EpicsInv
<1>1. Init => EpicsInv
  BY InvInit
<1>2. EpicsInv /\ [Next]_vars => EpicsInv'
  BY InvStep
<1>3. QED
  BY <1>1, <1>2, PTL DEF Spec

\* Recovery after any crash finds what it needs: row 4 and the digest mismatch
\* of finalize.py:1122 cannot be reached.
THEOREM RecoverySucceeds == Spec => []RecoveryNeverRefuses
<1>1. EpicsInv => RecoveryNeverRefuses
  BY EpicsAssumption DEF EpicsInv, TypeOK, Apart, Journal, Blocker, Source,
     Unarchived, RecoveryNeverRefuses, Generate
<1>2. QED
  BY <1>1, InvariantHolds, PTL

\* No slug stands in epics/ and in archive/ at once.
THEOREM SlugsStayUnique == Spec => []SlugsAreUnique
<1>1. EpicsInv => SlugsAreUnique
  BY EpicsAssumption DEF EpicsInv, TypeOK, Apart, Journal, Blocker, Unarchived,
     SlugsAreUnique
<1>2. QED
  BY <1>1, InvariantHolds, PTL

-----------------------------------------------------------------------------
(* The ledger sees a step of one slug as a change of its home or content.  *)

\* A step that changes neither for any slug is no step of the ledger.
LEMMA Unseen ==
  ASSUME \A s \in Slugs : HomeOf(s)' = HomeOf(s) /\ ContentOf(s)' = ContentOf(s)
  PROVE  UNCHANGED Ledger!ledgerVars
  BY DEF Ledger!ledgerVars

\* Every step is a step of the ledger, or invisible to it.
LEMMA LedgerStep ==
  EpicsInv /\ [Next]_vars => [Ledger!LedgerNext]_(Ledger!ledgerVars)
<1> SUFFICES ASSUME EpicsInv, [Next]_vars
             PROVE  [Ledger!LedgerNext]_(Ledger!ledgerVars)
  OBVIOUS
<1> DEFINE Same == \A s \in Slugs : HomeOf(s)' = HomeOf(s) /\ ContentOf(s)' = ContentOf(s)
           H == [s \in Slugs |-> HomeOf(s)]
           C == [s \in Slugs |-> ContentOf(s)]
           Others(s) == \A r \in Slugs \ {s} :
                          HomeOf(r)' = HomeOf(r) /\ ContentOf(r)' = ContentOf(r)
<1> USE EpicsAssumption DEF EpicsInv, TypeOK, Apart, Unarchived, Journal, Blocker,
      Underway, Source, Records, Stages, Idle, file, disk
<1>q. ASSUME Same PROVE UNCHANGED Ledger!ledgerVars
  BY <1>q, Unseen
<1> HIDE DEF Same
<1>1. CASE HealRecord
  <2>1. Same
    BY <1>1 DEF HealRecord, Recovering, HomeOf, ContentOf, Same
  <2>2. QED
    BY <2>1, <1>q
<1>2. CASE HealRename
  <2>1. Same
    BY <1>2 DEF HealRename, Recovering, Rename, HomeOf, ContentOf, Same
  <2>2. QED
    BY <2>1, <1>q
<1>3. CASE HealUnlink
  <2>1. Same
    BY <1>3 DEF HealUnlink, Recovering, HomeOf, ContentOf, Same
  <2>2. QED
    BY <2>1, <1>q
<1>4. CASE HealBlock
  <2>1. Same
    BY <1>4 DEF HealBlock, Recovering, HomeOf, ContentOf, Same
  <2>2. QED
    BY <2>1, <1>q
<1>5. CASE HealStray
  <2>1. Same
    BY <1>5 DEF HealStray, HomeOf, ContentOf, Same
  <2>2. QED
    BY <2>1, <1>q
<1>6. CASE WriteOverlay
  <2>1. Same
    BY <1>6 DEF WriteOverlay, To, HomeOf, ContentOf, Same
  <2>2. QED
    BY <2>1, <1>q
<1>7. CASE ArchiveJournal
  <2>1. Same
    BY <1>7 DEF ArchiveJournal, To, HomeOf, ContentOf, Same
  <2>2. QED
    BY <2>1, <1>q
<1>8. CASE ArchiveRename
  <2>1. Same
    BY <1>8 DEF ArchiveRename, To, Rename, Dest, HomeOf, ContentOf, Same
  <2>2. QED
    BY <2>1, <1>q
<1>9. CASE Crash
  <2>1. Same
    BY <1>9 DEF Crash, HomeOf, ContentOf, Same
  <2>2. QED
    BY <2>1, <1>q
<1>10. CASE Collide
  <2>1. Same
    BY <1>10 DEF Collide, Accident, HomeOf, ContentOf, Same
  <2>2. QED
    BY <2>1, <1>q
<1>11. CASE Damage
  <2>1. Same
    BY <1>11 DEF Damage, Accident, HomeOf, ContentOf, Same
  <2>2. QED
    BY <2>1, <1>q
<1>12. ASSUME NEW s \in Slugs, MakeDir(s)
      PROVE  UNCHANGED Ledger!ledgerVars
  <2>1. Same
    BY <1>12 DEF MakeDir, HomeOf, ContentOf, Same
  <2>2. QED
    BY <2>1, <1>q
<1>13. ASSUME NEW s \in Slugs, Clear(s)
      PROVE  UNCHANGED Ledger!ledgerVars
  <2>1. Same
    BY <1>13 DEF Clear, HomeOf, ContentOf, Same
  <2>2. QED
    BY <2>1, <1>q
<1>14. ASSUME NEW k \in Keys, ArchiveRecord(k)
      PROVE  UNCHANGED Ledger!ledgerVars
  <2>1. Same
    BY <1>14 DEF ArchiveRecord, HomeOf, ContentOf, Same
  <2>2. QED
    BY <2>1, <1>q
<1>15. CASE HealReset
  <2> PICK e \in Slugs : e = epic
    BY <1>15 DEF HealReset, Recovering, Reset
  <2>1. HomeOf(e) = "active" /\ ContentOf(e) = Delivered
    BY <1>15 DEF HealReset, Recovering, Reset, HomeOf, ContentOf
  <2>2. HomeOf(e)' = "archived" /\ ContentOf(e)' = Delivered
    BY <1>15 DEF HealReset, Recovering, Reset, HomeOf, ContentOf
  <2>3. Others(e)
    BY <1>15 DEF HealReset, Recovering, Reset, HomeOf, ContentOf
  <2>5. Ledger!Retire(e)
    <3>1. H[e] = HomeOf(e) /\ C[e] = ContentOf(e)
      OBVIOUS
    <3>2. H' = [H EXCEPT ![e] = HomeOf(e)']
      BY <2>3
    <3>3. C' = C
      BY <2>1, <2>2, <2>3
    <3>4. QED
      BY <2>1, <2>2, <3>1, <3>2, <3>3 DEF Ledger!Retire, Ledger!Move
  <2>6. QED
    BY <2>5 DEF Ledger!LedgerNext
<1>16. CASE ArchiveReset
  <2> PICK e \in Slugs : e = epic
    BY <1>16 DEF ArchiveReset, Reset
  <2>1. HomeOf(e) = "active" /\ ContentOf(e) = Delivered
    BY <1>16 DEF ArchiveReset, Reset, HomeOf, ContentOf
  <2>2. HomeOf(e)' = "archived" /\ ContentOf(e)' = Delivered
    BY <1>16 DEF ArchiveReset, Reset, HomeOf, ContentOf
  <2>3. Others(e)
    BY <1>16 DEF ArchiveReset, Reset, HomeOf, ContentOf
  <2>5. Ledger!Retire(e)
    <3>1. H[e] = HomeOf(e) /\ C[e] = ContentOf(e)
      OBVIOUS
    <3>2. H' = [H EXCEPT ![e] = HomeOf(e)']
      BY <2>3
    <3>3. C' = C
      BY <2>1, <2>2, <2>3
    <3>4. QED
      BY <2>1, <2>2, <3>1, <3>2, <3>3 DEF Ledger!Retire, Ledger!Move
  <2>6. QED
    BY <2>5 DEF Ledger!LedgerNext
<1>17. CASE Work
  <2> PICK e \in Slugs : e = epic
    BY <1>17 DEF Work, Command, Healthy
  <2>1. HomeOf(e) = "active" /\ ContentOf(e) = scope
    BY <1>17 DEF Work, Command, Healthy, HomeOf, ContentOf
  <2>2. HomeOf(e)' = "active" /\ ContentOf(e)' = scope + 1
    BY <1>17 DEF Work, Command, Healthy, HomeOf, ContentOf
  <2>3. Others(e)
    BY <1>17 DEF Work, Command, Healthy, HomeOf, ContentOf
  <2>4. scope < Delivered
    BY <1>17 DEF Work, Command, Healthy
  <2>5. Ledger!Advance(e)
    <3>1. H[e] = HomeOf(e) /\ C[e] = ContentOf(e)
      OBVIOUS
    <3>2. H' = H
      BY <2>1, <2>2, <2>3
    <3>3. C' = [C EXCEPT ![e] = ContentOf(e)']
      BY <2>3
    <3>4. QED
      BY <2>1, <2>2, <2>4, <3>1, <3>2, <3>3 DEF Ledger!Advance, Ledger!Move
  <2>6. QED
    BY <2>5 DEF Ledger!LedgerNext
<1>18. CASE Park
  <2> PICK e \in Slugs : e = epic
    BY <1>18 DEF Park, Command, Healthy
  <2>1. HomeOf(e) = "active" /\ ContentOf(e) = scope
    BY <1>18 DEF Park, Command, Healthy, HomeOf, ContentOf
  <2>2. HomeOf(e)' = "parked" /\ ContentOf(e)' = scope
    BY <1>18 DEF Park, Command, Healthy, HomeOf, ContentOf
  <2>3. Others(e)
    BY <1>18 DEF Park, Command, Healthy, HomeOf, ContentOf
  <2>5. Ledger!Suspend(e)
    <3>1. H[e] = HomeOf(e) /\ C[e] = ContentOf(e)
      OBVIOUS
    <3>2. H' = [H EXCEPT ![e] = HomeOf(e)']
      BY <2>3
    <3>3. C' = C
      BY <2>1, <2>2, <2>3
    <3>4. QED
      BY <2>1, <2>2, <3>1, <3>2, <3>3 DEF Ledger!Suspend, Ledger!Move
  <2>6. QED
    BY <2>5 DEF Ledger!LedgerNext
<1>19. CASE Adopt
  <2> PICK e \in Slugs : e = step.slug
    BY <1>19 DEF Adopt
  <2>1. HomeOf(e) = "new" /\ ContentOf(e) = None
    BY <1>19 DEF Adopt, HomeOf, ContentOf
  <2>2. HomeOf(e)' = "active" /\ ContentOf(e)' = 0
    BY <1>19 DEF Adopt, HomeOf, ContentOf
  <2>3. Others(e)
    BY <1>19 DEF Adopt, HomeOf, ContentOf
  <2>4. \A r \in Slugs : HomeOf(r) # "active"
    BY <1>19 DEF Adopt, HomeOf
  <2>5. Ledger!Open(e)
    <3>1. H[e] = HomeOf(e) /\ C[e] = ContentOf(e)
      OBVIOUS
    <3>2. H' = [H EXCEPT ![e] = HomeOf(e)']
      BY <2>3
    <3>3. C' = [C EXCEPT ![e] = ContentOf(e)']
      BY <2>3
    <3>4. QED
      BY <2>1, <2>2, <2>4, <3>1, <3>2, <3>3 DEF Ledger!Open, Ledger!Move, Ledger!NoneActive
  <2>6. QED
    BY <2>5 DEF Ledger!LedgerNext
<1>20. ASSUME NEW s \in Slugs, Resume(s) PROVE Ledger!LedgerNext
  <2>1. HomeOf(s) = "parked" /\ ContentOf(s) = parked[s]
    BY <1>20 DEF Resume, Command, Healthy, HomeOf, ContentOf
  <2>2. HomeOf(s)' = "active" /\ ContentOf(s)' = parked[s]
    BY <1>20 DEF Resume, Command, Healthy, HomeOf, ContentOf
  <2>3. Others(s)
    BY <1>20 DEF Resume, Command, Healthy, HomeOf, ContentOf
  <2>4. \A r \in Slugs : HomeOf(r) # "active"
    BY <1>20 DEF Resume, Command, Healthy, HomeOf
  <2>5. Ledger!Return(s)
    <3>1. H[s] = HomeOf(s) /\ C[s] = ContentOf(s)
      OBVIOUS
    <3>2. H' = [H EXCEPT ![s] = HomeOf(s)']
      BY <2>3
    <3>3. C' = C
      BY <2>1, <2>2, <2>3
    <3>4. QED
      BY <2>1, <2>2, <2>4, <3>1, <3>2, <3>3 DEF Ledger!Return, Ledger!Move, Ledger!NoneActive
  <2>6. QED
    BY <2>5 DEF Ledger!LedgerNext
<1>21. CASE UNCHANGED vars
  <2>1. Same
    BY <1>21 DEF vars, HomeOf, ContentOf, Same
  <2>2. QED
    BY <2>1, <1>q
<1>22. QED
  BY <1>1, <1>2, <1>3, <1>4, <1>5, <1>6, <1>7, <1>8, <1>9, <1>10, <1>11, <1>12, <1>13, <1>14, <1>15, <1>16, <1>17, <1>18, <1>19, <1>20, <1>21 DEF Next, Heal, Proceed

\* Parked and archived epics are kept as they were, through every crash and
\* recovery: the lifecycle implements the ledger.
THEOREM EpicsImplementLedger == Spec => ImplementsLedger
<1>1. Init => Ledger!LedgerInit
  BY EpicsAssumption DEF Init, NoneYet, Ledger!LedgerInit, HomeOf, ContentOf
<1>2. QED
  BY <1>1, InvariantHolds, LedgerStep, PTL
     DEF Spec, ImplementsLedger, Ledger!LedgerSpec
=============================================================================
