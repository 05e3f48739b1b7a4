------------------------------ MODULE EpicLedger ------------------------------
(***************************************************************************)
(* What the epic lifecycle promises, without files, crashes or journals:   *)
(* every slug is new, active, parked or archived; at most one is active;   *)
(* parking and resuming keep an epic's sections; archiving takes only a    *)
(* delivered scope, happens at once, and is final.                         *)
(* Epics implements it.                                                    *)
(***************************************************************************)
EXTENDS Naturals

CONSTANTS Names, Nothing, Finished

VARIABLES home, content

ledgerVars == <<home, content>>

LedgerInit ==
  /\ home = [n \in Names |-> "new"]
  /\ content = [n \in Names |-> Nothing]

NoneActive == \A n \in Names : home[n] # "active"

Move(n, from, to) == home[n] = from /\ home' = [home EXCEPT ![n] = to]

Open(n) ==
  /\ NoneActive /\ Move(n, "new", "active")
  /\ content' = [content EXCEPT ![n] = 0]
Advance(n) ==
  /\ home[n] = "active" /\ content[n] < Finished
  /\ content' = [content EXCEPT ![n] = @ + 1] /\ UNCHANGED home
Suspend(n) == Move(n, "active", "parked") /\ UNCHANGED content
Return(n) == NoneActive /\ Move(n, "parked", "active") /\ UNCHANGED content
Retire(n) ==
  /\ content[n] = Finished
  /\ Move(n, "active", "archived") /\ UNCHANGED content

LedgerNext ==
  \E n \in Names : Open(n) \/ Advance(n) \/ Suspend(n) \/ Return(n) \/ Retire(n)

LedgerSpec == LedgerInit /\ [][LedgerNext]_ledgerVars
=============================================================================
