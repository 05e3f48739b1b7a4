SPECIFICATION Spec
CONSTANTS
  p1 = p1
  p2 = p2
  p3 = p3
  retried = retried
  here = here
  there = there
  None = None
  Procs = {p1, p2, p3}
  Host <- TwoHosts
  MaxCrashes = 2
  Commands <- MCCommands
  MaxEvents = 2
INVARIANTS NeverStolenFrom ReportedIsStored OncePerKey
PROPERTIES LogGrows StaleIsReclaimed CommandsEnd
CHECK_DEADLOCK FALSE
