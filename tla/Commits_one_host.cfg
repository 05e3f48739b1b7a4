SPECIFICATION Spec
CONSTANTS
  p1 = p1
  p2 = p2
  p3 = p3
  retried = retried
  here = here
  there = there
  None = None
  Procs = {p1, p2, p3}
  Host <- OneHost
  MaxCrashes = 1
  Commands <- MCCommands
  MaxEvents = 2
INVARIANT NeverStolenFrom
CHECK_DEADLOCK FALSE
