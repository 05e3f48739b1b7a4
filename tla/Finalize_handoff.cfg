SPECIFICATION Spec
CONSTANTS
  p1 = p1
  p2 = p2
  c1 = c1
  c2 = c2
  None = None
  Procs = {p1, p2}
  Configs = {c1, c2}
  MaxTasks = 2
  MaxSetbacks = 2
INVARIANT HandoffPrecedesMerge
CHECK_DEADLOCK FALSE
