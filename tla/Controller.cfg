SPECIFICATION LoopSpec
CONSTANTS
  t1 = t1
  t2 = t2
  t3 = t3
  auth = auth
  token = token
  docs = docs
  main = main
  dev = dev
  None = None
  Tasks = {t1, t2, t3}
  Domains = {auth, token, docs}
  Heads = {h1}
  Bases = {b1}
  Refs = {main, dev}
  MaxNotes = 1
  Overlap <- MCOverlap
  Plans <- LoopPlans
  Order <- MCOrder
  Shown = 1
  MaxSetbacks = 2
PROPERTIES ScopeDelivered ReconcileHappens
CHECK_DEADLOCK FALSE
