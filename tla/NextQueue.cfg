SPECIFICATION Spec
CONSTANTS
  t1 = t1
  t2 = t2
  t3 = t3
  auth <- AuthTree
  token <- TokenGlob
  docs <- DocsDirectory
  main = main
  dev = dev
  None = None
  Tasks = {t1, t2, t3}
  Domains <- QueueDomains
  Heads = {h1}
  Bases = {b1}
  Refs = {main, dev}
  MaxNotes = 1
  Overlap <- QueueOverlap
  Plans <- QueuePlans
  Order <- MCOrder
  Globs <- MCGlobs
  Files <- MCFiles
INVARIANTS StartsFitTogether EveryProposalAccepted EmptyQueueIsStuck
INVARIANTS UntruncatedIsComplete OneWriterPerFile DependenciesDone
PROPERTIES MergeNeedsReview ImplementsAdmission
CHECK_DEADLOCK FALSE
