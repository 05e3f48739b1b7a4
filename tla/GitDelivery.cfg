SPECIFICATION GitLiveSpec
CONSTANTS
  t1 = t1
  t2 = t2
  t3 = t3
  auth = auth
  token = token
  docs = docs
  main = main
  dev = dev
  inside = inside
  outside = outside
  None = None
  Tasks = {t1}
  Domains = {auth}
  Refs = {main}
  MaxNotes = 0
  Overlap <- SelfOverlap
  Plans <- GitPlans
  Heads <- MCCommits
  Bases <- MCCommits
  Paths = {inside, outside}
  Matches <- MCMatches
  MaxWork = 2
  MaxHands = 1
  MaxKills = 1
  MaxEvents = 2
  MaxCommits = 9
INVARIANTS DoneIsLanded EvidenceDescribesWork EvidenceIsCurrent MergedHeadWasChecked
PROPERTIES LandsAsChecked HeadsAdvance WorkIsKept HeadsCatchUp ReleaseConverges
