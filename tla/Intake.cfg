SPECIFICATION Spec
CONSTANTS
  p1 = p1
  p2 = p2
  Plans = {p1, p2}
  None = None
  Skipped = Skipped
  Versions = {1, 2}
  Pinned = {"apply", "start", "rebind", "merge"}
  MaxVerbs = 2
  MaxSurprises = 2
  Edited = {"config", "overlay", "spec", "research", "brief"}
INVARIANTS OpenGateFollowsLadder AdviceIsAccepted
PROPERTIES MergedAsApproved AdviceLeadsHome
CHECK_DEADLOCK FALSE
