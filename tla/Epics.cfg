SPECIFICATION Spec
CONSTANTS
  s1 = s1
  s2 = s2
  k1 = k1
  k2 = k2
  None = None
  Damaged = Damaged
  Foreign = Foreign
  Slugs = {s1, s2}
  Keys = {k1, k2}
  Delivered = 2
  MaxRevision = 12
  MaxAccidents = 2
INVARIANTS RecoveryNeverRefuses SlugsAreUnique
PROPERTIES ImplementsLedger PendingResolves
CHECK_DEADLOCK FALSE
