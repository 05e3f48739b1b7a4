SPECIFICATION Spec
CONSTANTS
  p1 = p1
  p2 = p2
  c1 = c1
  c2 = c2
  b1 = b1
  b2 = b2
  None = None
  Token = Token
  Malformed = Malformed
  Procs = {p1, p2}
  Commands = {c1, c2}
  Briefs = {b1, b2}
  MaxHead = 1
  MaxNumber = 2
PROPERTY NeverOverwritten
CHECK_DEADLOCK FALSE
