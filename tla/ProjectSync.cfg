SPECIFICATION Spec
CONSTANTS
  t1 = t1
  t2 = t2
  None = None
  Tasks = {t1, t2}
  MaxIssues = 2
  MaxEdits = 2
  MaxKills = 1
  MaxMoved = 1
SYMMETRY Symmetry
INVARIANT OneIssuePerTask
PROPERTIES NoInventedStatus EditsSurvive PullConverges
\* People may have nothing left to do, and the adapter may refuse everything.
CHECK_DEADLOCK FALSE
