SPECIFICATION Spec
CONSTANTS
  Project = {p1, p2}
  Client = {c1}
  MaxRuns = 2
  MaxChans = 0
  Cap = 1
  Overlap = FALSE
  Crashes = FALSE
PROPERTY ResetKeepsOthers
CHECK_DEADLOCK FALSE
