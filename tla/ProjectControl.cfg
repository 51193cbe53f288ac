SPECIFICATION FairSpec
CONSTANTS
  Project = {p1}
  Client = {c1, c2}
  MaxRuns = 2
  MaxChans = 1
  Cap = 1
  Overlap = TRUE
  Crashes = TRUE
INVARIANTS TypeOK OneEngine IdlePhase PanicNeedsOverlap
PROPERTY StreamEnds
CHECK_DEADLOCK FALSE
