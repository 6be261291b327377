SPECIFICATION LiveSpec
CONSTANTS
  p1 = p1
  p2 = p2
  p3 = p3
  Procs = {p1, p2, p3}
  Nobody = Nobody
  Others = {}
  NPaths = 2
  Overlap = FALSE
  MaxCrashes = 2
INVARIANTS
  TypeOK
  LiveLinkKept
  NothingLeftBehind
PROPERTIES
  ClaimEnds
  DeadHoldersPathReclaimed
CHECK_DEADLOCK FALSE
