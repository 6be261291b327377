SPECIFICATION Spec
CONSTANTS
  p1 = p1
  p2 = p2
  p3 = p3
  Procs = {p1, p2, p3}
  Nobody = Nobody
  Others = {}
  NPaths = 1
  Overlap = TRUE
  MaxCrashes = 0
INVARIANTS
  LiveLinkKept
CHECK_DEADLOCK FALSE
