SPECIFICATION LiveSpec
CONSTANTS
  p1 = p1
  p2 = p2
  p3 = p3
  Procs = {p1, p2, p3}
  Nobody = Nobody
  Others = {p3}
  NPaths = 1
  Overlap = FALSE
  MaxCrashes = 1
PROPERTIES
  ClaimEnds
CHECK_DEADLOCK FALSE
