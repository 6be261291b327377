SPECIFICATION Spec
CONSTANTS
  Modes = {"listen"}
  Attentive = TRUE
  CellBytes = 1
  ReadMax = 2
  PtyBuf = 2
  MaxPeers = 2
  MaxTyped = 3
  MaxSent = 2
  MaxTraffic = 3
  MaxFaults = 0
INVARIANTS
  NoStaleKeys
CHECK_DEADLOCK FALSE
