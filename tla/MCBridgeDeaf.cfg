SPECIFICATION LiveSpec
CONSTANTS
  Modes = {"listen"}
  Attentive = FALSE
  CellBytes = 1
  ReadMax = 2
  PtyBuf = 2
  MaxPeers = 2
  MaxTyped = 3
  MaxSent = 4
  MaxTraffic = 4
  MaxFaults = 0
PROPERTIES
  DroppedPeerNoticed
CHECK_DEADLOCK FALSE
