SPECIFICATION LiveSpec
CONSTANTS
  Modes = {"listen", "dial"}
  Attentive = TRUE
  CellBytes = 1
  ReadMax = 2
  PtyBuf = 2
  MaxPeers = 2
  MaxTyped = 3
  MaxSent = 2
  MaxTraffic = 3
  MaxFaults = 1
INVARIANTS
  TypeOK
  NoHoles
  NoReplay
  PeersInTurn
PROPERTIES
  DroppedPeerNoticed
  WriterNotStuck
  NextPeerServed
CHECK_DEADLOCK FALSE
