SPECIFICATION LiveSpec
CONSTANTS
  c1 = c1
  c2 = c2
  Consumers = {c1, c2}
  Attentive = {c1}
  Backlog = 2
  TxQueue = 1
  CellBytes = 2
  ReadMax = 2
  PtyBuf = 2
  WriteLen = 2
  MaxRx = 4
  MaxTraffic = 9
  MaxWrites = 2
  MaxFaults = 1
INVARIANTS
  TypeOK
  DeviceStreamIntact
  CopyInOrder
  TypedInOrder
  WritesArriveWhole
PROPERTIES
  PromisedFanOut
  AttentiveServed
  TypedArrives
CHECK_DEADLOCK FALSE
