SPECIFICATION Spec
CONSTANTS
  c1 = c1
  c2 = c2
  Consumers = {c1, c2}
  Attentive = {c1}
  Backlog = 2
  TxQueue = 1
  CellBytes = 1
  ReadMax = 2
  PtyBuf = 2
  WriteLen = 2
  MaxRx = 4
  MaxTraffic = 9
  MaxWrites = 2
  MaxFaults = 0
INVARIANTS
  WritesArriveWhole
CHECK_DEADLOCK FALSE
