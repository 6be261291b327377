SPECIFICATION LiveSpec
CONSTANTS
  ByteTime = 2
  Latency = 1
  Jitters = {0, 1}
  Noisy = TRUE
  Attentive = {"a"}
  Horizon = 7
  MaxTyped = 3
  MaxTraffic = 4
  CellBytes = 1
  ReadMax = 2
  PtyBuf = 2
INVARIANTS
  NothingOvertakes
PROPERTIES
  LineRate
  TypedArrives
CHECK_DEADLOCK FALSE
