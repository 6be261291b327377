SPECIFICATION LiveSpec
CONSTANTS
  Scripts <- Programs
  Attentive = TRUE
  MaxWritten = 3
  CellBytes = 2
  ReadMax = 3
  PtyBuf = 3
PROPERTY
  StdoutIsSent
CHECK_DEADLOCK FALSE
