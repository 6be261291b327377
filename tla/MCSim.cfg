SPECIFICATION LiveSpec
CONSTANTS
  Scripts <- Played
  Attentive = TRUE
  MaxWritten = 3
  CellBytes = 2
  ReadMax = 3
  PtyBuf = 3
INVARIANTS
  TypeOK
  PortStreams
  ScreenShowsLine
  MarkerTellsStatus
PROPERTIES
  ChildHeard
CHECK_DEADLOCK FALSE
