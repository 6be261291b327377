SPECIFICATION LiveSpec
CONSTANTS
  Kinds = {"preset"}
  NPorts = 1
  BaudZero = FALSE
  Attentive = FALSE
  PtyBuf = 2
  ReadMax = 2
  MaxReply = 3
  MaxTyped = 3
  MaxSignals = 2
  Statuses = {0}
  Crashed = Crashed
PROPERTIES
  ForgeEnds
CHECK_DEADLOCK FALSE
