SPECIFICATION Spec
CONSTANTS
  Kinds = {"preset"}
  NPorts = 1
  BaudZero = TRUE
  Attentive = TRUE
  PtyBuf = 2
  ReadMax = 2
  MaxReply = 3
  MaxTyped = 3
  MaxSignals = 2
  Statuses = {0}
  Crashed = Crashed
INVARIANTS
  OnlyListedCodes
CHECK_DEADLOCK FALSE
