SPECIFICATION Spec
CONSTANTS
  Kinds = {"exec"}
  NPorts = 1
  BaudZero = FALSE
  Attentive = TRUE
  PtyBuf = 2
  ReadMax = 2
  MaxReply = 3
  MaxTyped = 3
  MaxSignals = 2
  Statuses = {0}
  Crashed = Crashed
INVARIANTS
  ExitCodesAsListed
CHECK_DEADLOCK FALSE
