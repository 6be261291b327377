SPECIFICATION LiveSpec
CONSTANTS
  Kinds = {"pair", "preset", "exec", "bridge", "mux"}
  NPorts = 3
  BaudZero = TRUE
  Attentive = TRUE
  PtyBuf = 2
  ReadMax = 1
  MaxReply = 3
  MaxTyped = 3
  MaxSignals = 2
  Statuses = {0, 3, 7}
  Crashed = Crashed
INVARIANTS
  TypeOK
  ReadyMeansOwned
  CleanExit
  ExitStatusTells
PROPERTIES
  ForgeEnds
  PresetListens
CHECK_DEADLOCK FALSE
