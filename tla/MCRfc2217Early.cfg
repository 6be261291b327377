SPECIFICATION LiveSpec
CONSTANTS
  Nothing = Nothing
  Factory <- Forged
  Termioses <- Chosen
  KeyBytes = {255}
  Sayings <- Said
  Acknowledged = {0, 44}
  CellBytes = 1
  ReadMax = 2
  PtyBuf = 2
  MaxPeers = 1
  MaxChosen = 1
  MaxTyped = 0
  MaxSaid = 0
  MaxTraffic = 1
PROPERTIES
  EverythingTold
CHECK_DEADLOCK FALSE
