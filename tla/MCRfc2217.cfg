SPECIFICATION LiveSpec
CONSTANTS
  Nothing = Nothing
  Factory <- Forged
  Termioses <- Chosen
  KeyBytes = {255}
  Sayings <- Said
  Acknowledged = {0, 44}
  CellBytes = 1
  ReadMax = 2
  PtyBuf = 2
  MaxPeers = 2
  MaxChosen = 2
  MaxTyped = 2
  MaxSaid = 2
  MaxTraffic = 3
INVARIANTS
  TypeOK
  MessagesWhole
  PortGetsData
  TypedAfterSettings
PROPERTIES
  ChangesArrive
  NegotiationEnds
CHECK_DEADLOCK FALSE
