SPECIFICATION Spec
CONSTANTS
  s1 = s1
  s2 = s2
  Server = {s1, s2}
  NoServer = NoServer
  User = {s1, s2}
  Home <- MCHome
  MaxLog = 5
  MaxFaults = 1
  SnapshotThreshold = 2
  StockSize = 2
  MaxDraws = 3
SYMMETRY Symmetry
INVARIANTS
  TypeOK
  PendingIsUnclaimed
  StocksAreAligned
  PendingWillBeClaimed
PROPERTIES
  IsDealing
CHECK_DEADLOCK FALSE
