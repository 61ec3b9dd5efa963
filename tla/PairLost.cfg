SPECIFICATION FairSpec
CONSTANTS
  s1 = s1
  s2 = s2
  u1 = u1
  u2 = u2
  u3 = u3
  Server = {s1, s2}
  NoServer = NoServer
  User = {u1, u2}
  Name = {u1, u2}
  Home <- MCHome
  NameOf <- MCNameOf
  MaxJoins = 1
  MaxLog = 4
  MaxFaults = 1
  SnapshotThreshold = 9
  ChanCap = 2
  Clustered = FALSE
PROPERTIES
  QueuedArePaired
CHECK_DEADLOCK FALSE
