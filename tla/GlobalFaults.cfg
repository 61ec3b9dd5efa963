SPECIFICATION Spec
CONSTANTS
  s1 = s1
  s2 = s2
  u1 = u1
  u2 = u2
  u3 = u3
  Server = {s1, s2}
  NoServer = NoServer
  User = {u1, u2}
  Name = {u1, u2}
  Home <- MCHome
  NameOf <- MCNameOf
  MaxJoins = 2
  MaxLog = 3
  MaxFaults = 2
  SnapshotThreshold = 2
  ChanCap = 1
  Clustered = FALSE
INVARIANTS
  NoSelfMatch
  RoomFromJoins
  PlaysCommitted
  WedgeNeedsRejoin
  RoomsAreLatest
  AwaitedJoinIsLogged
CHECK_DEADLOCK FALSE
