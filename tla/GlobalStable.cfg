SPECIFICATION Spec
CONSTANTS
  s1 = s1
  s2 = s2
  u1 = u1
  u2 = u2
  u3 = u3
  Server = {s1, s2}
  NoServer = NoServer
  User = {u1, u2, u3}
  Name = {u1, u2, u3}
  Home <- MCHome
  NameOf <- MCNamesakes
  MaxJoins = 2
  MaxLog = 7
  MaxFaults = 0
  SnapshotThreshold = 9
  ChanCap = 1
  Clustered = FALSE
INVARIANTS
  TypeOK
  JoinsAreConserved
  RoomOfPlayerIsKept
CHECK_DEADLOCK FALSE
