SPECIFICATION FairSpec
CONSTANTS
  c1 = c1
  c2 = c2
  Client = {c1}
  NoID = NoID
  Name = {n1}
  NoName = NoName
  Absent = Absent
  Card = {basic, rare}
  basic = basic
  rare = rare
  Basic = basic
  MaxRequests <- MCMaxRequests
  Signalled = {c1}
  MaxPending = 3
  MaxRestarts = 0
PROPERTIES
  InactiveIsRemoved
CHECK_DEADLOCK FALSE
