SPECIFICATION Spec
CONSTANTS
  c1 = c1
  c2 = c2
  Client = {c1, c2}
  NoID = NoID
  Name = {n1}
  NoName = NoName
  Absent = Absent
  Card = {basic, rare}
  basic = basic
  rare = rare
  Basic = basic
  MaxRequests <- MCMaxRequests
  Signalled = {c1}
  MaxPending = 2
  MaxRestarts = 1
INVARIANTS
  TypeOK
  
  InGameIsLoggedIn
  DeckIsOwned
  DecksAgree
  CallbackCanGoOn
CHECK_DEADLOCK FALSE
