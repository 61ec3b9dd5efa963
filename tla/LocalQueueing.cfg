SPECIFICATION Spec
CONSTANTS
  u1 = u1
  u2 = u2
  User = {u1, u2}
  MaxRequests <- MCMaxRequests
INVARIANTS
  TypeOK
  FirstComeFirstServed
  SelfMatchNeedsMishap
  NothingIsLeftBehind
  HandlerCanGoOn
PROPERTIES
  IsPairing
  MatchIsHeard
CHECK_DEADLOCK FALSE
