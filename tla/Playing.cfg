SPECIFICATION Spec
CONSTANTS
  s1 = s1
  s2 = s2
  Player1 = Player1
  Player2 = Player2
  Server = {s1, s2}
  Homes <- MCHomes
  Openings <- MCOpenings
  Deck <- MCDeck
  MaxGames = 2
  MaxFaults = 2
INVARIANTS
  TypeOK
  WrongResultNeedsLeftovers
  OutOfTurnNeedsLeftovers
  UndecidedNeedsMishap
  DecidedOnce
PROPERTY
  FirstGameIsRound
CHECK_DEADLOCK FALSE
