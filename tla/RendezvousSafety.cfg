SPECIFICATION Spec
CONSTANTS
  Conn = {c1, c2, c3}
  Name = {n1, n2}
  None = None
SYMMETRY Symmetry
INVARIANTS
  TypeOK
  NotifiedIsMutual
  MatchedOnce
  TokenKnown
  NoSelfPairing
  ClaimedWaiterHears
  ActiveCountsRunning
  IInv
CHECK_DEADLOCK FALSE
