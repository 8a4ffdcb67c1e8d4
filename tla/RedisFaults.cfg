SPECIFICATION FairSpec
CONSTANTS
  Conn = {c1, c2}
  Name = {n1}
  Server = {s1, s2}
  None = None
  Faults = TRUE
  Crashing = {s1}
INVARIANT TokenKnown
PROPERTIES HandlerFinishes LocalWaiterLeaves OrphanLeaves
CONSTRAINT ChosenFirst
CHECK_DEADLOCK FALSE
