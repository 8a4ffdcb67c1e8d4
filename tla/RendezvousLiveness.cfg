SPECIFICATION HealthSpec
CONSTANTS
  Conn = {c1, c2}
  Name = {n1, n2}
  None = None
PROPERTY ImplementsMatchmaker
PROPERTY HandlerFinishes
PROPERTY EntryLeaves
PROPERTY ProbeAnswered
CHECK_DEADLOCK FALSE
