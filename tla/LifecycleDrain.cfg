SPECIFICATION Spec
CONSTANTS
  Conn = {c1, c2, c3}
  MaxConnections = 1
  MaxFiles = 2
  Workers = 3
  None = None
INVARIANT DrainedCutsNobodyOff
CHECK_DEADLOCK FALSE
