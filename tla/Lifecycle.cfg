SPECIFICATION FairSpec
CONSTANTS
  Conn = {c1, c2, c3}
  MaxConnections = 1
  MaxFiles = 2
  Workers = 3
  None = None
INVARIANT TypeOK
INVARIANT CounterInv
PROPERTY DrainSeesEveryHandler
PROPERTY OvershootIsUnstarted
PROPERTY NobodyIsLeftHanging
PROPERTY ShutdownCompletes
CHECK_DEADLOCK FALSE
