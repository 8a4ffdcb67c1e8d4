SPECIFICATION FairCleanSpec
CONSTANTS
  Process = {a, b}
  MaxCalls = 2
  Stranger = {s}
  Backlog = 2
  None = None
INVARIANT PunchInv
INVARIANT SocketIsPeers
PROPERTY PairReturns
CHECK_DEADLOCK FALSE
