SPECIFICATION FairSpec
CONSTANTS
  Process = {a, b}
  MaxCalls = 2
  Stranger = {}
  Backlog = 2
  None = None
INVARIANT SocketIsPeers

CHECK_DEADLOCK FALSE
