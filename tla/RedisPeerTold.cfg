SPECIFICATION Spec
CONSTANTS
  Conn = {c1, c2}
  Name = {n1}
  Server = {s1, s2}
  None = None
  Faults = FALSE
  Crashing = {}
INVARIANT PeerIsTold
CHECK_DEADLOCK FALSE
