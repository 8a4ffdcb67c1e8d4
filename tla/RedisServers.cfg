SPECIFICATION Spec
CONSTANTS
  Conn = {c1, c2, c3}
  Name = {n1}
  Server = {s1, s2}
  None = None
  Faults = FALSE
  Crashing = {}
SYMMETRY Symmetry
INVARIANTS
  TypeOK
  MatchedOnce
  RedisMatchInv
  RedisTokenInv
CHECK_DEADLOCK FALSE
