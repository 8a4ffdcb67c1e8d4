SPECIFICATION FairSpec
CONSTANTS
  Conn = {c1, c2}
  Name = {n1}
  None = None
PROPERTY RegistrationKept
CHECK_DEADLOCK FALSE
