SPECIFICATION Spec
CONSTANTS
  Conns = {c1, c2}
  Hosts = {"scanner"}
  Host <- Scanner
  Loopback = {}
  MaxSessions = 2
  Strikes = 2
  None = none
PROPERTIES GraceIsKept
CHECK_DEADLOCK FALSE
