SPECIFICATION Spec
CONSTANTS
  Conns = {c1, c2, c3}
  Hosts = {"scanner"}
  Host <- Scanner
  Loopback = {}
  MaxSessions = 2
  Strikes = 2
  None = none
INVARIANTS TheAttachedAreTold
CHECK_DEADLOCK FALSE
