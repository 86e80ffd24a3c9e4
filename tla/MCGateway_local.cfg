SPECIFICATION Spec
CONSTANTS
  Conns = {c1, c2, c3}
  Hosts = {"localhost"}
  Host <- Localhost
  Loopback = {"localhost"}
  MaxSessions = 1
  Strikes = 2
  None = none
SYMMETRY Alike
INVARIANTS EveryChildHasOneHolder
CHECK_DEADLOCK FALSE
