SPECIFICATION Spec
CONSTANTS
  alice = alice
  phone = phone
  counter = counter
  screen = screen
  office = office
  manager = manager
  Users = {alice}
  Requests = {phone}
  Screens = {screen}
  Admins = {office, manager}
  GateOn = TRUE
  Idle = {}
  MaxShifts = 1
  MaxBreaks = 1
  MaxCards = 2
  MaxClaims = 1
INVARIANTS
  OneCard
