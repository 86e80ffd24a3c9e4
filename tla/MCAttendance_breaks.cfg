SPECIFICATION Spec
CONSTANTS
  alice = alice
  phone = phone
  counter = counter
  screen = screen
  office = office
  manager = manager
  Users = {alice}
  Requests = {phone, counter}
  Screens = {screen}
  Admins = {office}
  GateOn = TRUE
  Idle = {}
  MaxShifts = 1
  MaxBreaks = 2
  MaxCards = 1
  MaxClaims = 1
INVARIANTS
  OneBreak
