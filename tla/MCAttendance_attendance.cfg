SPECIFICATION FairSpec
CONSTANTS
  alice = alice
  phone = phone
  counter = counter
  screen = screen
  office = office
  manager = manager
  Users = {alice}
  Requests = {phone}
  Screens = {screen}
  Admins = {office, manager}
  GateOn = TRUE
  Idle = {1}
  MaxShifts = 2
  MaxBreaks = 2
  MaxCards = 2
  MaxClaims = 1
INVARIANTS
  TypeOK
  DoublesTakeTwo
PROPERTIES
  ShiftsBeginAtWork
  BarredGetNoWork
  IdleIsNoticed
