SPECIFICATION Spec
CONSTANTS
  alice = alice
  phone = phone
  counter = counter
  screen = screen
  office = office
  manager = manager
  Users = {alice}
  Requests = {phone, counter}
  Screens = {screen}
  Admins = {office}
  GateOn = TRUE
  Idle = {}
  MaxShifts = 2
  MaxBreaks = 1
  MaxCards = 2
  MaxClaims = 1
INVARIANTS
  TypeOK
  DoublesTakeTwo
PROPERTIES
  ShiftsBeginAtWork
  BarredGetNoWork
