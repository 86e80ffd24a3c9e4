SPECIFICATION Spec
CONSTANTS
  alice = alice
  bob = bob
  aliceScreen = aliceScreen
  alicePhone = alicePhone
  bobScreen = bobScreen
  falcon = falcon
  tower = tower
  Users = {alice, bob}
  Screens = {aliceScreen, bobScreen}
  Phones = {alicePhone}
  UserOf <- SignedIn
  Targets = {falcon, tower}
  Nobody = Nobody
  NoTarget = NoTarget
  MaxTickets = 2
SYMMETRY AlikeTargets
INVARIANTS
  TypeOK
  DoneTicketsWereWorked
PROPERTIES
  ImplementsJobs
