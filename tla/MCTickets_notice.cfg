SPECIFICATION FairSpec
CONSTANTS
  alice = alice
  bob = bob
  aliceScreen = aliceScreen
  alicePhone = alicePhone
  bobScreen = bobScreen
  falcon = falcon
  tower = tower
  Users = {alice, bob}
  Screens = {aliceScreen, bobScreen}
  Phones = {alicePhone}
  UserOf <- SignedIn
  Targets = {falcon}
  Nobody = Nobody
  NoTarget = NoTarget
  MaxTickets = 2
PROPERTIES
  ForcedOffSessionsNotice
