SPECIFICATION Spec
CONSTANTS
  alice = alice
  bob = bob
  falcon = falcon
  tower = tower
  brick = brick
  sticker = sticker
  Sessions = {alice, bob}
  Screens = {alice, bob}
  Phones = {}
  Sets = {falcon}
  Parts = {brick}
  Need <- OneSet
  Optional = {}
  Gated = {falcon}
  Assigned <- SharedSet
  Faults = FALSE
  PartDB = FALSE
  InitialLoose <- OneBrick
  MaxChecks = 2
  MaxHave = 2
  MaxExtra = 1
  MaxTake = 2
  MaxLoose = 2
PROPERTIES
  FinishedResultKept
