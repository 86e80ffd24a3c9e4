SPECIFICATION Spec
CONSTANTS
  alice = alice
  bob = bob
  falcon = falcon
  tower = tower
  brick = brick
  sticker = sticker
  Sessions = {alice}
  Screens = {alice}
  Phones = {}
  Sets = {falcon}
  Parts = {brick}
  Need <- OneSmallSet
  Optional = {}
  Gated = {falcon}
  Assigned <- OneSession
  Faults = FALSE
  PartDB = FALSE
  InitialLoose <- OneBrick
  MaxChecks = 2
  MaxHave = 1
  MaxExtra = 1
  MaxTake = 1
  MaxLoose = 1
INVARIANTS
  LastCheckIsMostRecent
