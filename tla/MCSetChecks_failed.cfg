SPECIFICATION Spec
CONSTANTS
  alice = alice
  bob = bob
  falcon = falcon
  tower = tower
  brick = brick
  sticker = sticker
  Sessions = {alice}
  Screens = {alice}
  Phones = {}
  Sets = {falcon}
  Parts = {brick}
  Need <- OneSet
  Optional = {}
  Gated = {falcon}
  Assigned <- OneSession
  Faults = TRUE
  PartDB = FALSE
  InitialLoose <- OneBrick
  MaxChecks = 2
  MaxHave = 2
  MaxExtra = 1
  MaxTake = 2
  MaxLoose = 2
INVARIANTS
  DoneChecksWereBanked
