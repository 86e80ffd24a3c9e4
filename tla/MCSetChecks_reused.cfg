SPECIFICATION Spec
CONSTANTS
  alice = alice
  bob = bob
  falcon = falcon
  tower = tower
  brick = brick
  sticker = sticker
  Sessions = {alice, bob}
  Screens = {alice}
  Phones = {bob}
  Sets = {falcon, tower}
  Parts = {brick}
  Need <- TwoSets
  Optional = {}
  Gated = {falcon, tower}
  Assigned <- OwnSets
  Faults = TRUE
  PartDB = FALSE
  InitialLoose <- OneBrick
  MaxChecks = 2
  MaxHave = 2
  MaxExtra = 1
  MaxTake = 2
  MaxLoose = 2
PROPERTIES
  FinishedStaysFinished
