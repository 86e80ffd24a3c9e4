SPECIFICATION Spec
CONSTANTS
  alice = alice
  bob = bob
  falcon = falcon
  tower = tower
  brick = brick
  sticker = sticker
  Sessions = {alice}
  Screens = {alice}
  Phones = {}
  Sets = {falcon}
  Parts = {brick, sticker}
  Need <- StickerSet
  Optional = {sticker}
  Gated = {falcon}
  Assigned <- OneSession
  Faults = FALSE
  PartDB = FALSE
  InitialLoose <- OneSticker
  MaxChecks = 1
  MaxHave = 2
  MaxExtra = 1
  MaxTake = 2
  MaxLoose = 2
INVARIANTS
  OptionalNeverMissing
