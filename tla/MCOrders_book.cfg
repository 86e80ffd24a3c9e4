SPECIFICATION OrdersSpec
CONSTANTS
  alice = alice
  falcon = falcon
  brick = brick
  desk1 = desk1
  desk2 = desk2
  Sessions = {alice}
  Screens = {alice}
  Phones = {}
  Sets = {falcon}
  Parts = {brick}
  Need <- OneBrickSet
  Optional = {}
  Gated = {}
  Assigned <- OneSession
  Faults = FALSE
  PartDB = FALSE
  InitialLoose <- NoBricks
  MaxChecks = 1
  MaxHave = 1
  MaxExtra = 0
  MaxTake = 1
  MaxLoose = 1
  Offices = {desk1}
  NoSet = NoSet
  MaxOrders = 1
  MaxLines = 2
  MaxQty = 2
PROPERTIES
  OrdersKeepTheBook
