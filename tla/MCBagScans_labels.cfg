SPECIFICATION Spec
CONSTANTS
  screen = screen
  phone = phone
  admin = admin
  falcon = falcon
  tower = tower
  bin = bin
  Screens = {screen}
  Phones = {phone}
  Admins = {admin}
  Sets = {falcon}
  BagKinds = {"main", "extra"}
  PlacedIn <- MainOnly
  MaxBags = 2
  Pool = {}
  PoolKind <- NoBin
  MaxChecks = 2
  MaxRows = 2
  Labels <- AllLabels
INVARIANTS
  TypeOK
  GatedChecksHadTheirBags
  BagsAreDistinct
CHECK_DEADLOCK FALSE
