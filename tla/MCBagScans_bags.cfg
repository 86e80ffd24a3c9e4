SPECIFICATION Spec
CONSTANTS
  screen = screen
  phone = phone
  admin = admin
  falcon = falcon
  tower = tower
  bin = bin
  Screens = {screen}
  Phones = {phone}
  Admins = {admin}
  Sets = {falcon}
  BagKinds = {"main", "extra"}
  PlacedIn <- MainOnly
  MaxBags = 1
  Pool = {bin}
  PoolKind <- BinKind
  MaxChecks = 2
  MaxRows = 2
  Labels <- ExtraLabels
INVARIANTS
  TypeOK
  GatedChecksHadTheirBags
  BagsAreDistinct
  PoolBagsScanWhereTheyAre
PROPERTIES
  ScansConfirmOwnBags
CHECK_DEADLOCK FALSE
