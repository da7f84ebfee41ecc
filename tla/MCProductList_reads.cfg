\* One list call against everything that writes what it reads.
CONSTANTS
  Call = {c1}
  Yaml <- Versions
  ByHand <- Items
  MaxTime = 2
  MaxSeeds = 2
  None = None
SPECIFICATION Spec
INVARIANTS
  TypeOK
  ShownWasTrue
  SubscriptionIsShown
  CatalogueIsWhole
CHECK_DEADLOCK FALSE
