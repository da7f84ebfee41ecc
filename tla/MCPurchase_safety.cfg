\* Three calls that get in each other's way, one fault.
CONSTANTS
  Call = {c1, c2, c3}
  c1 = c1
  c2 = c2
  c3 = c3
  ann = ann
  bob = bob
  t1 = t1
  t2 = t2
  t3 = t3
  she = she
  pack1 = pack1
  pack2 = pack2
  playmat = playmat
  Player = {ann, bob}
  Token = {t1, t2, t3}
  Asset = {she, pack1, pack2, playmat}
  Product <- Products
  KindOf <- MCKindOf
  Inactive = {"old"}
  MainAsset <- MCMainAsset
  FactionOf <- MCFactionOf
  Valid <- MCValid
  None = None
  Request <- Requests
  MaxFaults = 1
SPECIFICATION FairSpec
INVARIANTS
  TypeOK
  AllOrNothing
  AnswersAreTrue
  NoCircularWait
PROPERTIES
  KeepsLedger
  EveryCallAnswered
CHECK_DEADLOCK FALSE
