\* A player with two purchase tokens.
CONSTANTS
  Token = {t1, t2}
  MaxTime = 2
  MaxEvents = 3
SPECIFICATION Spec
SYMMETRY Symmetry
INVARIANTS
  TypeOK
  PremiumIsPaid
  ViewsAgree
CHECK_DEADLOCK FALSE
