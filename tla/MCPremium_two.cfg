\* The end of one of two subscriptions.
CONSTANTS
  Token = {t1, t2}
  MaxTime = 2
  MaxEvents = 3
SPECIFICATION Spec
PROPERTIES
  EndingEndsPremium
CHECK_DEADLOCK FALSE
