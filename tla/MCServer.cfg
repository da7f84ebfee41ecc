SPECIFICATION FairSpec
CONSTANTS
  c1 = c1
  None = None
  Client = {c1}
  Request <- Requests
  GoodEnv <- GoodEnvs
  BadEnv <- BadEnvs
  MaxMishaps = 2
INVARIANTS
  TypeOK
  AcceptedConfigServes
  WebhooksNeedStore
  ResultIsTrue
  ResourcesOutliveUse
PROPERTIES
  EventsLeave
  Stops
CHECK_DEADLOCK FALSE
