\* Two workers, two events, one crash or failed statement.
CONSTANTS
  Event = {e1, e2}
  Worker = {w1, w2}
  BatchSize = 2
  FailureThreshold = 2
  VisibilityTimeout = 1
  MaxFaults = 1
  None = None
SPECIFICATION Spec
SYMMETRY Symmetry
INVARIANTS
  TypeOK
  LeaseExclusive
  DuplicatesAreExplained
  FailureBound
  DeadIsReported
  PublishedRowIsClean
PROPERTIES
  KeepsPromiseSafely
