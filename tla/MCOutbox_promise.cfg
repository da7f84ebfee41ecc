\* Two events competing for batches of one row: the refinement with liveness.
CONSTANTS
  Event = {e1, e2}
  Worker = {w1}
  BatchSize = 1
  FailureThreshold = 2
  VisibilityTimeout = 1
  MaxFaults = 2
  None = None
SPECIFICATION FairSpec
PROPERTIES
  KeepsPromise
