SPECIFICATION FairSpec
CONSTANTS
  Requests = {r1}
  Workers = {w1}
  Sizes = {1, 2}
  MaxEvents = 1
  MaxBytes = 2
  MaxFrames = 2
INVARIANTS
  QueueAccounting
  FailureIsClassified
  CloseFailedReaps
PROPERTIES
  FailureReaches
  OwnerReturns
