SPECIFICATION FairStartSpec
INVARIANTS
  EstablishedOutlivesRequest
  FailsCleanly
PROPERTIES
  LifecycleReachesProvider
