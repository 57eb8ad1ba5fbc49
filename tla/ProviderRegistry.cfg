CONSTANTS
  Invocations = {i1, i2}
  Providers = {p1, p2}
  Configured = {p1}
  None = None
SPECIFICATION FairSpec
INVARIANTS
  SerializedWhileOpen
  OneCloser
  TokenConserved
  OnlyOwnCancellation
PROPERTIES
  ImplementsService
  EveryInvocationReturns
  ShutdownReleasesProviders
