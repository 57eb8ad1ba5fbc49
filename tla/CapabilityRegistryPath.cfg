CONSTANTS
  r1 = r1
  r2 = r2
  r3 = r3
  Capabilities <- MCCapabilities
  Records <- MCRecords
  IdOf <- MCIdOf
  Operations <- MCOperations
  LegacyPaths <- MCLegacyPaths
  Paths <- MCPaths
  PathCapability <- MCPathCapability
  PathOperation <- MCPathOperation
  Root = ""
  Parent <- MCParent
  Places <- MCPlaces
  Callers = {k1}
  None = None
SPECIFICATION Spec
CHECK_DEADLOCK FALSE
INVARIANT PathLeaseExact
