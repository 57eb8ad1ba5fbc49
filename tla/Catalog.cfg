CONSTANTS
  r1 = r1
  r2 = r2
  r3 = r3
  Capabilities <- MCCapabilities
  Records <- MCRecords
  IdOf <- MCIdOf
  Operations <- MCOperations
  LegacyPaths <- MCLegacyPaths
  Paths <- MCPaths
  PathCapability <- MCListedPathCapability
  PathOperation <- MCListedPathOperation
  Root = ""
  Parent <- MCParent
  Places <- MCPlaces
  Callers = {k1, l1, l2}
  None = None
  Exact <- MCFold
  Tokens <- MCTokens
  TokenBytes <- MCTokenBytes
  Name <- MCName
  Description <- MCDescription
  Tags <- MCTags
  OperationList <- MCOperationList
  SkillList <- MCSkillList
  PathOrder <- MCPathOrder
  Queries <- MCQueries
  Requests <- MCRequests
  AskedPaths <- MCAskedPaths
  ResponseMax = 3
  Readers = {b1}
  l1 = l1
  l2 = l2
  b1 = b1
  Lookups <- MCLookups
  Segment <- MCSegment
  Target <- MCTarget
  ToolPath <- MCToolPath
SPECIFICATION CatalogSpec
CHECK_DEADLOCK FALSE
INVARIANTS
  ReclaimedExactlyWhenUnused
  PathLeaseExactOrNewer
  PagesOfOneRevision
  BrowseAnswerTrue
  ListedPathsResolve
PROPERTIES
  SearchHonoursContract
