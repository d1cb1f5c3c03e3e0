SPECIFICATION MCSpec
CONSTANTS
  h1 = h1
  h2 = h2
  None = None
  b = b
  r = r
  c = c
  Build = b
  Runs = {r}
  Checks = {c}
  Scenarios <- AllScenarios
  Versions <- MCVersions
  MaxLines = 6
  Expands <- MCExpands
  Policies <- MCPolicies
  Hosts = {h1, h2}
  MaxBinary = 4
  UploadChunk = 1
  ExportChunk = 2
  MaxArtifact = 3
  MaxTimeout = 3
  ClientTimeout = 3
  MaxSpan = 4
  MaxLag = 1
INVARIANTS
  TypeOK
  PolicyHolds
  FilesArriveExact
  GoModIsCanonical
  LeaksAreExplained
  OutcomeIsHonest
PROPERTIES
  KeepsContract
  CallersEnd
CHECK_DEADLOCK FALSE
