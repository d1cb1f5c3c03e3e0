SPECIFICATION SessionsOnly
CONSTANTS
  h1 = h1
  h2 = h2
  None = None
  b = b
  r = r
  c = c
  Build = b
  Runs = {r}
  Checks = {c}
  Scenarios <- MCScenarios
  Versions <- MCVersions
  MaxLines = 0
  Expands <- MCExpands
  Policies <- MCPolicies
  Hosts = {h1, h2}
  MaxBinary = 4
  UploadChunk = 1
  ExportChunk = 2
  MaxArtifact = 3
  MaxTimeout = 3
  ClientTimeout = 3
  MaxSpan = 4
  MaxLag = 1
INVARIANTS
  OverrunIsTimedOut
CHECK_DEADLOCK FALSE
