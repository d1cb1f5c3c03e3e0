SPECIFICATION Spec
SYMMETRY Symmetry
CONSTANTS
  None = None
  Actions = {a1}
  Builds = {b1, b2}
  Callers = {c1, c2}
  MaxVersions = 2
  Faults = {"fail", "crash"}
INVARIANTS
  TypeOK
  RowsHaveFiles
  PairsAreExecutable
  CompilesOwnSource
