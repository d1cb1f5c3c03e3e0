SPECIFICATION Spec
SYMMETRY Symmetry
CONSTANTS
  None = None
  Actions = {a1}
  Builds = {b1}
  Callers = {c1, c2}
  MaxVersions = 1
  Faults = {}
CHECK_DEADLOCK FALSE
PROPERTIES
  UpdateKeepsActive
