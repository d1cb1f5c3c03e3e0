SPECIFICATION Spec
SYMMETRY WorkerSymmetry
CONSTANTS
  r1 = r1
  r2 = r2
  r3 = r3
  a1 = a1
  a2 = a2
  NoRun = NoRun
  Runs <- ThreeRuns
  Actions <- TwoActions
  ActionOf <- ActionOfThree
  Workers = {w1, w2}
  Faults = {"create"}
  MaxLimit = 1
  MaxDowns = 1
INVARIANTS
  NothingIsLeft
PROPERTIES
  ClaimsInOrder
