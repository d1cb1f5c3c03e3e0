SPECIFICATION Spec
SYMMETRY WorkerSymmetry
CONSTANTS
  r1 = r1
  r2 = r2
  r3 = r3
  a1 = a1
  a2 = a2
  NoRun = NoRun
  Runs <- TwoRuns
  Actions <- OneAction
  ActionOf <- ActionOfTwo
  Workers = {w1, w2}
  Faults = {"revoke", "status", "release", "evict", "expire", "crash"}
  MaxLimit = 2
  MaxDowns = 1
INVARIANTS
  TypeOK
  OneOwner
  RunningIsOwned
  CapabilityHasOwner
  ExecIsEquipped
PROPERTIES
  LimitRespected
  KeepsContract
