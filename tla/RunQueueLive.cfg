SPECIFICATION FairSpec
CONSTANTS
  r1 = r1
  r2 = r2
  r3 = r3
  a1 = a1
  a2 = a2
  NoRun = NoRun
  Runs <- TwoRuns
  Actions <- OneAction
  ActionOf <- ActionOfTwo
  Workers = {w1, w2}
  Faults = {"revoke", "release", "crash"}
  MaxLimit = 1
  MaxDowns = 1
PROPERTIES
  QueuedIsClaimed
  RunningEnds
  StopEnds
