SPECIFICATION Spec
CONSTANTS
  Keys = {k1, k2}
  Builds = {b1, b2}
  BootMax = 1
  CacheMax = 2
  Threshold = 1
  Batch = 1
  Threads = 2
  Files <- OneOrder
  Setups <- AllScenarios
  None = None
INVARIANTS
  ReadyMeansAtRest
CHECK_DEADLOCK FALSE
