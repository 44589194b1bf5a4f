SPECIFICATION Spec
CONSTANTS
  SlotCount = 2
  SlotSize = 2
  BufferCells = 2
  MaxRecords = 4
  FaultyRecords = 2
  Coalescing = {TRUE, FALSE}
  MayFail = {TRUE, FALSE}
  None = None
INVARIANTS
  TypeOK
  HealthyGpuNeverFails
PROPERTIES
  EverythingReachesTheGpu
  RendersSeeTheirUploads
  FatalIsFinal
  QuiescedMeansDone
CHECK_DEADLOCK FALSE
