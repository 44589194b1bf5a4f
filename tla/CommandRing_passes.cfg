SPECIFICATION Spec
CONSTANTS
  Capacity = 3
  IndexModulus = 6
  ArenaSize = 5
  ByteModulus = 10
  Window = 2
  DeferLimit = 1
  Lengths = {2}
  Records = {"command"}
  MaxPass = 3
  Modes = {"atomic", "budget", "legacy"}
  Producers = {"incremental", "batched"}
  Fenced = {}
  MayFail = TRUE
  None = None
INVARIANTS
  TypeOK
  QueuedUploadsIntact
  StagedAreWaiting
  ArenaDrainsEmpty
PROPERTIES
  PassesReplayWhole
CHECK_DEADLOCK FALSE
