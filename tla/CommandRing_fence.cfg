SPECIFICATION Spec
CONSTANTS
  Capacity = 4
  IndexModulus = 8
  ArenaSize = 2
  ByteModulus = 4
  Window = 1
  DeferLimit = 1
  Lengths = {1}
  Records = {}
  MaxPass = 4
  Modes = {"atomic"}
  Producers = {"incremental"}
  Fenced = {"incremental"}
  MayFail = FALSE
  None = None
PROPERTIES
  ImplementsReplayQueue
