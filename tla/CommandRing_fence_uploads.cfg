SPECIFICATION Spec
CONSTANTS
  Capacity = 5
  IndexModulus = 10
  ArenaSize = 4
  ByteModulus = 8
  Window = 1
  DeferLimit = 1
  Lengths = {2}
  Records = {"command","upload"}
  MaxPass = 3
  Modes = {"atomic"}
  Producers = {"batched"}
  Fenced = {"batched"}
  MayFail = FALSE
  None = None
INVARIANTS
  QueuedUploadsIntact
