SPECIFICATION FairSpec
CONSTANTS
  Capacity = 5
  IndexModulus = 10
  ArenaSize = 2
  ByteModulus = 4
  Window = 3
  DeferLimit = 1
  Lengths = {1}
  Records = {}
  MaxPass = 5
  Modes = {"atomic"}
  Producers = {"incremental"}
  Fenced = {}
  MayFail = FALSE
  None = None
PROPERTIES
  UploadsAreNotStarved
  PassesAreReplayed
