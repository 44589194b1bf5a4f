SPECIFICATION Spec
CONSTANTS
  Discs = {big, small, bad}
  Readable = {big, small}
  FullSize = {big, bad}
  None = None
  MaxMounts = 2
  MaxClicks = 0
  MaxPolls = 0
  MaxProgress = 1
  Setups = {{"overlap", "progress"}}
INVARIANTS
  BootsOnlyAReadyCore
CHECK_DEADLOCK FALSE
