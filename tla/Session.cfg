SPECIFICATION FairSpec
CONSTANTS
  Discs = {big, small, bad}
  Readable = {big, small}
  FullSize = {big, bad}
  None = None
  MaxMounts = 3
  MaxClicks = 1
  MaxPolls = 1
  MaxProgress = 1
  Setups = {{"trouble", "refusal", "clicks", "polls"}, {"refusal", "clicks"}, {"overlap", "progress"}}
INVARIANTS
  TypeOK
  OneCore
  CalmPageBootsAReadyCore
  PageShowsTheMountedDisc
  EveryWaitIsServed
PROPERTIES
  EverythingSettles
  ReadableDiscsMount
CHECK_DEADLOCK FALSE
