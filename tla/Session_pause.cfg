SPECIFICATION Spec
CONSTANTS
  Discs = {big, other, small, bad}
  Readable = {big, other, small}
  FullSize = {big, other, bad}
  None = None
  MaxMounts = 1
  MaxClicks = 1
  MaxPolls = 1
  MaxProgress = 1
  Setups = {{"clicks", "polls", "progress"}}
PROPERTIES
  PausedGameStandsStill
CHECK_DEADLOCK FALSE
