SPECIFICATION HeldSpec
CONSTANTS
  Values = {0, 1, 2}
  WordCount = 2
  GenerationModulus = 10
  SequenceModulus = 8
  MaxAttempts = 2
  Sharing = {TRUE, FALSE}
  Calls = {{}, {"reset"}, {"reset", "mask"}}
  MaxPosts = 2
  None = None
INVARIANTS
  TypeOK
  NoTornSnapshot
PROPERTIES
  NeverGoesBack
  ImplementsLatestInput
  HeldStateArrives
