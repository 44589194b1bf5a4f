SPECIFICATION FairSpec
CONSTANTS
  Capacity = 4
  IndexModulus = 12
  TargetFrames = 3
  StartFrames = 2
  MaxMixFrames = 3
  Quantum = 2
  MaxEpoch = 3
INVARIANTS
  TypeOK
  FlushExcludesRefill
  NoStaleFrames
  FirstQuantumIsPrefilled
  MutedIsQuiet
PROPERTIES
  ImplementsFifo
  EpochsAreAcknowledged
  SoundResumes
