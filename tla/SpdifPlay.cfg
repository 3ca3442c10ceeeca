SPECIFICATION FairSpec
CONSTANTS
  Options <- Both
  Room = 2
  Start = 2
  Silence = 1
  Repeats = 1
INVARIANTS LowOrFull  PauseKept 
PROPERTY SoundReturns
