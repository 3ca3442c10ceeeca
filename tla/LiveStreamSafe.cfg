CONSTANTS
  Room = 2
  Skip = 1
  Changes <- AllChanges
  Hangs <- HangsUnlocked
SPECIFICATION Spec
INVARIANTS TypeOK DeletedLeavesNothing ForwarderKeepsStream
PROPERTIES ClosedByOwner
