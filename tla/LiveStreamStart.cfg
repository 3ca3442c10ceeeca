CONSTANTS
  Room = 1
  Skip = 1
  Changes <- AllChanges
  Hangs <- NoHangs
SPECIFICATION Spec
PROPERTIES StartsOnPts
