CONSTANTS
  Room = 1
  Skip = 1
  Changes <- LiveChanges
  Hangs <- NoHangs
SPECIFICATION FairSpec
PROPERTIES DetachReturns StreamIsTaken
