SPECIFICATION DeviceSpec
CONSTANTS
  MaxOpen = 2
  Streams <- Framers
  Cards <- Hardware
  Delays = {0, 1, 5, 22, 32}
  Parts = {"live"}
  Device = {0, 2}
  Works = {2}
  Delay = {7}
  Files <- SetupFiles
INVARIANTS TypesOK CardIsOwned HandlesKept BufferFits SetupStored FailedTriesAgain
PROPERTY OffReturns
