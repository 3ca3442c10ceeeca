SPECIFICATION FairSpec
CONSTANTS
  Channels = {c1, c2}
  Toggles <- AnySetup
  None = None
INVARIANT QuietWhileReplaying
PROPERTIES CallsReturn TrackFollowed
CHECK_DEADLOCK FALSE
