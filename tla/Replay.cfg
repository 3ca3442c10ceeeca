SPECIFICATION FairSpec
CONSTANTS
  Sources = {"d1", "m1", "m2"}
  Kinds = {"pts", "aligned"}
INVARIANTS TypeOK KindsApart 
PROPERTIES SoundFollows OffStops
