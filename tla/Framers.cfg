SPECIFICATION FramersSpec
CONSTANTS
  Steps = {700}
  MaxNow = 2900
  MaxCome = 2
  MaxDrift = 5000
  Devices <- Clocks
  Jumps = {5000}
  Ahead <- EarlyLate
  Duration = 32
  STC_STATERR = 47721858
  Word = 1000000000
  Ac3Streams <- Ac3Samples
  DtsStreams <- DtsSamples
  Mp2Streams <- Mp2Samples
  Chunks = {1, 5, 8, 25}
  Rate = 48
  Wild = {0, 12}
  MAD_BUFFER_GUARD = 4
INVARIANTS TypesOK  FramesAreWhole  WaitsEnd 
