CONSTANTS
  b1 = b1
  b2 = b2
  Byte <- TwoBytes
  Size = 2
  Threshold = 0
  MaxChunk = 3
  None = None
SPECIFICATION FairSpec
INVARIANTS RingConsistent NoLostWakeup
PROPERTIES IsFifo ReaderIsWoken
