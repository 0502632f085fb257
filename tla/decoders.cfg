SPECIFICATION Spec
CONSTANTS
  Traffic <- MCTraffic
  Chunks <- MCChunks
  Errors <- MCErrors
  Exposed <- MCExposed
  Slips <- MCSlips
  MaxFrameBits = 60
  MaxBodyBytes = 5
  WordsPerBatch = 4
  PauseBits = 160
  Threshold = 500
  DitBlocks = 4
  HalfBit = 1
  CompactAt = 300
INVARIANTS NothingManufactured CleanFramesHeard
CHECK_DEADLOCK FALSE
