\* fdelay-read and fdelay-fread, one of them at a time.
SPECIFICATION Spec
CONSTANTS
  Programs <- Library
  SeqSize = 4
  BufLen = 2
  BlockLen = 1
  ReadLen = 2
  Retries = 1
  OffsetBits <- TwoOffsets
  MaxSamples = 3
  MaxRuns = 1
INVARIANT ReadFills
CHECK_DEADLOCK FALSE
