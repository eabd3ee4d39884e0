\* Programs run one after another on one board while samples arrive.
SPECIFICATION Spec
CONSTANTS
  Programs <- AllPrograms
  SeqSize = 4
  BufLen = 2
  BlockLen = 2
  ReadLen = 3
  Retries = 1
  OffsetBits <- TwoOffsets
  MaxSamples = 5
  MaxRuns = 2
INVARIANTS TypeOK CallsApart GapsReported TerminationAsAsked LogComplete
\* No more programs are run after the last.
CHECK_DEADLOCK FALSE
