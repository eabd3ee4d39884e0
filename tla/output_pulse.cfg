\* Programs configure a channel, users write offsets, the timer moves the tap.
SPECIFICATION FairSpec
CONSTANTS
  CoarsePerSec = 4
  FracPerCoarse = 2
  PicoPerCoarse = 3
  WordSize = 2
  RawSize = 8
  CoarsePerMicro = 1
  PicoSize = 32
  NarrowCoarse = 2
  MinDelay = 2
  MaxTrain = 2
  RepSize = 4
  Taps <- TwoTaps
  OffsetValues <- TwoOffsets
  Requests <- AllRequests
  LaterRequests <- Later
  Nows <- OneNow
  MaxWrites = 1
INVARIANTS TypeOK PulseAsAsked EndInRange NoFineIffNarrow TrainAsAsked TapInForce
PROPERTY TapRepaired
\* With no blocks to write and no timer nothing happens.
CHECK_DEADLOCK FALSE
