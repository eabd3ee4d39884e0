\* The interrupt may come between the emptiness test and set_bit of fd_zio_input().
SPECIFICATION FairSpec
CONSTANTS
  p1 = p1
  p2 = p2
  Procs <- OneProc
  TimerModes <- Off
  RawModes <- Off
  FifoLen = 2
  HwLen = 2
  BufLen = 1
  NSamples = 1
  MaxStamps = 2
  MaxPurges = 0
PROPERTY QueuedSampleServed
CHECK_DEADLOCK FALSE
