\* Liveness in both modes, with a purge at any moment.
SPECIFICATION FairSpec
CONSTANTS
  p1 = p1
  p2 = p2
  Procs <- OneProc
  TimerModes <- Both
  RawModes <- Off
  FifoLen = 2
  HwLen = 1
  BufLen = 1
  NSamples = 2
  MaxStamps = 3
  MaxPurges = 1
INVARIANTS RingInv ArmedMeansReady
PROPERTIES PolledSampleServed WakeupServed
CHECK_DEADLOCK FALSE
