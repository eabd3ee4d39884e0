\* Both ways to get samples, raw and normal blocks, two processes, no purge.
SPECIFICATION Spec
CONSTANTS
  p1 = p1
  p2 = p2
  Procs <- TwoProcs
  TimerModes <- Both
  RawModes <- Both
  FifoLen = 2
  HwLen = 2
  BufLen = 2
  NSamples = 2
  MaxStamps = 4
  MaxPurges = 0
SYMMETRY ProcSymmetry
INVARIANTS TypeOK OneConsumer RingInv ArmedMeansReady DataInOrder BlocksInOrder
PROPERTY RefinesStream
CHECK_DEADLOCK FALSE
