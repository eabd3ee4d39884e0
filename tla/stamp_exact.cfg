\* Any number of stamps, with two offsets written at any moments.
SPECIFICATION Spec
CONSTANTS
  CoarsePerSec = 5
  FracPerCoarse = 4
  PicoPerCoarse = 7
  WordSize = 2
  RawSize = 16
  RawSamples <- EdgeSamples
  ZeroOffsets <- SomeOffsets
  UserOffsets <- UserRange
  MaxWrites = 2
INVARIANTS TypeOK Normalized Exact ReportedWhenQuiet
