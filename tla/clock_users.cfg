\* Two users get and set the time in every order, with commands in between.
SPECIFICATION Spec
CONSTANTS
  p1 = p1
  p2 = p2
  Procs <- TwoProcs
  Words <- OneBit
  Times <- TwoTimes
SYMMETRY ProcSymmetry
INVARIANTS TypeOK GotOneTime WrModeInForce
PROPERTY SetOneTime
