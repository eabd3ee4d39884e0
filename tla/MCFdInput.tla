----------------------------- MODULE MCFdInput -----------------------------
(* Small instances of FdInput for TLC.                                     *)
EXTENDS FdInput, TLC

CONSTANTS p1, p2

Off       == {FALSE}
Both      == {FALSE, TRUE}
OneProc   == {p1}
TwoProcs  == {p1, p2}
ProcSymmetry == Permutations(TwoProcs)
============================================================================
