----------------------------- MODULE MCFdClock -----------------------------
(* A small instance of FdClock for TLC: two times that differ in every word. *)
EXTENDS FdClock, TLC

CONSTANTS p1, p2

TwoProcs     == {p1, p2}
ProcSymmetry == Permutations(TwoProcs)
OneBit       == {0, 1}
TwoTimes     == {[h |-> b, l |-> b, c |-> b] : b \in OneBit}
============================================================================
