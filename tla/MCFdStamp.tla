----------------------------- MODULE MCFdStamp -----------------------------
(* A small instance of FdStamp for TLC: seconds of five coarse units, words
   of two seconds, samples at every boundary of the coarse count (negative,
   within a second, a second and more), and offsets up to a whole second. *)
EXTENDS FdStamp

EdgeSamples == {r \in RawTimes : InRange(r) /\ r.coarse \in {0, 4, 5, 7, 11, 15}
                                            /\ r.frac \in {0, 3}}
SomeOffsets == {-26, 9, 35}
UserRange   == {-35, -1, 9}
============================================================================
