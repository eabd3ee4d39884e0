------------------------------- MODULE FdTime -------------------------------
(***************************************************************************)
(* The time arithmetic of the driver. A time is seconds, coarse units (a   *)
(* clock cycle, 8 ns) and fractions of it (frac). The kernel keeps it in   *)
(* struct fd_time, with 64 bits of seconds, and in ZIO attributes, where   *)
(* the seconds take two 32-bit words. Offsets come in picoseconds.         *)
(*                                                                         *)
(* The constants are the numbers of the code, so that they can be scaled   *)
(* down; unsigned seconds wrap as they do there.                           *)
(***************************************************************************)
EXTENDS Integers

CONSTANTS
  CoarsePerSec,   \* 125*1000*1000
  FracPerCoarse,  \* 4096
  PicoPerCoarse,  \* 8000
  WordSize,       \* 2^32, what a word of an attribute holds
  RawSize         \* 2^28, what the coarse register of the hardware holds

ASSUME UnitsAssumption ==
  /\ CoarsePerSec \in Nat \ {0} /\ FracPerCoarse \in Nat \ {0}
  /\ PicoPerCoarse \in Nat \ {0} /\ WordSize \in Nat \ {0}
\* The coarse register has room for a second below its sign bit, and bit 27 set
\* is a negative count of less than a second.
ASSUME RawAssumption ==
  RawSize \in Nat /\ RawSize \div 2 >= CoarsePerSec

UtcSize == WordSize * WordSize

\* struct fd_time, in range, and the same in the words of ZIO attributes.
Times == [utc : 0..UtcSize-1, coarse : 0..CoarsePerSec-1, frac : 0..FracPerCoarse-1]
AttrTimes == [utcH : 0..WordSize-1, utcL : 0..WordSize-1,
              coarse : 0..CoarsePerSec-1, frac : 0..FracPerCoarse-1]

\* An offset is less than a second, or one second exactly: fd_split_pico() has a
\* BUG_ON for more.
PicoPerSec == CoarsePerSec * PicoPerCoarse
Offsets    == {p \in Int : -PicoPerSec <= p /\ p <= PicoPerSec}

\* fd_split_pico(): the remainder is converted to fractions and truncated.
SplitPico(pico) ==
  [coarse |-> pico \div PicoPerCoarse,
   frac   |-> ((pico % PicoPerCoarse) * FracPerCoarse) \div PicoPerCoarse]

----------------------------------------------------------------------------
(* struct fd_time: fd_ts_sub(), fd_ts_add() and fd_normalize_time().       *)

TsSub(t, pico) ==
  LET d      == SplitPico(pico)
      borrow == IF t.frac >= d.frac THEN 0 ELSE 1
      second == IF t.coarse >= d.coarse + borrow THEN 0 ELSE 1
  IN  [utc    |-> (t.utc - second) % UtcSize,
       coarse |-> t.coarse - d.coarse - borrow + second * CoarsePerSec,
       frac   |-> t.frac - d.frac + borrow * FracPerCoarse]

\* The mutant carries one fraction too late.
TsAddLate(t, pico) ==
  LET d      == SplitPico(pico)
      carry  == IF t.frac + d.frac > FracPerCoarse THEN 1 ELSE 0
      second == IF t.coarse + d.coarse + carry >= CoarsePerSec THEN 1 ELSE 0
  IN  [utc    |-> (t.utc + second) % UtcSize,
       coarse |-> t.coarse + d.coarse + carry - second * CoarsePerSec,
       frac   |-> t.frac + d.frac - carry * FracPerCoarse]

TsAddUnsigned(t, pico) ==
  LET d      == SplitPico(pico)
      carry  == IF t.frac + d.frac >= FracPerCoarse THEN 1 ELSE 0
      second == IF t.coarse + d.coarse + carry >= CoarsePerSec THEN 1 ELSE 0
  IN  [utc    |-> (t.utc + second) % UtcSize,
       coarse |-> t.coarse + d.coarse + carry - second * CoarsePerSec,
       frac   |-> t.frac + d.frac - carry * FracPerCoarse]

TsAdd(t, pico) == IF pico < 0 THEN TsSub(t, -pico) ELSE TsAddUnsigned(t, pico)

\* What the stamp registers hold: coarse has 28 bits and its top bit set is a
\* count below zero.
RawTimes == [utc : 0..UtcSize-1, coarse : 0..RawSize-1, frac : 0..FracPerCoarse-1]

\* The range the hardware reports coarse in: 0xfff.ffef is -17. A count of a second
\* or more fits a second subtraction.
InRange(r) ==
  \/ r.coarse < RawSize \div 2 /\ r.coarse < 2 * CoarsePerSec
  \/ r.coarse >= RawSize - CoarsePerSec /\ r.coarse >= RawSize \div 2

\* The coarse count brought into a second, as fd_normalize_time() starts.
FixCoarse(r) ==
  IF r.coarse >= RawSize \div 2
    THEN [r EXCEPT !.coarse = (@ + CoarsePerSec) % RawSize, !.utc = (@ - 1) % UtcSize]
  ELSE IF r.coarse >= CoarsePerSec
    THEN [r EXCEPT !.coarse = @ - CoarsePerSec, !.utc = (@ + 1) % UtcSize]
  ELSE r

NormalizeTime(r, zeroOffset) == TsAdd(FixCoarse(r), zeroOffset)

----------------------------------------------------------------------------
(* ZIO attributes: fd_attr_sub(), fd_attr_add() and fd_apply_offset().     *)

AttrSub(a, pico) ==
  LET d      == SplitPico(pico)
      borrow == IF a.frac >= d.frac THEN 0 ELSE 1
      second == IF a.coarse >= d.coarse + borrow THEN 0 ELSE 1
      word   == IF a.utcL >= second THEN 0 ELSE 1
  IN  [utcH   |-> (a.utcH - word) % WordSize,
       utcL   |-> (a.utcL - second) % WordSize,
       coarse |-> a.coarse - d.coarse - borrow + second * CoarsePerSec,
       frac   |-> a.frac - d.frac + borrow * FracPerCoarse]

\* The mutant drops the carry into the high word.
AttrAddOneWord(a, pico) ==
  LET d      == SplitPico(pico)
      carry  == IF a.frac + d.frac >= FracPerCoarse THEN 1 ELSE 0
      second == IF a.coarse + d.coarse + carry >= CoarsePerSec THEN 1 ELSE 0
  IN  [utcH   |-> a.utcH,
       utcL   |-> (a.utcL + second) % WordSize,
       coarse |-> a.coarse + d.coarse + carry - second * CoarsePerSec,
       frac   |-> a.frac + d.frac - carry * FracPerCoarse]

AttrAdd(a, pico) ==
  LET d      == SplitPico(pico)
      carry  == IF a.frac + d.frac >= FracPerCoarse THEN 1 ELSE 0
      second == IF a.coarse + d.coarse + carry >= CoarsePerSec THEN 1 ELSE 0
      word   == IF a.utcL + second >= WordSize THEN 1 ELSE 0
  IN  [utcH   |-> (a.utcH + word) % WordSize,
       utcL   |-> (a.utcL + second) % WordSize,
       coarse |-> a.coarse + d.coarse + carry - second * CoarsePerSec,
       frac   |-> a.frac + d.frac - carry * FracPerCoarse]

ApplyOffset(a, offPico) ==
  IF offPico = 0 THEN a
  ELSE IF offPico > 0 THEN AttrAdd(a, offPico) ELSE AttrSub(a, -offPico)

\* A mutant of ToAttr: the low word keeps all the seconds.
ToAttrWide(t) == [utcH |-> t.utc \div WordSize, utcL |-> t.utc,
                  coarse |-> t.coarse, frac |-> t.frac]

\* t.utc in two words: the assignments of fd_read_sw_fifo().
ToAttr(t) == [utcH |-> t.utc \div WordSize, utcL |-> t.utc % WordSize,
              coarse |-> t.coarse, frac |-> t.frac]

----------------------------------------------------------------------------
(* The reference: a time is a number of fractions, modulo the seconds that *)
(* can be counted.                                                         *)

Units(utc, coarse, frac) == (utc * CoarsePerSec + coarse) * FracPerCoarse + frac
TimeUnits(t) == Units(t.utc, t.coarse, t.frac)
AttrUnits(a) == Units(a.utcH * WordSize + a.utcL, a.coarse, a.frac)
RawUnits(r)  == Units(r.utc, IF r.coarse >= RawSize \div 2 THEN r.coarse - RawSize
                                                           ELSE r.coarse, r.frac)
OffsetUnits(p) ==
  IF p >= 0 THEN (p * FracPerCoarse) \div PicoPerCoarse
            ELSE -((-p * FracPerCoarse) \div PicoPerCoarse)

Span == UtcSize * CoarsePerSec * FracPerCoarse
Same(x, y) == (x - y) % Span = 0
============================================================================
