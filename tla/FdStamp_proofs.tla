--------------------------- MODULE FdStamp_proofs ---------------------------
(***************************************************************************)
(* Every stamp is exact, for every length of the second, of the coarse     *)
(* unit and of the words.                                                  *)
(***************************************************************************)
EXTENDS FdStamp, FdTime_proofs

----------------------------------------------------------------------------
(* The specification.                                                      *)

\* What the offset of a stamp and its report are, as long as nobody writes.
Quiet ==
  ~touched =>
    /\ pc \in {"fill", "report", "apply"} => zeroUsed = zeroOffset
    /\ pc \in {"report", "apply"} => v.offset = zeroUsed
    /\ pc = "apply" => v.userOff = userOffset
    /\ pc = "idle" => tdcAttrs.offset = zeroUsed /\ tdcAttrs.userOff = userUsed

\* A sample is in the range of the hardware until it is normalized.
IInv ==
  /\ TypeOK /\ Normalized /\ Exact /\ Quiet
  /\ pc = "normalize" => InRange(raw)

\* A normalized time has the type of one.
LEMMA NormalizedTyped ==
  /\ Times \subseteq [utc : 0..UtcSize-1, coarse : Nat, frac : Nat]
  /\ AttrTimes \subseteq WordTimes
<1>1. 0..CoarsePerSec-1 \subseteq Nat /\ 0..FracPerCoarse-1 \subseteq Nat
  BY UnitsAssumption
<1>2. QED
  BY <1>1 DEF Times, AttrTimes, WordTimes

\* The invariant holds before the first stamp.
LEMMA InitIInv == Init => IInv
<1> SUFFICES ASSUME Init PROVE IInv
  OBVIOUS
<1>1. Zero \in Times /\ Zero \in RawTimes
  BY UnitsAssumption, RawAssumption DEF Zero, Times, RawTimes, UtcSize
<1>2. ToAttr(Zero) \in AttrTimes /\ AttrUnits(ToAttr(Zero)) = TimeUnits(Zero)
  BY <1>1, ToAttrExact
<1>3. RawUnits(Zero) = TimeUnits(Zero)
  BY UnitsAssumption, RawAssumption DEF Zero, RawUnits, TimeUnits
<1>4. zeroOffset \in Offsets /\ 0 \in Offsets
  BY OffsetsAssumption, NoOffset DEF Init
<1>5. TypeOK
  BY <1>1, <1>2, <1>4, NormalizedTyped, WritesAssumption
     DEF Init, TypeOK, WordStamps, Stamp
<1>6. Normalized
  BY <1>1, <1>2 DEF Init, Normalized, Stamp
<1>7. Exact
  <2>1. TimeUnits(Zero) \in Int
    BY <1>1, UnitsInt
  <2>2. Same(TimeUnits(Zero), TimeUnits(Zero))
    <3>1. TimeUnits(Zero) = TimeUnits(Zero) + 0 * Span
      BY <2>1, SpanPositive
    <3>2. QED
      BY <2>1, <3>1, SameEquiv DEF Equiv
  <2>3. TimeUnits(Zero) + 0 + 0 = TimeUnits(Zero)
    BY <2>1
  <2>4. QED
    BY <1>2, <1>3, <2>2, <2>3, NoOffset DEF Init, Exact, Stamp
<1>8. QED
  BY <1>5, <1>6, <1>7 DEF IInv, Quiet, Init

\* Every step of fd_read_sw_fifo(), and a write of an offset in between, keeps it.
LEMMA NextIInv == IInv /\ [Next]_vars => IInv'
<1> SUFFICES ASSUME IInv, [Next]_vars PROVE IInv'
  OBVIOUS
<1> USE DEF IInv
<1>1. CASE Take
  <2>1. raw' \in RawTimes /\ InRange(raw')
    BY <1>1, SamplesAssumption DEF Take
  <2>2. raw' \in [utc : 0..UtcSize-1, coarse : Nat, frac : Nat]
    BY <2>1, RawAssumption, UnitsAssumption DEF RawTimes
  <2>3. TypeOK'
    BY <1>1, <2>1, <2>2 DEF Take, TypeOK, offsetVars
  <2>4. QED
    BY <1>1, <2>1, <2>3 DEF Take, Normalized, Exact, Quiet
<1>2. CASE Normalize
  <2>1. raw \in RawTimes /\ InRange(raw) /\ t = raw /\ zeroOffset \in Offsets
    BY <1>2 DEF Normalize, TypeOK, Exact
  <2>2. t' \in Times /\ Equiv(TimeUnits(t'), RawUnits(raw) + OffsetUnits(zeroOffset))
    BY <1>2, <2>1, NormalizeExact DEF Normalize
  <2>3. Same(TimeUnits(t'), RawUnits(raw) + OffsetUnits(zeroOffset))
    BY <2>1, <2>2, UnitsInt, OffsetUnitsType, SameEquiv
  <2>4. TypeOK'
    BY <1>2, <2>2, NormalizedTyped DEF Normalize, TypeOK, offsetVars
  <2>5. Exact'
    BY <1>2, <2>3 DEF Normalize, Exact
  <2>6. QED
    BY <1>2, <2>2, <2>4, <2>5 DEF Normalize, Normalized, Quiet, offsetVars
<1>3. CASE Fill
  <2>1. t \in Times
    BY <1>3 DEF Fill, Normalized
  <2>2. v'.time = ToAttr(t) /\ v'.offset = zeroOffset /\ v'.userOff = v.userOff
        /\ v' = Stamp(v'.time, v'.offset, v'.userOff)
    BY <1>3 DEF Fill, Stamp
  <2>3. v'.time \in AttrTimes /\ AttrUnits(v'.time) = TimeUnits(t)
    BY <2>1, <2>2, ToAttrExact
  <2>4. TypeOK'
    BY <1>3, <2>2, <2>3, NormalizedTyped DEF Fill, TypeOK, WordStamps, Stamp, offsetVars
  <2>5. Exact'
    BY <1>3, <2>3 DEF Fill, Exact
  <2>6. Quiet'
    BY <1>3, <2>2 DEF Fill, Quiet, offsetVars
  <2>7. QED
    BY <1>3, <2>1, <2>3, <2>4, <2>5, <2>6 DEF Fill, Normalized
<1>4. CASE Report
  <2>1. v'.time = v.time /\ v'.offset = v.offset /\ v'.userOff = userOffset
        /\ v' \in WordStamps
    BY <1>4 DEF Report, TypeOK, WordStamps
  <2>2. TypeOK'
    BY <1>4, <2>1 DEF Report, TypeOK, offsetVars
  <2>3. Exact'
    BY <1>4, <2>1 DEF Report, Exact
  <2>4. Quiet'
    BY <1>4, <2>1 DEF Report, Quiet, offsetVars
  <2>5. QED
    BY <1>4, <2>1, <2>2, <2>3, <2>4 DEF Report, Normalized
<1>5. CASE Apply
  <2> DEFINE a == v.time   x == AttrUnits(ApplyOffset(a, userOffset))
             stamp == RawUnits(raw) + OffsetUnits(zeroUsed)
  <2>1. a \in AttrTimes /\ userOffset \in Offsets /\ zeroUsed \in Offsets
        /\ raw \in RawTimes /\ Same(AttrUnits(a), stamp)
    BY <1>5 DEF Apply, Normalized, TypeOK, Exact
  <2>2. /\ ApplyOffset(a, userOffset) \in AttrTimes
        /\ Equiv(x, AttrUnits(a) + OffsetUnits(userOffset))
    BY <2>1, ApplyOffsetExact
  <2>3. AttrUnits(a) \in Int /\ stamp \in Int /\ x \in Int /\ OffsetUnits(userOffset) \in Int
    BY <2>1, <2>2, UnitsInt, OffsetUnitsType
  <2>4. v'.time = ApplyOffset(a, userOffset) /\ v'.offset = v.offset
        /\ v'.userOff = v.userOff /\ tdcAttrs' = v'
        /\ v' = [v EXCEPT !.time = ApplyOffset(a, userOffset)]
    BY <1>5 DEF Apply, TypeOK, WordStamps
  <2>5. Same(x, stamp + OffsetUnits(userOffset))
    <3> HIDE DEF x, stamp, a
    <3>1. Equiv(AttrUnits(a), stamp)
      BY <2>1, <2>3, SameEquiv
    <3>2. Equiv(x, stamp + OffsetUnits(userOffset))
      BY <2>2, <2>3, <3>1, EquivStep
    <3>3. QED
      BY <2>3, <3>2, SameEquiv
  <2>6. TypeOK'
    BY <1>5, <2>2, <2>4, NormalizedTyped DEF Apply, TypeOK, WordStamps, offsetVars
  <2>7. Normalized'
    BY <1>5, <2>2, <2>4 DEF Apply, Normalized
  <2>8. Exact'
    BY <1>5, <2>4, <2>5 DEF Apply, Exact
  <2>9. Quiet'
    BY <1>5, <2>4 DEF Apply, Quiet, offsetVars
  <2>10. QED
    BY <1>5, <2>6, <2>7, <2>8, <2>9 DEF Apply
<1>6. CASE WriteOffset
  <2>1. TypeOK'
    BY <1>6, OffsetsAssumption, WritesAssumption DEF WriteOffset, TypeOK
  <2>2. QED
    BY <1>6, <2>1 DEF WriteOffset, Normalized, Exact, Quiet
<1>7. CASE UNCHANGED vars
  BY <1>7 DEF vars, offsetVars, TypeOK, Normalized, Exact, Quiet
<1>8. QED
  BY <1>1, <1>2, <1>3, <1>4, <1>5, <1>6, <1>7 DEF Next

\* The invariant holds in every state of every behaviour.
LEMMA AlwaysIInv == Spec => []IInv
  BY InitIInv, NextIInv, PTL DEF Spec

\* Every variable has its type: seconds never leave their 64 bits or two words,
\* whatever the offsets and wherever they are written.
THEOREM StampTyped == Spec => []TypeOK
<1>1. IInv => TypeOK
  BY DEF IInv
<1>2. QED
  BY <1>1, AlwaysIInv, PTL

\* fd_normalize_time(), fd_attr_add() and fd_attr_sub() leave less than a second of
\* coarse units and less than a coarse unit of fractions.
THEOREM StampNormalized == Spec => []Normalized
<1>1. IInv => Normalized
  BY DEF IInv
<1>2. QED
  BY <1>1, AlwaysIInv, PTL

\* A stamp of fd_read_sw_fifo() is the time of the hardware plus the offsets it read,
\* to the fraction, for every size of the units and of the words.
THEOREM StampExact == Spec => []Exact
<1>1. IInv => Exact
  BY DEF IInv
<1>2. QED
  BY <1>1, AlwaysIInv, PTL

\* The offsets that a stamp reports in its attributes are those in it, unless a
\* user wrote one while fd_read_sw_fifo() was at work.
THEOREM StampReported == Spec => []ReportedWhenQuiet
<1>1. IInv => ReportedWhenQuiet
  BY DEF IInv, Quiet, ReportedWhenQuiet
<1>2. QED
  BY <1>1, AlwaysIInv, PTL
=============================================================================
