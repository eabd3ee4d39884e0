---------------------------- MODULE FdTime_proofs ----------------------------
(***************************************************************************)
(* The time arithmetic is exact for every length of the second, of the     *)
(* coarse unit and of the words.                                           *)
(***************************************************************************)
EXTENDS FdTime, TLAPS

----------------------------------------------------------------------------
(* Integer division and polynomials.                                       *)

\* Quotient and remainder.
LEMMA DivMod ==
  ASSUME NEW a \in Int, NEW k \in Nat \ {0}
  PROVE  /\ a \div k \in Int /\ a % k \in 0..k-1
         /\ a = k * (a \div k) + (a % k)
OBVIOUS

\* A multiple leaves no remainder.
LEMMA Multiple ==
  ASSUME NEW q \in Int, NEW m \in Nat \ {0}
  PROVE  (q * m) % m = 0
<1> DEFINE x == q * m   d == x \div m   r == x % m
<1>0. x \in Int
  OBVIOUS
<1> HIDE DEF x
<1>1. d \in Int /\ r \in 0..m-1 /\ x = m * d + r
  BY <1>0, DivMod
<1> USE DEF x
<1>2. r = m * (q - d)
  BY <1>1
<1>3. q - d = 0
  <2>1. ~(q - d >= 1)
    BY <1>1, <1>2
  <2>2. ~(q - d <= -1)
    BY <1>1, <1>2
  <2>3. QED
    BY <1>1, <2>1, <2>2
<1>4. QED
  BY <1>2, <1>3

\* A remainder in range is the remainder.
LEMMA Residue ==
  ASSUME NEW m \in Nat \ {0}, NEW k \in Int, NEW c \in 0..m-1
  PROVE  (k * m + c) % m = c
<1> DEFINE x == k * m + c   d == x \div m   r == x % m
<1>0. x \in Int
  OBVIOUS
<1> HIDE DEF x
<1>1. d \in Int /\ r \in 0..m-1 /\ x = m * d + r
  BY <1>0, DivMod
<1>2. m * (k - d) = r - c
  BY <1>1 DEF x
<1> DEFINE e == d - k
<1>a. e \in Int /\ m * e = c - r
  BY <1>1, <1>2
<1>b. d \in Int /\ r \in 0..m-1
  BY <1>1
<1> HIDE DEF d, r, e
<1>3. e = 0
  <2>1. ~(e >= 1)
    BY <1>a, <1>b
  <2>2. ~(e <= -1)
    BY <1>a, <1>b
  <2>3. QED
    BY <1>a, <2>1, <2>2
<1>4. r = c
  BY <1>a, <1>b, <1>3
<1>5. QED
  BY <1>4 DEF r, x

\* Adding a multiple of the divisor adds it to the quotient.
LEMMA DivShift ==
  ASSUME NEW a \in Int, NEW b \in Int, NEW k \in Nat \ {0}
  PROVE  (k * a + b) \div k = a + b \div k
<1> DEFINE x == k * a + b   d == x \div k   e == b \div k
<1>1. d \in Int /\ x % k \in 0..k-1 /\ x = k * d + (x % k)
  BY DivMod
<1>2. e \in Int /\ b % k \in 0..k-1 /\ b = k * e + (b % k)
  BY DivMod
<1>3. k * (d - a - e) = (b % k) - (x % k)
  BY <1>1, <1>2
<1>4. d - a - e = 0
  <2>1. ~(d - a - e >= 1)
    BY <1>1, <1>2, <1>3
  <2>2. ~(d - a - e <= -1)
    BY <1>1, <1>2, <1>3
  <2>3. QED
    BY <1>1, <1>2, <2>1, <2>2
<1>5. QED
  BY <1>1, <1>2, <1>4

\* An unsigned counter of size m that is moved by at most one.
Wraps(x, m) ==
  /\ x % m \in 0..m-1
  /\ \E w \in {-1, 0, 1} : x % m = x + w * m

\* A number one below its range, or one above, is put right by one wrap.
LEMMA WrapOnce ==
  ASSUME NEW m \in Nat \ {0}, NEW x \in -1..m
  PROVE  Wraps(x, m)
<1> DEFINE q == x \div m   r == x % m
<1>1. q \in Int /\ r \in 0..m-1 /\ x = m * q + r
  BY DivMod
<1>2. ~(q >= 2) /\ ~(q <= -2)
  BY <1>1
<1>3. q \in {-1, 0, 1}
  BY <1>1, <1>2
<1>4. QED
  BY <1>1, <1>3 DEF Wraps

----------------------------------------------------------------------------
(* The conversion of an offset.                                            *)

\* fd_split_pico() truncates to whole fractions, and gives a normalized pair.
LEMMA SplitExact ==
  ASSUME NEW p \in 0..PicoPerSec
  PROVE  /\ SplitPico(p).coarse \in 0..CoarsePerSec
         /\ SplitPico(p).frac \in 0..FracPerCoarse-1
         /\ SplitPico(p).coarse = CoarsePerSec => SplitPico(p).frac = 0
         /\ SplitPico(p).coarse * FracPerCoarse + SplitPico(p).frac
              = (p * FracPerCoarse) \div PicoPerCoarse
<1> DEFINE C == CoarsePerSec   F == FracPerCoarse   K == PicoPerCoarse
           q == p \div K   r == p % K
<1>1. C \in Nat \ {0} /\ F \in Nat \ {0} /\ K \in Nat \ {0} /\ p \in Nat /\ p <= C * K
  BY UnitsAssumption DEF PicoPerSec
<1>2. q \in Int /\ r \in 0..K-1 /\ p = K * q + r
  BY <1>1, DivMod
<1>3. q >= 0 /\ q <= C
  <2>1. ~(q <= -1)
    BY <1>1, <1>2
  <2>2. ~(q >= C + 1)
    BY <1>1, <1>2
  <2>3. QED
    BY <1>1, <1>2, <2>1, <2>2
<1>4. q = C => r = 0
  BY <1>1, <1>2
<1>5. (r * F) \div K \in 0..F-1 /\ (r = 0 => (r * F) \div K = 0)
  <2> DEFINE x == r * F   d == x \div K   e == x % K
  <2>1. d \in Int /\ e \in 0..K-1 /\ x = K * d + e
    BY <1>1, <1>2, DivMod
  <2>2. x >= 0 /\ x <= (K - 1) * F
    BY <1>1, <1>2
  <2>3. ~(d <= -1)
    BY <1>1, <2>1, <2>2
  <2>4. ~(d >= F)
    BY <1>1, <2>1, <2>2
  <2>5. r = 0 => ~(d >= 1)
    BY <1>1, <2>1
  <2>6. QED
    BY <1>1, <2>1, <2>3, <2>4, <2>5
<1>6. (p * F) \div K = q * F + (r * F) \div K
  <2>1. p * F = K * (q * F) + r * F
    BY <1>1, <1>2
  <2>2. q * F \in Int /\ r * F \in Int
    BY <1>1, <1>2
  <2> DEFINE a == q * F   b == r * F
  <2> HIDE DEF a, b
  <2>3. (K * a + b) \div K = a + b \div K
    BY <1>1, <2>2, DivShift DEF a, b
  <2>4. QED
    BY <2>1, <2>3 DEF a, b
<1>7. QED
  BY <1>1, <1>3, <1>4, <1>5, <1>6 DEF SplitPico

----------------------------------------------------------------------------
(* Borrows and carries.                                                    *)

\* Moving b coarse units into fractions, s seconds into coarse units and w times
\* the whole range into the seconds changes no count of fractions.
Moved(u, c, f, dc, df, b, s, w) ==
  Units(u - s + w * UtcSize, c - dc - b + s * CoarsePerSec, f - df + b * FracPerCoarse)
    = Units(u, c, f) - (dc * FracPerCoarse + df) + w * Span

\* What a borrow or a carry takes from one unit it gives to the next.
LEMMA UnitsMoved ==
  ASSUME NEW u \in Int, NEW c \in Int, NEW f \in Int, NEW dc \in Int, NEW df \in Int,
         NEW b \in Int, NEW s \in Int, NEW w \in Int
  PROVE  Moved(u, c, f, dc, df, b, s, w)
<1> DEFINE M == UtcSize   C == CoarsePerSec   F == FracPerCoarse
<1>1. M \in Int /\ C \in Int /\ F \in Int
  BY UnitsAssumption DEF UtcSize
<1> HIDE DEF M
<1>2. ((u - s + w * M) * C + (c - dc - b + s * C)) * F + (f - df + b * F)
        = (u * C + c) * F + f - (dc * F + df) + w * (M * C * F)
  BY <1>1
<1>3. QED
  BY <1>1, <1>2 DEF Moved, Units, Span, M

\* fd_ts_sub() is exact, and leaves a normalized time.
LEMMA TsSubExact ==
  ASSUME NEW x \in Times, NEW p \in 0..PicoPerSec
  PROVE  /\ TsSub(x, p) \in Times
         /\ \E k \in Int : TimeUnits(TsSub(x, p)) = TimeUnits(x) - OffsetUnits(p) + k * Span
<1> DEFINE dc == SplitPico(p).coarse   df == SplitPico(p).frac
           b == IF x.frac >= df THEN 0 ELSE 1
           s == IF x.coarse >= dc + b THEN 0 ELSE 1
           y == TsSub(x, p)
<1>1. /\ x.utc \in 0..UtcSize-1 /\ x.coarse \in 0..CoarsePerSec-1
      /\ x.frac \in 0..FracPerCoarse-1
      /\ dc \in 0..CoarsePerSec /\ df \in 0..FracPerCoarse-1
      /\ dc = CoarsePerSec => df = 0
      /\ dc * FracPerCoarse + df = OffsetUnits(p)
  BY SplitExact, UnitsAssumption DEF Times, OffsetUnits, PicoPerSec
<1>2. UtcSize \in Nat \ {0} /\ CoarsePerSec \in Nat /\ FracPerCoarse \in Nat
  BY UnitsAssumption DEF UtcSize
<1>3. /\ y.utc = (x.utc - s) % UtcSize
      /\ y.coarse = x.coarse - dc - b + s * CoarsePerSec
      /\ y.frac = x.frac - df + b * FracPerCoarse
      /\ y = [utc |-> y.utc, coarse |-> y.coarse, frac |-> y.frac]
  BY DEF TsSub
<1> HIDE DEF dc, df, y
<1>4. y.coarse \in 0..CoarsePerSec-1 /\ y.frac \in 0..FracPerCoarse-1
  BY <1>1, <1>2, <1>3
<1>5. b \in {-1, 0, 1} /\ s \in {-1, 0, 1} /\ x.utc - s \in -1..UtcSize
  BY <1>1, <1>2
<1> HIDE DEF b, s
<1>6. Wraps(x.utc - s, UtcSize)
  BY <1>2, <1>5, WrapOnce
<1>7. y.utc \in 0..UtcSize-1 /\ \E w \in {-1, 0, 1} : y.utc = x.utc - s + w * UtcSize
  BY <1>3, <1>6 DEF Wraps
<1>8. PICK w \in {-1, 0, 1} : y.utc = x.utc - s + w * UtcSize
  BY <1>7
<1>9. Moved(x.utc, x.coarse, x.frac, dc, df, b, s, w)
  <2>1. /\ x.utc \in Int /\ x.coarse \in Int /\ x.frac \in Int
        /\ dc \in Int /\ df \in Int /\ b \in Int /\ s \in Int /\ w \in Int
    BY <1>1, <1>2, <1>5
  <2>2. QED
    BY <2>1, UnitsMoved
<1>10. TimeUnits(y) = TimeUnits(x) - OffsetUnits(p) + w * Span
  BY <1>1, <1>3, <1>8, <1>9 DEF Moved, TimeUnits
<1>11. y \in Times
  BY <1>3, <1>4, <1>7 DEF Times
<1>12. QED
  BY <1>10, <1>11 DEF y

\* fd_ts_add() with an offset that is not negative, likewise.
LEMMA TsAddUnsignedExact ==
  ASSUME NEW x \in Times, NEW p \in 0..PicoPerSec
  PROVE  /\ TsAddUnsigned(x, p) \in Times
         /\ \E k \in Int :
              TimeUnits(TsAddUnsigned(x, p)) = TimeUnits(x) + OffsetUnits(p) + k * Span
<1> DEFINE dc == SplitPico(p).coarse   df == SplitPico(p).frac
           b == IF x.frac + df >= FracPerCoarse THEN 1 ELSE 0
           s == IF x.coarse + dc + b >= CoarsePerSec THEN 1 ELSE 0
           y == TsAddUnsigned(x, p)
<1>1. /\ x.utc \in 0..UtcSize-1 /\ x.coarse \in 0..CoarsePerSec-1
      /\ x.frac \in 0..FracPerCoarse-1
      /\ dc \in 0..CoarsePerSec /\ df \in 0..FracPerCoarse-1
      /\ dc = CoarsePerSec => df = 0
      /\ dc * FracPerCoarse + df = OffsetUnits(p)
  BY SplitExact, UnitsAssumption DEF Times, OffsetUnits, PicoPerSec
<1>2. UtcSize \in Nat \ {0} /\ CoarsePerSec \in Nat /\ FracPerCoarse \in Nat
  BY UnitsAssumption DEF UtcSize
<1>3. /\ y.utc = (x.utc + s) % UtcSize
      /\ y.coarse = x.coarse + dc + b - s * CoarsePerSec
      /\ y.frac = x.frac + df - b * FracPerCoarse
      /\ y = [utc |-> y.utc, coarse |-> y.coarse, frac |-> y.frac]
  <2>1. y = [utc    |-> (x.utc + s) % UtcSize,
             coarse |-> x.coarse + dc + b - s * CoarsePerSec,
             frac   |-> x.frac + df - b * FracPerCoarse]
    BY DEF TsAddUnsigned
  <2> HIDE DEF dc, df, b, s, y
  <2>2. QED
    BY <2>1
<1> HIDE DEF dc, df, y
<1>4. /\ \/ b = 0 /\ x.frac + df < FracPerCoarse
         \/ b = 1 /\ x.frac + df >= FracPerCoarse
      /\ \/ s = 0 /\ x.coarse + dc + b < CoarsePerSec
         \/ s = 1 /\ x.coarse + dc + b >= CoarsePerSec
  BY <1>1, <1>2
<1> HIDE DEF b, s
<1>5. /\ b \in {0, 1} /\ s \in {0, 1} /\ x.utc + s \in -1..UtcSize
      /\ y.coarse \in 0..CoarsePerSec-1 /\ y.frac \in 0..FracPerCoarse-1
  <2>1. b \in {0, 1} /\ s \in {0, 1} /\ x.utc + s \in -1..UtcSize
    BY <1>1, <1>2, <1>4
  <2>2. y.frac \in 0..FracPerCoarse-1
    BY <1>1, <1>2, <1>3, <1>4
  <2>3. CASE s = 0
    <3>1. y.coarse = x.coarse + dc + b
      BY <1>1, <1>2, <1>3, <2>1, <2>3
    <3>2. QED
      BY <1>1, <1>2, <1>4, <2>1, <2>2, <2>3, <3>1
  <2>4. CASE s = 1
    <3>1. y.coarse = x.coarse + dc + b - CoarsePerSec
      BY <1>1, <1>2, <1>3, <2>1, <2>4
    <3>2. df >= 0 /\ (b = 1 => df >= 1)
      BY <1>1, <1>2, <1>4
    <3>3. dc + b <= CoarsePerSec
      BY <1>1, <1>2, <2>1, <3>2
    <3>4. QED
      BY <1>1, <1>2, <1>4, <2>1, <2>2, <2>4, <3>1, <3>3
  <2>5. QED
    BY <2>1, <2>3, <2>4
<1>6. Wraps(x.utc + s, UtcSize)
  BY <1>2, <1>5, WrapOnce
<1>7. y.utc \in 0..UtcSize-1 /\ \E w \in {-1, 0, 1} : y.utc = x.utc + s + w * UtcSize
  BY <1>3, <1>6 DEF Wraps
<1>8. PICK w \in {-1, 0, 1} : y.utc = x.utc + s + w * UtcSize
  BY <1>7
<1>9. Moved(x.utc, x.coarse, x.frac, -dc, -df, -b, -s, w)
  <2>1. /\ x.utc \in Int /\ x.coarse \in Int /\ x.frac \in Int
        /\ -dc \in Int /\ -df \in Int /\ -b \in Int /\ -s \in Int /\ w \in Int
    BY <1>1, <1>2, <1>5
  <2>2. QED
    BY <2>1, UnitsMoved
<1>10. TimeUnits(y) = TimeUnits(x) + OffsetUnits(p) + w * Span
  <2>1. /\ y.utc = x.utc - (-s) + w * UtcSize
        /\ y.coarse = x.coarse - (-dc) - (-b) + (-s) * CoarsePerSec
        /\ y.frac = x.frac - (-df) + (-b) * FracPerCoarse
    BY <1>1, <1>2, <1>3, <1>5, <1>8
  <2>2. TimeUnits(y) = TimeUnits(x) - ((-dc) * FracPerCoarse + (-df)) + w * Span
    BY <1>9, <2>1 DEF Moved, TimeUnits
  <2>3. -((-dc) * FracPerCoarse + (-df)) = OffsetUnits(p)
    BY <1>1, <1>2
  <2>4. TimeUnits(x) \in Int /\ w * Span \in Int /\ OffsetUnits(p) \in Int
    BY <1>1, <1>2 DEF TimeUnits, Units, Span
  <2>5. (-dc) * FracPerCoarse + (-df) \in Int
    BY <1>1, <1>2
  <2>6. QED
    BY <2>2, <2>3, <2>4, <2>5
<1>11. y \in Times
  BY <1>3, <1>5, <1>7 DEF Times
<1>12. QED
  BY <1>10, <1>11 DEF y

\* Times that differ by whole turns of the seconds counter.
Equiv(x, y) == \E k \in Int : x = y + k * Span

\* The range of a time is not empty.
LEMMA SpanPositive == Span \in Nat \ {0}
<1>1. UtcSize \in Nat \ {0}
  BY UnitsAssumption DEF UtcSize
<1>2. UtcSize * CoarsePerSec \in Nat \ {0}
  BY <1>1, UnitsAssumption
<1>3. QED
  BY <1>2, UnitsAssumption DEF Span

\* Same of FdStamp, a remainder, is Equiv, a multiple of the range.
LEMMA SameEquiv ==
  ASSUME NEW x \in Int, NEW y \in Int
  PROVE  Same(x, y) <=> Equiv(x, y)
<1> DEFINE z == x - y   q == z \div Span
<1>0. z \in Int
  OBVIOUS
<1>1. ASSUME Same(x, y) PROVE Equiv(x, y)
  <2>1. z % Span = 0
    BY <1>1 DEF Same
  <2> HIDE DEF z
  <2>2. q \in Int /\ z = Span * q + (z % Span)
    BY <1>0, SpanPositive, DivMod
  <2>3. x = y + q * Span
    BY <1>0, <2>1, <2>2, SpanPositive DEF z
  <2>4. QED
    BY <2>2, <2>3 DEF Equiv
<1>2. ASSUME Equiv(x, y) PROVE Same(x, y)
  <2>1. PICK k \in Int : x = y + k * Span
    BY <1>2 DEF Equiv
  <2>2. (k * Span) % Span = 0
    BY SpanPositive, Multiple
  <2>3. x - y = k * Span
    BY <2>1, SpanPositive
  <2>4. QED
    BY <2>2, <2>3 DEF Same
<1>3. QED
  BY <1>1, <1>2

\* Equal up to turns, when a difference is added to both.
LEMMA EquivStep ==
  ASSUME NEW x \in Int, NEW y \in Int, NEW z \in Int, NEW d \in Int,
         Equiv(x, y + d), Equiv(y, z)
  PROVE  Equiv(x, z + d)
<1>1. PICK j \in Int : x = y + d + j * Span
  BY DEF Equiv
<1>2. PICK k \in Int : y = z + k * Span
  BY DEF Equiv
<1>3. j + k \in Int /\ x = z + d + (j + k) * Span
  BY <1>1, <1>2, SpanPositive
<1>4. QED
  BY <1>3 DEF Equiv

\* An offset is a whole number of fractions, and minus an offset is minus it.
LEMMA OffsetUnitsType ==
  ASSUME NEW p \in Offsets
  PROVE  OffsetUnits(p) \in Int /\ (p < 0 => OffsetUnits(-p) = -OffsetUnits(p))
<1>1. p \in Int
  BY DEF Offsets
<1>2. CASE p >= 0
  <2>1. p * FracPerCoarse \in Int
    BY <1>1, UnitsAssumption
  <2>2. QED
    BY <1>1, <1>2, <2>1, DivMod, UnitsAssumption DEF OffsetUnits
<1>3. CASE p < 0
  <2>1. -p * FracPerCoarse \in Int
    BY <1>1, UnitsAssumption
  <2>2. (-p * FracPerCoarse) \div PicoPerCoarse \in Int
    BY <2>1, DivMod, UnitsAssumption
  <2>3. OffsetUnits(p) = -((-p * FracPerCoarse) \div PicoPerCoarse)
    BY <1>1, <1>3 DEF OffsetUnits
  <2>4. -p >= 0 /\ (-p) * FracPerCoarse = -p * FracPerCoarse
    BY <1>1, <1>3, UnitsAssumption
  <2>5. OffsetUnits(-p) = (-p * FracPerCoarse) \div PicoPerCoarse
    BY <2>4 DEF OffsetUnits
  <2>6. QED
    BY <2>2, <2>3, <2>5
<1>4. QED
  BY <1>1, <1>2, <1>3

\* fd_ts_add() with any offset.
LEMMA TsAddExact ==
  ASSUME NEW x \in Times, NEW p \in Offsets
  PROVE  TsAdd(x, p) \in Times /\ Equiv(TimeUnits(TsAdd(x, p)), TimeUnits(x) + OffsetUnits(p))
<1>0. p \in Int /\ PicoPerSec \in Nat /\ -PicoPerSec <= p /\ p <= PicoPerSec
  BY UnitsAssumption DEF Offsets, PicoPerSec
<1>1. CASE p >= 0
  <2>1. p \in 0..PicoPerSec /\ TsAdd(x, p) = TsAddUnsigned(x, p)
    BY <1>0, <1>1 DEF TsAdd
  <2>2. QED
    BY <2>1, TsAddUnsignedExact DEF Equiv
<1>2. CASE p < 0
  <2>1. -p \in 0..PicoPerSec /\ TsAdd(x, p) = TsSub(x, -p)
    BY <1>0, <1>2 DEF TsAdd
  <2>2. PICK k \in Int : TimeUnits(TsAdd(x, p)) = TimeUnits(x) - OffsetUnits(-p) + k * Span
    BY <2>1, TsSubExact
  <2>3. TimeUnits(x) \in Int
    BY UnitsAssumption DEF Times, TimeUnits, Units, UtcSize
  <2>4. TimeUnits(x) - OffsetUnits(-p) = TimeUnits(x) + OffsetUnits(p)
    BY <1>2, <2>3, OffsetUnitsType
  <2>5. QED
    BY <2>1, <2>2, <2>4, TsSubExact DEF Equiv
<1>3. QED
  BY <1>0, <1>1, <1>2

----------------------------------------------------------------------------
(* The raw coarse count.                                                   *)

\* fd_normalize_time() brings any count the hardware reports into a second.
LEMMA FixCoarseExact ==
  ASSUME NEW r \in RawTimes, InRange(r)
  PROVE  FixCoarse(r) \in Times /\ Equiv(TimeUnits(FixCoarse(r)), RawUnits(r))
<1> DEFINE y == FixCoarse(r)   R == RawSize   H == RawSize \div 2
<1>1. /\ r = [utc |-> r.utc, coarse |-> r.coarse, frac |-> r.frac]
      /\ r.utc \in 0..UtcSize-1 /\ r.coarse \in 0..R-1 /\ r.frac \in 0..FracPerCoarse-1
      /\ CoarsePerSec \in Nat \ {0} /\ FracPerCoarse \in Nat \ {0}
      /\ UtcSize \in Nat \ {0} /\ R \in Nat /\ H \in Int /\ H >= CoarsePerSec
  BY UnitsAssumption, RawAssumption DEF RawTimes, UtcSize
<1> HIDE DEF H
<1>2. r.utc \in Int /\ r.coarse \in Int /\ r.frac \in Int
  BY <1>1
<1>3. CASE r.coarse >= H
  <2>1. r.coarse >= R - CoarsePerSec
    BY <1>1, <1>3 DEF InRange, H
  <2>2. y = [utc |-> (r.utc - 1) % UtcSize, coarse |-> (r.coarse + CoarsePerSec) % R,
             frac |-> r.frac]
    BY <1>1, <1>3 DEF FixCoarse, H
  <2> DEFINE c == r.coarse + CoarsePerSec - R
  <2>3. c \in 0..CoarsePerSec-1 /\ c \in 0..R-1
    BY <1>1, <1>3, <2>1
  <2>4. (r.coarse + CoarsePerSec) % R = c
    <3>1. r.coarse + CoarsePerSec = 1 * R + c /\ R \in Nat \ {0}
      BY <1>1
    <3> HIDE DEF c
    <3>2. (1 * R + c) % R = c
      BY <2>3, <3>1, Residue
    <3>3. QED
      BY <3>1, <3>2
  <2>5. r.utc - 1 \in -1..UtcSize
    BY <1>1
  <2>6. Wraps(r.utc - 1, UtcSize)
    BY <1>1, <2>5, WrapOnce
  <2>7. PICK w \in {-1, 0, 1} : (r.utc - 1) % UtcSize = r.utc - 1 + w * UtcSize
    BY <2>6 DEF Wraps
  <2>8. Moved(r.utc, r.coarse - R, r.frac, 0, 0, 0, 1, w)
    <3>1. r.coarse - R \in Int /\ 0 \in Int /\ 1 \in Int /\ w \in Int
      BY <1>1, <1>2, <2>7
    <3>2. QED
      BY <1>2, <3>1, UnitsMoved
  <2>9. TimeUnits(y) = RawUnits(r) + w * Span
    <3>1. c = r.coarse - R - 0 - 0 + 1 * CoarsePerSec /\ r.frac = r.frac - 0 + 0 * FracPerCoarse
      BY <1>1, <1>2
    <3>2. TimeUnits(y) = Units(r.utc - 1 + w * UtcSize, c, r.frac)
      BY <2>2, <2>4, <2>7 DEF TimeUnits
    <3>3. RawUnits(r) = Units(r.utc, r.coarse - R, r.frac)
      BY <1>3 DEF RawUnits, H
    <3>4. TimeUnits(y) = RawUnits(r) - (0 * FracPerCoarse + 0) + w * Span
      BY <2>8, <3>1, <3>2, <3>3 DEF Moved
    <3>5. RawUnits(r) \in Int
      BY <1>1, <1>2, <3>3 DEF Units
    <3>6. QED
      BY <1>1, <3>4, <3>5
  <2>10. y \in Times
    BY <1>1, <2>2, <2>3, <2>4, <2>6 DEF Times, Wraps
  <2>11. QED
    BY <2>9, <2>10 DEF Equiv
<1>4. CASE r.coarse < H /\ r.coarse >= CoarsePerSec
  <2>1. r.coarse < 2 * CoarsePerSec
    BY <1>1, <1>2, <1>4 DEF InRange, H
  <2>2. y = [utc |-> (r.utc + 1) % UtcSize, coarse |-> r.coarse - CoarsePerSec,
             frac |-> r.frac]
    <3>1. ~(r.coarse >= RawSize \div 2)
      BY <1>1, <1>2, <1>4 DEF H
    <3>2. QED
      BY <1>1, <1>4, <3>1 DEF FixCoarse
  <2>3. r.coarse - CoarsePerSec \in 0..CoarsePerSec-1
    BY <1>1, <1>2, <1>4, <2>1
  <2>4. r.utc + 1 \in -1..UtcSize
    BY <1>1
  <2>5. Wraps(r.utc + 1, UtcSize)
    BY <1>1, <2>4, WrapOnce
  <2>6. PICK w \in {-1, 0, 1} : (r.utc + 1) % UtcSize = r.utc + 1 + w * UtcSize
    BY <2>5 DEF Wraps
  <2>7. Moved(r.utc, r.coarse, r.frac, 0, 0, 0, -1, w)
    <3>1. 0 \in Int /\ -1 \in Int /\ w \in Int
      BY <2>6
    <3>2. QED
      BY <1>2, <3>1, UnitsMoved
  <2>8. TimeUnits(y) = RawUnits(r) + w * Span
    <3>1. /\ r.coarse - CoarsePerSec = r.coarse - 0 - 0 + (-1) * CoarsePerSec
          /\ r.frac = r.frac - 0 + 0 * FracPerCoarse
          /\ r.utc + 1 + w * UtcSize = r.utc - (-1) + w * UtcSize
      BY <1>1, <1>2, <2>6
    <3>2. TimeUnits(y) = Units(r.utc + 1 + w * UtcSize, r.coarse - CoarsePerSec, r.frac)
      BY <2>2, <2>6 DEF TimeUnits
    <3>3. RawUnits(r) = Units(r.utc, r.coarse, r.frac)
      BY <1>1, <1>2, <1>4 DEF RawUnits, H
    <3>4. TimeUnits(y) = RawUnits(r) - (0 * FracPerCoarse + 0) + w * Span
      BY <2>7, <3>1, <3>2, <3>3 DEF Moved
    <3>5. RawUnits(r) \in Int
      BY <1>1, <1>2, <3>3 DEF Units
    <3>6. QED
      BY <1>1, <3>4, <3>5
  <2>9. y \in Times
    BY <1>1, <2>2, <2>3, <2>5 DEF Times, Wraps
  <2>10. QED
    BY <2>8, <2>9 DEF Equiv
<1>5. CASE r.coarse < H /\ r.coarse < CoarsePerSec
  <2>1. y = r
    BY <1>1, <1>2, <1>5 DEF FixCoarse, H
  <2>2. r \in Times
    BY <1>1, <1>2, <1>5 DEF Times
  <2>3. TimeUnits(r) = RawUnits(r) /\ RawUnits(r) \in Int
    BY <1>1, <1>2, <1>5 DEF TimeUnits, RawUnits, Units, H
  <2>4. TimeUnits(r) = RawUnits(r) + 0 * Span
    BY <2>3, SpanPositive
  <2>5. QED
    BY <2>1, <2>2, <2>4 DEF Equiv
<1>6. QED
  BY <1>1, <1>2, <1>3, <1>4, <1>5

----------------------------------------------------------------------------
(* The two copies of the arithmetic agree: fd-zio.c on words, fd-irq.c on  *)
(* struct fd_time.                                                         *)

FromAttr(a) == [utc |-> a.utcH * WordSize + a.utcL, coarse |-> a.coarse, frac |-> a.frac]

\* Two words are a number below UtcSize, and back.
LEMMA Words ==
  /\ \A h, l \in 0..WordSize-1 : h * WordSize + l \in 0..UtcSize-1
  /\ \A u \in 0..UtcSize-1 :
       /\ u \div WordSize \in 0..WordSize-1 /\ u % WordSize \in 0..WordSize-1
       /\ (u \div WordSize) * WordSize + (u % WordSize) = u
<1> DEFINE W == WordSize
<1>1. W \in Nat \ {0}
  BY UnitsAssumption
<1>2. ASSUME NEW h \in 0..W-1, NEW l \in 0..W-1 PROVE h * W + l \in 0..W*W-1
  <2>1. h * W <= (W - 1) * W /\ h * W >= 0
    BY <1>1
  <2>2. h * W \in Int /\ (W - 1) * W = W * W - W
    BY <1>1
  <2>3. QED
    BY <1>1, <2>1, <2>2
<1>3. ASSUME NEW u \in 0..W*W-1
      PROVE  u \div W \in 0..W-1 /\ u % W \in 0..W-1 /\ (u \div W) * W + (u % W) = u
  <2> DEFINE q == u \div W   r == u % W
  <2>1. W * W \in Nat /\ u \in Int /\ u >= 0 /\ u < W * W
    BY <1>1
  <2>2. q \in Int /\ r \in 0..W-1 /\ u = W * q + r
    BY <1>1, <2>1, DivMod
  <2> HIDE DEF q, r
  <2>3. ~(q <= -1)
    BY <1>1, <2>1, <2>2
  <2>4. ~(q >= W)
    BY <1>1, <2>1, <2>2
  <2>5. q \in 0..W-1 /\ q * W + r = u
    BY <1>1, <2>2, <2>3, <2>4
  <2>6. QED
    BY <2>2, <2>5 DEF q, r
<1>4. QED
  BY <1>2, <1>3 DEF UtcSize

\* A second that is borrowed from, or carried to, the low word.
Carried(h, l, s, b) ==
  ((h + b) % WordSize) * WordSize + ((l + s) % WordSize) = (h * WordSize + l + s) % UtcSize

\* A carry between the two words of the seconds leaves the number they make.
LEMMA WordCarry ==
  ASSUME NEW h \in 0..WordSize-1, NEW l \in 0..WordSize-1, NEW s \in {-1, 0, 1},
         NEW b \in {-1, 0, 1},
         \/ b = 0 /\ l + s \in 0..WordSize-1
         \/ b = -1 /\ l + s < 0
         \/ b = 1 /\ l + s >= WordSize
  PROVE  Carried(h, l, s, b)
<1> DEFINE W == WordSize   x == l + s   y == h + b   lo == x % W   hi == y % W
<1>1. W \in Nat \ {0} /\ W * W \in Nat /\ x \in -1..W /\ y \in -1..W
  BY UnitsAssumption
<1> HIDE DEF x, y
<1>2. Wraps(x, W) /\ Wraps(y, W)
  BY <1>1, WrapOnce
<1>3. PICK i \in {-1, 0, 1} : lo = x + i * W
  BY <1>2 DEF Wraps
<1>4. PICK j \in {-1, 0, 1} : hi = y + j * W
  BY <1>2 DEF Wraps
<1>5. lo \in 0..W-1 /\ hi \in 0..W-1
  BY <1>2 DEF Wraps
<1> HIDE DEF lo, hi
<1>6. i = -b
  BY <1>1, <1>3, <1>5 DEF x
<1>7. hi * W + lo = (h * W + l + s) + j * (W * W)
  <2>1. hi * W = h * W + b * W + j * (W * W)
    BY <1>1, <1>4 DEF y
  <2>2. lo = l + s - b * W
    BY <1>1, <1>3, <1>6 DEF x
  <2>3. h * W \in Int /\ b * W \in Int /\ j * (W * W) \in Int
    BY <1>1, <1>4
  <2>4. QED
    BY <2>1, <2>2, <2>3
<1>8. hi * W + lo \in 0..UtcSize-1
  BY <1>5, Words
<1> DEFINE c == hi * W + lo
<1>9. (-j) * UtcSize + c = h * W + l + s
  BY <1>1, <1>4, <1>5, <1>7 DEF UtcSize
<1>10. UtcSize \in Nat \ {0} /\ -j \in Int
  BY UnitsAssumption, <1>4 DEF UtcSize
<1> HIDE DEF c
<1>11. c \in 0..UtcSize-1
  BY <1>8 DEF c
<1>12. ((-j) * UtcSize + c) % UtcSize = c
  BY <1>10, <1>11, Residue
<1>13. c = ((h + b) % WordSize) * WordSize + ((l + s) % WordSize)
  BY Zenon DEF c, lo, hi, x, y
<1>14. (h * WordSize + l + s) % UtcSize = c
  BY <1>9, <1>12, Zenon
<1>15. QED
  BY <1>13, <1>14, Zenon DEF Carried

\* fd_attr_sub() is fd_ts_sub() on words.
LEMMA AttrSubAgrees ==
  ASSUME NEW a \in AttrTimes, NEW p \in 0..PicoPerSec
  PROVE  AttrSub(a, p) \in AttrTimes /\ FromAttr(AttrSub(a, p)) = TsSub(FromAttr(a), p)
<1> DEFINE dc == SplitPico(p).coarse   df == SplitPico(p).frac
           b == IF a.frac >= df THEN 0 ELSE 1
           s == IF a.coarse >= dc + b THEN 0 ELSE 1
           w == IF a.utcL >= s THEN 0 ELSE 1
           x == FromAttr(a)   y == TsSub(x, p)   z == AttrSub(a, p)
<1>1. /\ a.utcH \in 0..WordSize-1 /\ a.utcL \in 0..WordSize-1
      /\ a.coarse \in 0..CoarsePerSec-1 /\ a.frac \in 0..FracPerCoarse-1
      /\ WordSize \in Nat \ {0} /\ UtcSize \in Nat \ {0}
  BY UnitsAssumption DEF AttrTimes, UtcSize
<1>2. x \in Times
  BY <1>1, Words DEF Times, FromAttr
<1>3. y \in Times
  BY <1>2, TsSubExact
<1>4. y = [utc    |-> (x.utc - s) % UtcSize,
           coarse |-> a.coarse - dc - b + s * CoarsePerSec,
           frac   |-> a.frac - df + b * FracPerCoarse]
  BY DEF TsSub, FromAttr
<1>5. z = [utcH |-> (a.utcH - w) % WordSize, utcL |-> (a.utcL - s) % WordSize,
           coarse |-> a.coarse - dc - b + s * CoarsePerSec,
           frac   |-> a.frac - df + b * FracPerCoarse]
  BY DEF AttrSub
<1>6. /\ s \in {0, 1}
      /\ (w = 0 /\ a.utcL - s \in 0..WordSize-1) \/ (w = 1 /\ a.utcL - s < 0)
  BY <1>1
<1> HIDE DEF b, s, w, dc, df, x, y, z
<1>7. Carried(a.utcH, a.utcL, -s, -w)
  <2>1. -s \in {-1, 0, 1} /\ -w \in {-1, 0, 1} /\ a.utcL + (-s) = a.utcL - s
    BY <1>1, <1>6
  <2>2. (-w = 0 /\ a.utcL + (-s) \in 0..WordSize-1) \/ (-w = -1 /\ a.utcL + (-s) < 0)
    BY <1>1, <1>6, <2>1
  <2>3. QED
    BY <1>1, <2>1, <2>2, WordCarry
<1>8. z.utcH * WordSize + z.utcL = y.utc
  <2>1. z.utcH = (a.utcH + (-w)) % WordSize /\ z.utcL = (a.utcL + (-s)) % WordSize
    BY <1>1, <1>5, <1>6
  <2>2. y.utc = (a.utcH * WordSize + a.utcL + (-s)) % UtcSize
    <3>1. a.utcH * WordSize + a.utcL - s = a.utcH * WordSize + a.utcL + (-s)
      BY <1>1, <1>6
    <3>2. QED
      BY <1>4, <3>1 DEF x, FromAttr
  <2>3. QED
    BY <1>7, <2>1, <2>2, Zenon DEF Carried
<1>9. z.coarse = y.coarse /\ z.frac = y.frac
  BY <1>4, <1>5
<1>10. z.utcH \in 0..WordSize-1 /\ z.utcL \in 0..WordSize-1
  <2>1. a.utcH - w \in -1..WordSize /\ a.utcL - s \in -1..WordSize
    BY <1>1, <1>6
  <2>2. Wraps(a.utcH - w, WordSize) /\ Wraps(a.utcL - s, WordSize)
    BY <1>1, <2>1, WrapOnce
  <2>3. QED
    BY <1>5, <2>2 DEF Wraps
<1>11. z \in AttrTimes
  BY <1>3, <1>5, <1>9, <1>10 DEF Times, AttrTimes
<1>12. FromAttr(z) = y
  BY <1>4, <1>8, <1>9 DEF FromAttr
<1>13. QED
  BY <1>11, <1>12 DEF x, y, z

\* fd_attr_add() is fd_ts_add() on words.
LEMMA AttrAddAgrees ==
  ASSUME NEW a \in AttrTimes, NEW p \in 0..PicoPerSec
  PROVE  /\ AttrAdd(a, p) \in AttrTimes
         /\ FromAttr(AttrAdd(a, p)) = TsAddUnsigned(FromAttr(a), p)
<1> DEFINE dc == SplitPico(p).coarse   df == SplitPico(p).frac
           b == IF a.frac + df >= FracPerCoarse THEN 1 ELSE 0
           s == IF a.coarse + dc + b >= CoarsePerSec THEN 1 ELSE 0
           w == IF a.utcL + s >= WordSize THEN 1 ELSE 0
           x == FromAttr(a)   y == TsAddUnsigned(x, p)   z == AttrAdd(a, p)
<1>1. /\ a.utcH \in 0..WordSize-1 /\ a.utcL \in 0..WordSize-1
      /\ a.coarse \in 0..CoarsePerSec-1 /\ a.frac \in 0..FracPerCoarse-1
      /\ WordSize \in Nat \ {0} /\ UtcSize \in Nat \ {0}
  BY UnitsAssumption DEF AttrTimes, UtcSize
<1>2. x \in Times
  BY <1>1, Words DEF Times, FromAttr
<1>3. y \in Times
  BY <1>2, TsAddUnsignedExact
<1>4. y = [utc    |-> (x.utc + s) % UtcSize,
           coarse |-> a.coarse + dc + b - s * CoarsePerSec,
           frac   |-> a.frac + df - b * FracPerCoarse]
  BY DEF TsAddUnsigned, FromAttr
<1>5. z = [utcH |-> (a.utcH + w) % WordSize, utcL |-> (a.utcL + s) % WordSize,
           coarse |-> a.coarse + dc + b - s * CoarsePerSec,
           frac   |-> a.frac + df - b * FracPerCoarse]
  BY DEF AttrAdd
<1>6. s \in {0, 1}
  OBVIOUS
<1> HIDE DEF b, s, dc, df, x, y, z
<1>7. \/ w = 0 /\ a.utcL + s \in 0..WordSize-1
      \/ w = 1 /\ a.utcL + s >= WordSize
  BY <1>1, <1>6
<1> HIDE DEF w
<1>8. Carried(a.utcH, a.utcL, s, w)
  <2>1. s \in {-1, 0, 1} /\ w \in {-1, 0, 1}
    BY <1>6, <1>7
  <2>2. QED
    BY <1>1, <1>7, <2>1, WordCarry
<1>9. z.utcH * WordSize + z.utcL = y.utc
  <2>1. z.utcH = (a.utcH + w) % WordSize /\ z.utcL = (a.utcL + s) % WordSize
    BY <1>5
  <2>2. y.utc = (a.utcH * WordSize + a.utcL + s) % UtcSize
    BY <1>4 DEF x, FromAttr
  <2>3. QED
    BY <1>8, <2>1, <2>2, Zenon DEF Carried
<1>10. z.coarse = y.coarse /\ z.frac = y.frac
  BY <1>4, <1>5
<1>11. z.utcH \in 0..WordSize-1 /\ z.utcL \in 0..WordSize-1
  <2>1. a.utcH + w \in -1..WordSize /\ a.utcL + s \in -1..WordSize
    BY <1>1, <1>6, <1>7
  <2>2. Wraps(a.utcH + w, WordSize) /\ Wraps(a.utcL + s, WordSize)
    BY <1>1, <2>1, WrapOnce
  <2>3. QED
    BY <1>5, <2>2 DEF Wraps
<1>12. z \in AttrTimes
  BY <1>3, <1>5, <1>10, <1>11 DEF Times, AttrTimes
<1>13. FromAttr(z) = y
  BY <1>4, <1>9, <1>10 DEF FromAttr
<1>14. QED
  BY <1>12, <1>13 DEF x, y, z

\* The words of a time are that time.
LEMMA ToAttrExact ==
  ASSUME NEW x \in Times
  PROVE  ToAttr(x) \in AttrTimes /\ AttrUnits(ToAttr(x)) = TimeUnits(x)
<1>1. /\ x.utc \in 0..UtcSize-1
      /\ x.coarse \in 0..CoarsePerSec-1 /\ x.frac \in 0..FracPerCoarse-1
  BY DEF Times
<1>2. QED
  BY <1>1, Words DEF ToAttr, AttrTimes, AttrUnits, TimeUnits

\* fd_apply_offset() is exact, and leaves a normalized time.
LEMMA ApplyOffsetExact ==
  ASSUME NEW a \in AttrTimes, NEW p \in Offsets
  PROVE  /\ ApplyOffset(a, p) \in AttrTimes
         /\ Equiv(AttrUnits(ApplyOffset(a, p)), AttrUnits(a) + OffsetUnits(p))
<1>0. p \in Int /\ PicoPerSec \in Nat /\ -PicoPerSec <= p /\ p <= PicoPerSec
  BY UnitsAssumption DEF Offsets, PicoPerSec
<1>1. FromAttr(a) \in Times
  BY Words DEF Times, AttrTimes, FromAttr
<1>2. \A x \in AttrTimes : AttrUnits(x) = TimeUnits(FromAttr(x))
  BY DEF AttrUnits, TimeUnits, FromAttr
<1>3. CASE p = 0
  <2>1. OffsetUnits(p) = 0
    <3>1. p * FracPerCoarse = 0 * PicoPerCoarse + 0
      BY <1>3, UnitsAssumption
    <3>2. (p * FracPerCoarse) \div PicoPerCoarse = 0
      BY <1>3, UnitsAssumption
    <3>3. QED
      BY <1>3, <3>2 DEF OffsetUnits
  <2>2. AttrUnits(a) \in Int
    BY UnitsAssumption DEF AttrTimes, AttrUnits, Units
  <2>3. AttrUnits(a) = AttrUnits(a) + OffsetUnits(p) + 0 * Span
    BY <2>1, <2>2, SpanPositive
  <2>4. QED
    BY <1>3, <2>3 DEF ApplyOffset, Equiv
<1>4. CASE p > 0
  <2>1. p \in 0..PicoPerSec /\ ApplyOffset(a, p) = AttrAdd(a, p)
    BY <1>0, <1>4 DEF ApplyOffset
  <2>2. ApplyOffset(a, p) \in AttrTimes
        /\ FromAttr(ApplyOffset(a, p)) = TsAdd(FromAttr(a), p)
    BY <1>0, <1>4, <2>1, AttrAddAgrees DEF TsAdd
  <2>3. QED
    BY <1>1, <1>2, <2>2, TsAddExact
<1>5. CASE p < 0
  <2>1. -p \in 0..PicoPerSec /\ ApplyOffset(a, p) = AttrSub(a, -p)
    BY <1>0, <1>5 DEF ApplyOffset
  <2>2. ApplyOffset(a, p) \in AttrTimes
        /\ FromAttr(ApplyOffset(a, p)) = TsAdd(FromAttr(a), p)
    BY <1>0, <1>5, <2>1, AttrSubAgrees DEF TsAdd
  <2>3. QED
    BY <1>1, <1>2, <2>2, TsAddExact
<1>6. QED
  BY <1>0, <1>3, <1>4, <1>5

\* fd_normalize_time() is exact, for every count the hardware reports.
LEMMA NormalizeExact ==
  ASSUME NEW r \in RawTimes, InRange(r), NEW p \in Offsets
  PROVE  /\ NormalizeTime(r, p) \in Times
         /\ Equiv(TimeUnits(NormalizeTime(r, p)), RawUnits(r) + OffsetUnits(p))
<1> DEFINE x == FixCoarse(r)   y == NormalizeTime(r, p)
<1>1. x \in Times /\ Equiv(TimeUnits(x), RawUnits(r))
  BY FixCoarseExact
<1>2. y \in Times /\ Equiv(TimeUnits(y), TimeUnits(x) + OffsetUnits(p))
  BY <1>1, TsAddExact DEF NormalizeTime
<1>3. TimeUnits(x) \in Int /\ TimeUnits(y) \in Int
  BY <1>1, <1>2, UnitsAssumption DEF Times, TimeUnits, Units, UtcSize
<1>4. RawUnits(r) \in Int
  BY UnitsAssumption, RawAssumption DEF RawTimes, RawUnits, Units, UtcSize
<1> HIDE DEF x, y
<1>5. Equiv(TimeUnits(y), RawUnits(r) + OffsetUnits(p))
  BY <1>1, <1>2, <1>3, <1>4, EquivStep, OffsetUnitsType
<1>6. QED
  BY <1>2, <1>5 DEF y

\* Counts of fractions are integers.
LEMMA UnitsInt ==
  /\ \A x \in Times : TimeUnits(x) \in Int
  /\ \A a \in AttrTimes : AttrUnits(a) \in Int
  /\ \A r \in RawTimes : RawUnits(r) \in Int
<1>1. \A x \in Times : TimeUnits(x) \in Int
  BY UnitsAssumption DEF Times, TimeUnits, Units, UtcSize
<1>2. \A a \in AttrTimes : AttrUnits(a) \in Int
  BY UnitsAssumption DEF AttrTimes, AttrUnits, Units
<1>3. \A r \in RawTimes : RawUnits(r) \in Int
  BY UnitsAssumption, RawAssumption DEF RawTimes, RawUnits, Units, UtcSize
<1>4. QED
  BY <1>1, <1>2, <1>3

\* No offset is no fractions.
LEMMA NoOffset == 0 \in Offsets /\ OffsetUnits(0) = 0
<1>1. 0 \in Offsets
  BY UnitsAssumption DEF Offsets, PicoPerSec
<1>2. OffsetUnits(0) \in Int /\ (0 * FracPerCoarse) \div PicoPerCoarse = 0
  BY <1>1, OffsetUnitsType, UnitsAssumption
<1>3. QED
  BY <1>1, <1>2 DEF OffsetUnits
----------------------------------------------------------------------------
(* Counts above their limit, as the additions of some programs leave them. *)

\* A conversion to fractions splits at the coarse unit, below zero too.
LEMMA Fractions ==
  ASSUME NEW p \in Int
  PROVE  /\ p \div PicoPerCoarse \in Int
         /\ ((p % PicoPerCoarse) * FracPerCoarse) \div PicoPerCoarse \in 0..FracPerCoarse-1
         /\ (p * FracPerCoarse) \div PicoPerCoarse
              = (p \div PicoPerCoarse) * FracPerCoarse
                + ((p % PicoPerCoarse) * FracPerCoarse) \div PicoPerCoarse
<1> DEFINE F == FracPerCoarse   K == PicoPerCoarse   q == p \div K   r == p % K
           a == q * F   b == r * F   d == b \div K
<1>1. F \in Nat \ {0} /\ K \in Nat \ {0}
  BY UnitsAssumption
<1>2. q \in Int /\ r \in 0..K-1 /\ p = K * q + r
  BY <1>1, DivMod
<1> HIDE DEF q, r
<1>3. a \in Int /\ b \in Int /\ b >= 0 /\ b <= (K - 1) * F /\ p * F = K * a + b
  BY <1>1, <1>2
<1> HIDE DEF a, b
<1>4. d \in Int /\ b % K \in 0..K-1 /\ b = K * d + (b % K)
  BY <1>1, <1>3, DivMod
<1> DEFINE e == b % K
<1> HIDE DEF d, e
<1>5. d \in Int /\ e \in 0..K-1 /\ b = K * d + e
  BY <1>4 DEF e
<1>6. d \in 0..F-1
  <2>1. ~(d <= -1)
    BY <1>1, <1>3, <1>5
  <2>2. ~(d >= F)
    BY <1>1, <1>3, <1>5
  <2>3. QED
    BY <1>1, <1>5, <2>1, <2>2
<1>7. (p * F) \div K = a + d
  <2>1. (K * a + b) \div K = a + b \div K
    BY <1>1, <1>3, DivShift
  <2>2. QED
    BY <1>3, <2>1 DEF d
<1>8. QED
  BY <1>2, <1>6, <1>7 DEF a, b, d, q, r

\* The seconds counter wraps.
LEMMA Turns ==
  ASSUME NEW u \in Int, NEW c \in Int, NEW f \in Int
  PROVE  u % UtcSize \in 0..UtcSize-1 /\ Equiv(Units(u % UtcSize, c, f), Units(u, c, f))
<1> DEFINE M == UtcSize   C == CoarsePerSec   F == FracPerCoarse   q == u \div M   r == u % M
<1>1. M \in Nat \ {0} /\ C \in Int /\ F \in Int
  BY UnitsAssumption DEF UtcSize
<1> HIDE DEF M
<1>2. q \in Int /\ r \in 0..M-1 /\ u = M * q + r
  BY <1>1, DivMod
<1> HIDE DEF q, r
<1>3. r = u - 0 + (-q) * M /\ c = c - 0 - 0 + 0 * C /\ f = f - 0 + 0 * F /\ -q \in Int
  BY <1>1, <1>2
<1>4. Moved(u, c, f, 0, 0, 0, 0, -q)
  <2>1. 0 \in Int
    OBVIOUS
  <2>2. QED
    BY <1>3, <2>1, UnitsMoved
<1>5. Units(r, c, f) = Units(u, c, f) - (0 * F + 0) + (-q) * Span
  BY <1>3, <1>4 DEF Moved, M
<1>6. Units(u, c, f) \in Int /\ (-q) * Span \in Int /\ 0 * F + 0 = 0
  BY <1>1, <1>2, SpanPositive DEF Units
<1>7. Units(r, c, f) = Units(u, c, f) + (-q) * Span
  BY <1>5, <1>6
<1>8. QED
  BY <1>2, <1>3, <1>7 DEF Equiv, r, M

\* Equal up to turns is an equality that sums respect.
LEMMA EquivSum ==
  ASSUME NEW x \in Int, NEW y \in Int, NEW v \in Int, NEW w \in Int, Equiv(x, y), Equiv(v, w)
  PROVE  Equiv(x + v, y + w) /\ Equiv(x - v, y - w)
<1>1. PICK j \in Int : x = y + j * Span
  BY DEF Equiv
<1>2. PICK k \in Int : v = w + k * Span
  BY DEF Equiv
<1>3. /\ j + k \in Int /\ x + v = y + w + (j + k) * Span
      /\ j - k \in Int /\ x - v = y - w + (j - k) * Span
  BY <1>1, <1>2, SpanPositive
<1>4. QED
  BY <1>3 DEF Equiv

\* Equiv is transitive.
LEMMA EquivTrans ==
  ASSUME NEW x \in Int, NEW y \in Int, NEW z \in Int, Equiv(x, y), Equiv(y, z)
  PROVE  Equiv(x, z)
<1>1. PICK j \in Int : x = y + j * Span
  BY DEF Equiv
<1>2. PICK k \in Int : y = z + k * Span
  BY DEF Equiv
<1>3. j + k \in Int /\ x = z + (j + k) * Span
  BY <1>1, <1>2, SpanPositive
<1>4. QED
  BY <1>3 DEF Equiv

\* Equiv is reflexive.
LEMMA EquivSelf ==
  ASSUME NEW x \in Int
  PROVE  Equiv(x, x)
<1>1. x = x + 0 * Span
  BY SpanPositive
<1>2. QED
  BY <1>1 DEF Equiv

\* A second and a coarse unit that are carried, or borrowed, change no count of fractions.
Shifted(u, c, f, s, dc, df, g) ==
  Equiv(Units((u + s) % UtcSize, c + dc + g - s * CoarsePerSec, f + df - g * FracPerCoarse),
        Units(u, c, f) + (dc * FracPerCoarse + df))

\* Units of a sum are the sum of the units.
LEMMA UnitsShifted ==
  ASSUME NEW u \in Int, NEW c \in Int, NEW f \in Int, NEW s \in Int,
         NEW dc \in Int, NEW df \in Int, NEW g \in Int
  PROVE  Shifted(u, c, f, s, dc, df, g)
<1> DEFINE c1 == c + dc + g - s * CoarsePerSec   f1 == f + df - g * FracPerCoarse
<1>1. CoarsePerSec \in Int /\ FracPerCoarse \in Int
  BY UnitsAssumption
<1>2. c1 \in Int /\ f1 \in Int
  BY <1>1
<1>4. UtcSize \in Int
  BY UnitsAssumption DEF UtcSize
<1>5. Moved(u, c, f, -dc, -df, -g, -s, 0)
  <2>1. -dc \in Int /\ -df \in Int /\ -g \in Int /\ -s \in Int /\ 0 \in Int
    BY <1>1
  <2>2. QED
    BY <1>2, <2>1, UnitsMoved
<1>6. /\ u + s = u - (-s) + 0 * UtcSize
      /\ c1 = c - (-dc) - (-g) + (-s) * CoarsePerSec
      /\ f1 = f - (-df) + (-g) * FracPerCoarse
  BY <1>1, <1>2, <1>4
<1>7. Units(u + s, c1, f1) = Units(u, c, f) - ((-dc) * FracPerCoarse + (-df)) + 0 * Span
  BY <1>5, <1>6 DEF Moved
<1>8. /\ -((-dc) * FracPerCoarse + (-df)) = dc * FracPerCoarse + df
      /\ (-dc) * FracPerCoarse + (-df) \in Int /\ Units(u, c, f) \in Int /\ Span \in Int
  BY <1>1, <1>2, SpanPositive DEF Units
<1>9. Units(u + s, c1, f1) = Units(u, c, f) + (dc * FracPerCoarse + df)
  BY <1>7, <1>8
<1>10. Equiv(Units((u + s) % UtcSize, c1, f1), Units(u + s, c1, f1))
  <2>1. u + s \in Int
    BY <1>1, <1>2
  <2> HIDE DEF c1, f1
  <2>2. QED
    BY <1>2, <2>1, Turns
<1>11. QED
  BY <1>9, <1>10 DEF Shifted

\* Times whose counts may be above their limit.
LooseTimes == [utcH : 0..WordSize-1, utcL : 0..WordSize-1, coarse : Nat, frac : Nat]

\* What an offset does to such a time: it is moved by the offset, and no count gets
\* above its limit that was not.
Offset(a, y, units) ==
  /\ y \in LooseTimes
  /\ y.coarse <= a.coarse \/ y.coarse < CoarsePerSec
  /\ y.frac <= a.frac \/ y.frac < FracPerCoarse
  /\ Equiv(AttrUnits(y), AttrUnits(a) + units)

\* A split of less than a second.
LEMMA SplitBelow ==
  ASSUME NEW p \in 0..PicoPerSec-1
  PROVE  /\ SplitPico(p).coarse \in 0..CoarsePerSec-1
         /\ SplitPico(p).frac \in 0..FracPerCoarse-1
         /\ SplitPico(p).coarse * FracPerCoarse + SplitPico(p).frac = OffsetUnits(p)
<1> DEFINE C == CoarsePerSec   K == PicoPerCoarse   q == p \div K   r == p % K
<1>1. C \in Nat \ {0} /\ K \in Nat \ {0} /\ p \in Nat /\ p < C * K /\ p \in 0..PicoPerSec
  BY UnitsAssumption DEF PicoPerSec
<1>2. q \in Int /\ r \in 0..K-1 /\ p = K * q + r
  BY <1>1, DivMod
<1>3. SplitPico(p).coarse = q
  BY DEF SplitPico
<1> HIDE DEF q, r
<1>4. ~(q >= C)
  BY <1>1, <1>2
<1>5. /\ SplitPico(p).coarse \in 0..C /\ SplitPico(p).frac \in 0..FracPerCoarse-1
      /\ SplitPico(p).coarse * FracPerCoarse + SplitPico(p).frac
           = (p * FracPerCoarse) \div PicoPerCoarse
  BY <1>1, SplitExact
<1>6. q \in 0..C-1
  BY <1>1, <1>2, <1>3, <1>4, <1>5
<1>7. QED
  BY <1>1, <1>3, <1>5, <1>6 DEF OffsetUnits
\* fd_attr_add() on counts above their limit, ...
LEMMA AttrAddLoose ==
  ASSUME NEW a \in LooseTimes, NEW p \in 0..PicoPerSec-1
  PROVE  Offset(a, AttrAdd(a, p), OffsetUnits(p))
<1> DEFINE dc == SplitPico(p).coarse   df == SplitPico(p).frac
           b == IF a.frac + df >= FracPerCoarse THEN 1 ELSE 0
           s == IF a.coarse + dc + b >= CoarsePerSec THEN 1 ELSE 0
           w == IF a.utcL + s >= WordSize THEN 1 ELSE 0
           y == AttrAdd(a, p)
<1>1. /\ a.utcH \in 0..WordSize-1 /\ a.utcL \in 0..WordSize-1
      /\ a.coarse \in Nat /\ a.frac \in Nat
      /\ WordSize \in Nat \ {0} /\ CoarsePerSec \in Nat \ {0} /\ FracPerCoarse \in Nat \ {0}
      /\ dc \in 0..CoarsePerSec-1 /\ df \in 0..FracPerCoarse-1
      /\ dc * FracPerCoarse + df = OffsetUnits(p)
  BY UnitsAssumption, SplitBelow DEF LooseTimes
<1>2. y = [utcH |-> (a.utcH + w) % WordSize, utcL |-> (a.utcL + s) % WordSize,
           coarse |-> a.coarse + dc + b - s * CoarsePerSec,
           frac   |-> a.frac + df - b * FracPerCoarse]
  BY DEF AttrAdd
<1> HIDE DEF dc, df, y
<1>3. /\ \/ b = 0 /\ a.frac + df < FracPerCoarse
         \/ b = 1 /\ a.frac + df >= FracPerCoarse
      /\ \/ s = 0 /\ a.coarse + dc + b < CoarsePerSec
         \/ s = 1 /\ a.coarse + dc + b >= CoarsePerSec
  BY <1>1
<1> HIDE DEF b, s
<1>4. \/ w = 0 /\ a.utcL + s \in 0..WordSize-1
      \/ w = 1 /\ a.utcL + s >= WordSize
  BY <1>1, <1>3
<1> HIDE DEF w
<1>5. s \in {-1, 0, 1} /\ w \in {-1, 0, 1} /\ b \in Int
  BY <1>3, <1>4
<1>6. Carried(a.utcH, a.utcL, s, w)
  BY <1>1, <1>4, <1>5, WordCarry
<1>7. Equiv(AttrUnits(y), AttrUnits(a) + OffsetUnits(p))
  <2> DEFINE u == a.utcH * WordSize + a.utcL
  <2>1. /\ u \in Int /\ s \in Int
        /\ a.coarse \in Int /\ a.frac \in Int /\ dc \in Int /\ df \in Int /\ b \in Int
    BY <1>1, <1>5
  <2> HIDE DEF u
  <2>2. Shifted(u, a.coarse, a.frac, s, dc, df, b)
    BY <2>1, UnitsShifted
  <2>3. y.utcH * WordSize + y.utcL = (u + s) % UtcSize
    BY <1>2, <1>6 DEF Carried, u
  <2>4. AttrUnits(y) = Units((u + s) % UtcSize, a.coarse + dc + b - s * CoarsePerSec,
                             a.frac + df - b * FracPerCoarse)
    BY <1>2, <2>3 DEF AttrUnits
  <2>5. AttrUnits(a) = Units(u, a.coarse, a.frac)
    BY DEF AttrUnits, u
  <2>6. QED
    BY <1>1, <2>2, <2>4, <2>5 DEF Shifted
<1>8. /\ y.coarse \in Nat /\ (y.coarse <= a.coarse \/ y.coarse < CoarsePerSec)
      /\ y.frac \in Nat /\ (y.frac <= a.frac \/ y.frac < FracPerCoarse)
  <2>1. y.coarse = a.coarse + dc + b - s * CoarsePerSec
        /\ y.frac = a.frac + df - b * FracPerCoarse
    BY <1>2
  <2>2. y.frac \in Nat /\ (y.frac <= a.frac \/ y.frac < FracPerCoarse)
    BY <1>1, <1>3, <2>1
  <2>3. y.coarse \in Nat /\ (y.coarse <= a.coarse \/ y.coarse < CoarsePerSec)
    BY <1>1, <1>3, <2>1
  <2>4. QED
    BY <2>2, <2>3
<1>9. y.utcH \in 0..WordSize-1 /\ y.utcL \in 0..WordSize-1
  <2>1. a.utcH + w \in -1..WordSize /\ a.utcL + s \in -1..WordSize
    BY <1>1, <1>3, <1>4
  <2>2. Wraps(a.utcH + w, WordSize) /\ Wraps(a.utcL + s, WordSize)
    BY <1>1, <2>1, WrapOnce
  <2>3. QED
    BY <1>2, <2>2 DEF Wraps
<1>10. y \in LooseTimes
  BY <1>2, <1>8, <1>9 DEF LooseTimes
<1>11. QED
  BY <1>7, <1>8, <1>10 DEF Offset, y

\* ... fd_attr_sub() on them, ...
LEMMA AttrSubLoose ==
  ASSUME NEW a \in LooseTimes, NEW p \in 0..PicoPerSec-1
  PROVE  Offset(a, AttrSub(a, p), -OffsetUnits(p))
<1> DEFINE dc == SplitPico(p).coarse   df == SplitPico(p).frac
           b == IF a.frac >= df THEN 0 ELSE 1
           s == IF a.coarse >= dc + b THEN 0 ELSE 1
           w == IF a.utcL >= s THEN 0 ELSE 1
           y == AttrSub(a, p)
<1>1. /\ a.utcH \in 0..WordSize-1 /\ a.utcL \in 0..WordSize-1
      /\ a.coarse \in Nat /\ a.frac \in Nat
      /\ WordSize \in Nat \ {0} /\ CoarsePerSec \in Nat \ {0} /\ FracPerCoarse \in Nat \ {0}
      /\ dc \in 0..CoarsePerSec-1 /\ df \in 0..FracPerCoarse-1
      /\ dc * FracPerCoarse + df = OffsetUnits(p)
  BY UnitsAssumption, SplitBelow DEF LooseTimes
<1>2. y = [utcH |-> (a.utcH - w) % WordSize, utcL |-> (a.utcL - s) % WordSize,
           coarse |-> a.coarse - dc - b + s * CoarsePerSec,
           frac   |-> a.frac - df + b * FracPerCoarse]
  BY DEF AttrSub
<1> HIDE DEF dc, df, y
<1>3. /\ \/ b = 0 /\ a.frac >= df
         \/ b = 1 /\ a.frac < df
      /\ \/ s = 0 /\ a.coarse >= dc + b
         \/ s = 1 /\ a.coarse < dc + b
  BY <1>1
<1> HIDE DEF b, s
<1>4. \/ w = 0 /\ a.utcL - s \in 0..WordSize-1
      \/ w = 1 /\ a.utcL - s < 0
  BY <1>1, <1>3
<1> HIDE DEF w
<1>5. /\ -s \in {-1, 0, 1} /\ -w \in {-1, 0, 1} /\ -b \in Int /\ s \in Int /\ w \in Int
      /\ b \in Int
  BY <1>3, <1>4
<1>6. Carried(a.utcH, a.utcL, -s, -w)
  <2>1. a.utcL + (-s) = a.utcL - s
    BY <1>1, <1>5
  <2>2. (-w = 0 /\ a.utcL + (-s) \in 0..WordSize-1) \/ (-w = -1 /\ a.utcL + (-s) < 0)
    BY <1>1, <1>4, <2>1
  <2>3. QED
    BY <1>1, <1>5, <2>2, WordCarry
<1>7. Equiv(AttrUnits(y), AttrUnits(a) + (-OffsetUnits(p)))
  <2> DEFINE u == a.utcH * WordSize + a.utcL
  <2>1. /\ u \in Int /\ -s \in Int
        /\ a.coarse \in Int /\ a.frac \in Int /\ -dc \in Int /\ -df \in Int /\ -b \in Int
    BY <1>1, <1>5
  <2> HIDE DEF u
  <2>2. Shifted(u, a.coarse, a.frac, -s, -dc, -df, -b)
    BY <2>1, UnitsShifted
  <2>3. /\ a.utcH + (-w) = a.utcH - w /\ a.utcL + (-s) = a.utcL - s
        /\ a.coarse + (-dc) + (-b) - (-s) * CoarsePerSec
             = a.coarse - dc - b + s * CoarsePerSec
        /\ a.frac + (-df) - (-b) * FracPerCoarse = a.frac - df + b * FracPerCoarse
        /\ (-dc) * FracPerCoarse + (-df) = -(dc * FracPerCoarse + df)
    <3>1. /\ (-s) * CoarsePerSec = -(s * CoarsePerSec) /\ s * CoarsePerSec \in Int
          /\ (-b) * FracPerCoarse = -(b * FracPerCoarse) /\ b * FracPerCoarse \in Int
          /\ (-dc) * FracPerCoarse = -(dc * FracPerCoarse) /\ dc * FracPerCoarse \in Int
      BY <1>1, <1>5
    <3>2. a.utcH + (-w) = a.utcH - w /\ a.utcL + (-s) = a.utcL - s
      BY <1>1, <1>5
    <3>3. a.frac + (-df) - (-b) * FracPerCoarse = a.frac - df + b * FracPerCoarse
      BY <1>1, <3>1
    <3>4. a.coarse + (-dc) + (-b) - (-s) * CoarsePerSec
            = a.coarse - dc - b + s * CoarsePerSec
      BY <1>1, <1>5, <3>1
    <3>5. (-dc) * FracPerCoarse + (-df) = -(dc * FracPerCoarse + df)
      BY <1>1, <3>1
    <3>6. QED
      BY <3>2, <3>3, <3>4, <3>5
  <2>4. y.utcH * WordSize + y.utcL = (u + (-s)) % UtcSize
    BY <1>2, <1>6, <2>3 DEF Carried, u
  <2>5. AttrUnits(y) = Units((u + (-s)) % UtcSize,
                             a.coarse + (-dc) + (-b) - (-s) * CoarsePerSec,
                             a.frac + (-df) - (-b) * FracPerCoarse)
    BY <1>2, <2>3, <2>4 DEF AttrUnits
  <2>6. AttrUnits(a) = Units(u, a.coarse, a.frac)
    BY DEF AttrUnits, u
  <2>7. QED
    BY <1>1, <2>2, <2>3, <2>5, <2>6 DEF Shifted
<1>8. /\ y.coarse \in Nat /\ (y.coarse <= a.coarse \/ y.coarse < CoarsePerSec)
      /\ y.frac \in Nat /\ (y.frac <= a.frac \/ y.frac < FracPerCoarse)
  <2>1. y.coarse = a.coarse - dc - b + s * CoarsePerSec
        /\ y.frac = a.frac - df + b * FracPerCoarse
    BY <1>2
  <2>2. y.frac \in Nat /\ (y.frac <= a.frac \/ y.frac < FracPerCoarse)
    BY <1>1, <1>3, <2>1
  <2>3. y.coarse \in Nat /\ (y.coarse <= a.coarse \/ y.coarse < CoarsePerSec)
    BY <1>1, <1>3, <2>1
  <2>4. QED
    BY <2>2, <2>3
<1>9. y.utcH \in 0..WordSize-1 /\ y.utcL \in 0..WordSize-1
  <2>1. a.utcH - w \in -1..WordSize /\ a.utcL - s \in -1..WordSize
    BY <1>1, <1>3, <1>4
  <2>2. Wraps(a.utcH - w, WordSize) /\ Wraps(a.utcL - s, WordSize)
    BY <1>1, <2>1, WrapOnce
  <2>3. QED
    BY <1>2, <2>2 DEF Wraps
<1>10. y \in LooseTimes
  BY <1>2, <1>8, <1>9 DEF LooseTimes
<1>11. QED
  BY <1>7, <1>8, <1>10 DEF Offset, y

\* ... and so fd_apply_offset().
LEMMA ApplyOffsetLoose ==
  ASSUME NEW a \in LooseTimes, NEW p \in Int, -PicoPerSec < p, p < PicoPerSec
  PROVE  Offset(a, ApplyOffset(a, p), OffsetUnits(p))
<1>0. PicoPerSec \in Nat /\ p \in Offsets
  BY UnitsAssumption DEF Offsets, PicoPerSec
<1>1. CASE p = 0
  <2>1. AttrUnits(a) \in Int
    BY UnitsAssumption DEF LooseTimes, AttrUnits, Units
  <2>2. AttrUnits(a) + OffsetUnits(p) = AttrUnits(a)
    BY <1>1, <2>1, NoOffset
  <2>3. a.coarse <= a.coarse /\ a.frac <= a.frac
    BY DEF LooseTimes
  <2>4. QED
    BY <1>1, <2>1, <2>2, <2>3, EquivSelf DEF ApplyOffset, Offset
<1>2. CASE p > 0
  <2>1. p \in 0..PicoPerSec-1 /\ ApplyOffset(a, p) = AttrAdd(a, p)
    BY <1>0, <1>2 DEF ApplyOffset
  <2>2. QED
    BY <2>1, AttrAddLoose
<1>3. CASE p < 0
  <2>1. -p \in 0..PicoPerSec-1 /\ ApplyOffset(a, p) = AttrSub(a, -p)
    BY <1>0, <1>3 DEF ApplyOffset
  <2>2. Offset(a, AttrSub(a, -p), -OffsetUnits(-p))
    BY <2>1, AttrSubLoose
  <2>3. -OffsetUnits(-p) = OffsetUnits(p)
    BY <1>0, <1>3, OffsetUnitsType
  <2>4. QED
    BY <2>1, <2>2, <2>3
<1>4. QED
  BY <1>1, <1>2, <1>3
==============================================================================
