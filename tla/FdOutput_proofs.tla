--------------------------- MODULE FdOutput_proofs ---------------------------
(***************************************************************************)
(* Theorems about an output channel: for every request of Requestable, all *)
(* offsets, taps and sizes of the units, and any interleaving of the       *)
(* output, the users and the timer.                                        *)
(***************************************************************************)
EXTENDS FdOutput, FdTime_proofs, SequenceTheorems

----------------------------------------------------------------------------
(* What the programs compute.                                              *)

\* Picoseconds as fractions, and numbers as a time.
PicoUnits(p) == (p * FracPerCoarse) \div PicoPerCoarse
Counts == [utc : Int, coarse : Int, frac : Int]

\* The sizes that the assumptions bound are numbers above zero.
LEMMA Sizes ==
  /\ CoarsePerSec \in Nat \ {0} /\ FracPerCoarse \in Nat \ {0} /\ PicoPerCoarse \in Nat \ {0}
  /\ UtcSize \in Nat \ {0} /\ PicoPerSec \in Nat \ {0} /\ CoarsePerMicro \in Nat \ {0}
  /\ PicoPerMicro \in Nat \ {0} /\ PicoSize \in Nat \ {0} /\ PicoPerSec <= PicoSize
BY UnitsAssumption, MicroAssumption, PicoAssumption DEF UtcSize, PicoPerSec, PicoPerMicro

\* Every time has a whole number of units.
LEMMA CountsUnits ==
  /\ \A x \in Times : x \in Counts
  /\ \A x \in Counts : TimeUnits(x) \in Int
BY Sizes DEF Times, Counts, TimeUnits, Units

\* Whole coarse units apart, the rest is converted.
LEMMA PicoApart ==
  ASSUME NEW n \in Int, NEW p \in Int
  PROVE  /\ PicoUnits(p) \in Int
         /\ PicoUnits(n * PicoPerCoarse + p) = n * FracPerCoarse + PicoUnits(p)
<1> DEFINE K == PicoPerCoarse   F == FracPerCoarse   a == n * F   b == p * F
<1>1. K \in Nat \ {0} /\ F \in Nat
  BY Sizes
<1>2. a \in Int /\ b \in Int /\ (n * K + p) * F = K * a + b
  BY <1>1
<1> HIDE DEF a, b
<1>3. (K * a + b) \div K = a + b \div K /\ b \div K \in Int
  BY <1>1, <1>2, DivShift, DivMod
<1>4. QED
  BY <1>2, <1>3 DEF PicoUnits, a, b

\* Whole seconds convert exactly; only what is left of a second is truncated.
LEMMA SecondsApart ==
  ASSUME NEW n \in Int, NEW p \in Int
  PROVE  PicoUnits(n * PicoPerSec + p) = n * CoarsePerSec * FracPerCoarse + PicoUnits(p)
<1> DEFINE m == n * CoarsePerSec
<1>1. m \in Int /\ n * PicoPerSec + p = m * PicoPerCoarse + p
  BY Sizes DEF PicoPerSec
<1> HIDE DEF m
<1>2. PicoUnits(m * PicoPerCoarse + p) = m * FracPerCoarse + PicoUnits(p)
  BY <1>1, PicoApart
<1>3. QED
  BY <1>1, <1>2 DEF m

\* The coarse units and the fractions of picoseconds of less than a second.
LEMMA PartsExact ==
  ASSUME NEW p \in 0..PicoPerSec-1
  PROVE  /\ p \div PicoPerCoarse \in 0..CoarsePerSec-1
         /\ ((p % PicoPerCoarse) * FracPerCoarse) \div PicoPerCoarse \in 0..FracPerCoarse-1
         /\ PicoUnits(p) = (p \div PicoPerCoarse) * FracPerCoarse
                           + ((p % PicoPerCoarse) * FracPerCoarse) \div PicoPerCoarse
<1>1. p \in Int
  OBVIOUS
<1>2. p \div PicoPerCoarse \in 0..CoarsePerSec-1
  BY SplitBelow DEF SplitPico
<1>3. QED
  BY <1>1, <1>2, Fractions DEF PicoUnits

\* fdelay_pico_to_time() gives a normalized time, that of its argument as an unsigned
\* number but for the truncation.
LEMMA PicoToTimeIs ==
  ASSUME NEW q \in Int
  PROVE  /\ PicoToTime(q) \in Times
         /\ Equiv(TimeUnits(PicoToTime(q)), PicoUnits(q % PicoSize))
<1> DEFINE p == q % PicoSize   s == p \div PicoPerSec   rest == p % PicoPerSec
           c == rest \div PicoPerCoarse
           f == ((rest % PicoPerCoarse) * FracPerCoarse) \div PicoPerCoarse
<1>0. p \in Int
  BY Sizes, DivMod
<1>2. PicoToTime(q) = [utc |-> s % UtcSize, coarse |-> c, frac |-> f]
  BY DEF PicoToTime
<1> HIDE DEF p
<1>1. s \in Int /\ rest \in 0..PicoPerSec-1 /\ p = s * PicoPerSec + rest
  BY <1>0, Sizes, DivMod
<1> HIDE DEF s, rest
<1>3. /\ c \in 0..CoarsePerSec-1 /\ f \in 0..FracPerCoarse-1
      /\ PicoUnits(rest) = c * FracPerCoarse + f
  BY <1>1, PartsExact
<1> HIDE DEF c, f
<1>4. c \in Int /\ f \in Int /\ rest \in Int
  BY <1>1, <1>3
<1>5. s % UtcSize \in 0..UtcSize-1 /\ Equiv(Units(s % UtcSize, c, f), Units(s, c, f))
  BY <1>1, <1>4, Turns
<1>6. PicoUnits(p) = Units(s, c, f)
  <2>1. PicoUnits(p) = s * CoarsePerSec * FracPerCoarse + (c * FracPerCoarse + f)
    BY <1>1, <1>3, <1>4, SecondsApart
  <2>2. s * CoarsePerSec * FracPerCoarse + (c * FracPerCoarse + f) = Units(s, c, f)
    BY <1>1, <1>4, Sizes DEF Units
  <2>3. QED
    BY <2>1, <2>2
<1>7. QED
  BY <1>2, <1>3, <1>5, <1>6 DEF Times, TimeUnits, p

\* So it is exact for the numbers that its type holds.
LEMMA PicoToTimeExact ==
  ASSUME NEW p \in 0..PicoSize-1
  PROVE  PicoToTime(p) \in Times /\ Equiv(TimeUnits(PicoToTime(p)), PicoUnits(p))
<1>1. p \in Int /\ p % PicoSize = p
  BY Sizes
<1>2. QED
  BY <1>1, PicoToTimeIs

\* An addition of times is exact wherever it carries, ...
LEMMA AddAboveExact ==
  ASSUME NEW a \in Counts, NEW b \in Counts, NEW maxFrac \in Int,
         NEW ofSum \in BOOLEAN, NEW maxCoarse \in Int
  PROVE  LET y == AddAbove(a, b, maxFrac, ofSum, maxCoarse) IN
         /\ y \in Counts /\ y.utc \in 0..UtcSize-1
         /\ Equiv(TimeUnits(y), TimeUnits(a) + TimeUnits(b))
<1> DEFINE carry  == IF a.frac + b.frac > maxFrac THEN 1 ELSE 0
           sum    == a.coarse + b.coarse + carry
           second == IF (IF ofSum THEN sum ELSE b.coarse) > maxCoarse THEN 1 ELSE 0
           y == AddAbove(a, b, maxFrac, ofSum, maxCoarse)
           u == a.utc + b.utc
<1>1. /\ a.utc \in Int /\ a.coarse \in Int /\ a.frac \in Int
      /\ b.utc \in Int /\ b.coarse \in Int /\ b.frac \in Int
  BY DEF Counts
<1>2. carry \in {0, 1} /\ second \in {0, 1}
  OBVIOUS
<1>3. y = [utc |-> (a.utc + b.utc + second) % UtcSize,
           coarse |-> sum - second * CoarsePerSec,
           frac |-> a.frac + b.frac - carry * FracPerCoarse]
  BY DEF AddAbove
<1> HIDE DEF carry, second, y
<1>4. u \in Int /\ second \in Int /\ carry \in Int /\ u + second \in Int
  BY <1>1, <1>2
<1> DEFINE c == a.coarse + b.coarse + carry - second * CoarsePerSec
           f == a.frac + b.frac - carry * FracPerCoarse
<1>5. c \in Int /\ f \in Int
  BY <1>1, <1>4, Sizes
<1>6. (u + second) % UtcSize \in 0..UtcSize-1
  BY <1>4, <1>5, Turns
<1>12. y = [utc |-> (u + second) % UtcSize, coarse |-> c, frac |-> f]
  <2>1. sum - second * CoarsePerSec = c
    BY <1>1, <1>4, Sizes
  <2>2. QED
    BY <1>3, <2>1
<1> HIDE DEF u
<1>7. Shifted(u, a.coarse, a.frac, second, b.coarse, b.frac, carry)
  BY <1>1, <1>4, UnitsShifted
<1>8. TimeUnits(a) + TimeUnits(b)
        = Units(u, a.coarse, a.frac) + (b.coarse * FracPerCoarse + b.frac)
  BY <1>1, Sizes DEF TimeUnits, Units, u
<1>9. Equiv(TimeUnits(y), TimeUnits(a) + TimeUnits(b))
  BY <1>12, <1>7, <1>8 DEF Shifted, TimeUnits
<1>10. y \in Counts /\ y.utc \in 0..UtcSize-1
  <2>1. y.utc \in 0..UtcSize-1 /\ y.coarse \in Int /\ y.frac \in Int
    BY <1>12, <1>5, <1>6
  <2>2. QED
    BY <1>12, <2>1, Sizes DEF Counts
<1>11. QED
  BY <1>9, <1>10 DEF y
\* ... and the end it leaves is within what each program's limits allow.
CoarseLimit(c) == CoarsePerSec + (CASE c = "dumplog" -> CoarsePerSec
                                    [] c \in {"lib", "pulse"} -> 1
                                    [] OTHER -> 0)
FracLimit(c) == FracPerCoarse + (IF c = "pulse" THEN 1 ELSE 0)
EndTimes(c) == [utc : 0..UtcSize-1, coarse : 0..CoarseLimit(c)-1, frac : 0..FracLimit(c)-1]

\* Each program's own addition is exact in units, and leaves a count that exceeds its
\* range by no more than the limits above.
LEMMA ClientAddExact ==
  ASSUME NEW c \in Clients, NEW a \in Times, NEW b \in Times
  PROVE  /\ ClientAdd(c, a, b) \in EndTimes(c)
         /\ Equiv(TimeUnits(ClientAdd(c, a, b)), TimeUnits(a) + TimeUnits(b))
<1> DEFINE C == CoarsePerSec   F == FracPerCoarse
           Sum(m, o, n) == AddAbove(a, b, m, o, n)
           y == ClientAdd(c, a, b)
<1>1. /\ a \in Counts /\ b \in Counts /\ C \in Nat \ {0} /\ F \in Nat \ {0}
      /\ a.coarse \in 0..C-1 /\ a.frac \in 0..F-1
      /\ b.coarse \in 0..C-1 /\ b.frac \in 0..F-1
  BY Sizes, CountsUnits DEF Times
<1>2. ASSUME NEW m \in Int, NEW o \in BOOLEAN, NEW n \in Int
      PROVE  /\ Sum(m, o, n) \in Counts /\ Sum(m, o, n).utc \in 0..UtcSize-1
             /\ Equiv(TimeUnits(Sum(m, o, n)), TimeUnits(a) + TimeUnits(b))
  BY <1>1, AddAboveExact
<1>3. CASE c \in {"tom", "gs", "raw"}
  <2>1. y = Sum(F - 1, TRUE, C - 1)
    BY <1>3 DEF ClientAdd, ExactAdd
  <2>2. Sum(F - 1, TRUE, C - 1).coarse \in 0..C-1 /\ Sum(F - 1, TRUE, C - 1).frac \in 0..F-1
    BY <1>1 DEF AddAbove
  <2>3. CoarseLimit(c) = C /\ FracLimit(c) = F
    BY <1>1, <1>3 DEF CoarseLimit, FracLimit
  <2>4. F - 1 \in Int /\ C - 1 \in Int
    BY <1>1
  <2>5. y \in Counts /\ y.utc \in 0..UtcSize-1
        /\ Equiv(TimeUnits(y), TimeUnits(a) + TimeUnits(b))
    BY <1>2, <2>1, <2>4
  <2>6. QED
    BY <2>1, <2>2, <2>3, <2>5 DEF EndTimes, Counts
<1>4. CASE c = "lib"
  <2>1. y = Sum(F - 1, TRUE, C)
    BY <1>4 DEF ClientAdd, LibAdd
  <2>2. Sum(F - 1, TRUE, C).coarse \in 0..C /\ Sum(F - 1, TRUE, C).frac \in 0..F-1
    BY <1>1 DEF AddAbove
  <2>3. CoarseLimit(c) - 1 = C /\ FracLimit(c) = F
    BY <1>1, <1>4 DEF CoarseLimit, FracLimit
  <2>4. F - 1 \in Int /\ C \in Int
    BY <1>1
  <2>5. y \in Counts /\ y.utc \in 0..UtcSize-1
        /\ Equiv(TimeUnits(y), TimeUnits(a) + TimeUnits(b))
    BY <1>2, <2>1, <2>4
  <2>6. QED
    BY <2>1, <2>2, <2>3, <2>5 DEF EndTimes, Counts
<1>5. CASE c = "pulse"
  <2>1. y = Sum(F, TRUE, C)
    BY <1>5 DEF ClientAdd, PulseAdd
  <2>2. Sum(F, TRUE, C).coarse \in 0..C /\ Sum(F, TRUE, C).frac \in 0..F
    BY <1>1 DEF AddAbove
  <2>3. CoarseLimit(c) - 1 = C /\ FracLimit(c) - 1 = F
    BY <1>1, <1>5 DEF CoarseLimit, FracLimit
  <2>4. F \in Int /\ C \in Int
    BY <1>1
  <2>5. y \in Counts /\ y.utc \in 0..UtcSize-1
        /\ Equiv(TimeUnits(y), TimeUnits(a) + TimeUnits(b))
    BY <1>2, <2>1, <2>4
  <2>6. QED
    BY <2>1, <2>2, <2>3, <2>5 DEF EndTimes, Counts
<1>6. CASE c = "dumplog"
  <2>1. y = Sum(F - 1, FALSE, C - 1)
    BY <1>6 DEF ClientAdd, DumplogAdd
  <2>2. /\ Sum(F - 1, FALSE, C - 1).coarse \in 0..C+C-1
        /\ Sum(F - 1, FALSE, C - 1).frac \in 0..F-1
    BY <1>1 DEF AddAbove
  <2>3. CoarseLimit(c) - 1 = C + C - 1 /\ FracLimit(c) = F
    BY <1>1, <1>6 DEF CoarseLimit, FracLimit
  <2>4. F - 1 \in Int /\ C - 1 \in Int
    BY <1>1
  <2>5. y \in Counts /\ y.utc \in 0..UtcSize-1
        /\ Equiv(TimeUnits(y), TimeUnits(a) + TimeUnits(b))
    BY <1>2, <2>1, <2>4
  <2>6. QED
    BY <2>1, <2>2, <2>3, <2>5 DEF EndTimes, Counts
<1>7. QED
  BY <1>3, <1>4, <1>5, <1>6 DEF Clients

\* ts_add() of fdelay-pulse-tom is exact, and in range.
LEMMA ExactAddExact ==
  ASSUME NEW a \in Times, NEW b \in Times
  PROVE  /\ ExactAdd(a, b) \in Times
         /\ Equiv(TimeUnits(ExactAdd(a, b)), TimeUnits(a) + TimeUnits(b))
<1>1. ClientAdd("tom", a, b) = ExactAdd(a, b) /\ "tom" \in Clients
  BY DEF ClientAdd, Clients
<1>2. EndTimes("tom") = Times
  <2>1. CoarseLimit("tom") = CoarsePerSec /\ FracLimit("tom") = FracPerCoarse
    BY Sizes DEF CoarseLimit, FracLimit
  <2>2. QED
    BY <2>1 DEF EndTimes, Times
<1>3. QED
  BY <1>1, <1>2, ClientAddExact
\* The numbers of an argument.
LEMMA ArgIs ==
  ASSUME NEW r, Requestable(r)
  PROVE  /\ r.client \in Clients /\ r.mode \in {"disable", "pulse", "delay"} /\ r.rep \in Int
         /\ r.arg.sec \in Int /\ r.arg.micro \in Int /\ r.arg.pico \in Int
         /\ r.arg.relative \in BOOLEAN
         /\ r.width \in 0..PicoSize-1 /\ r.period \in 0..PicoSize-1
         /\ ArgPico(r.arg) = r.arg.sec * PicoPerSec + SubSeconds(r.arg)
         /\ SubSeconds(r.arg) \in Int /\ SubSeconds(r.arg) < PicoSize
         /\ ArgPico(r.arg) \in Int
<1>1. r.client \in Clients /\ r.mode \in {"disable", "pulse", "delay"} /\ r.rep \in Int
      /\ r.arg.sec \in Int /\ r.arg.micro \in Int /\ r.arg.pico \in Int
      /\ r.arg.relative \in BOOLEAN /\ r.width \in 0..PicoSize-1
      /\ r.period \in 0..PicoSize-1 /\ SubSeconds(r.arg) < PicoSize
  BY DEF Requestable
<1>2. /\ r.arg.sec * PicoPerSec \in Int /\ r.arg.micro * PicoPerMicro \in Int
  BY <1>1, Sizes
<1>3. QED
  BY <1>1, <1>2 DEF ArgPico, SubSeconds

\* parse_time() of fdelay-pulse-tom.
LEMMA ParseTomExact ==
  ASSUME NEW r, Requestable(r)
  PROVE  /\ ParseTom(r.arg) \in Times
         /\ Equiv(TimeUnits(ParseTom(r.arg)), PicoUnits(ArgPico(r.arg)))
<1> DEFINE q == SubSeconds(r.arg)   k == IF q < 0 THEN -(q \div PicoPerSec) ELSE 0
           n == r.arg.sec - k   p == q + k * PicoPerSec
           t == PicoToTime(p)   y == ParseTom(r.arg)   d == n * CoarsePerSec * FracPerCoarse
<1>0. /\ r.arg.sec \in Int /\ q \in Int /\ q < PicoSize
      /\ ArgPico(r.arg) = r.arg.sec * PicoPerSec + q
  BY ArgIs
<1>2. y = [t EXCEPT !.utc = (@ + r.arg.sec - k) % UtcSize]
  BY DEF ParseTom
<1> HIDE DEF q
<1>20. k \in Int /\ p \in 0..PicoSize-1
  <2> DEFINE e == q \div PicoPerSec
  <2> DEFINE K == PicoPerSec   f == q % K
  <2>0. K \in Nat \ {0} /\ q \in Int
    BY <1>0, Sizes
  <2>1. e \in Int /\ f \in 0..K-1 /\ q = K * e + f
    BY <2>0, DivMod
  <2>2. CASE q < 0
    <3>1. k = -e
      BY <2>2
    <3> HIDE DEF e, k, f, K
    <3>2. k \in Int /\ q + k * K = f
      BY <2>0, <2>1, <3>1
    <3>3. f \in 0..PicoSize-1
      BY <2>1, Sizes DEF K
    <3>4. QED
      BY <3>2, <3>3 DEF K
  <2>3. CASE ~(q < 0)
    <3>1. k = 0 /\ q + k * PicoPerSec = q
      BY <1>0, <2>3, Sizes
    <3>2. QED
      BY <1>0, <2>3, <3>1, Sizes
  <2>4. QED
    BY <2>2, <2>3
<1> HIDE DEF k
<1>1. n \in Int /\ p \in Int /\ ArgPico(r.arg) = n * PicoPerSec + p
  BY <1>0, <1>20, Sizes
<1> HIDE DEF p
<1>3. t \in Times /\ Equiv(TimeUnits(t), PicoUnits(p))
  BY <1>20, PicoToTimeExact
<1> HIDE DEF t, y
<1>4. /\ t = [utc |-> t.utc, coarse |-> t.coarse, frac |-> t.frac]
      /\ t.utc \in Int /\ t.coarse \in Int /\ t.frac \in Int
      /\ t.coarse \in 0..CoarsePerSec-1 /\ t.frac \in 0..FracPerCoarse-1
  BY <1>3, Sizes DEF Times
<1>5. y = [utc |-> (t.utc + n) % UtcSize, coarse |-> t.coarse, frac |-> t.frac]
  <2>1. t.utc + r.arg.sec - k = t.utc + n
    BY <1>0, <1>4, <1>20
  <2>2. QED
    BY <1>2, <1>4, <2>1
<1> HIDE DEF n
<1>6. /\ (t.utc + n) % UtcSize \in 0..UtcSize-1
      /\ Equiv(Units((t.utc + n) % UtcSize, t.coarse, t.frac),
               Units(t.utc + n, t.coarse, t.frac))
  <2>1. t.utc + n \in Int
    BY <1>1, <1>4
  <2>2. QED
    BY <1>4, <2>1, Turns
<1>7. y \in Times
  BY <1>4, <1>5, <1>6 DEF Times
<1>8. d \in Int /\ Units(t.utc + n, t.coarse, t.frac) = TimeUnits(t) + d
  BY <1>1, <1>4, Sizes DEF Units, TimeUnits
<1>9. PicoUnits(ArgPico(r.arg)) = PicoUnits(p) + d /\ PicoUnits(p) \in Int
  <2>1. PicoUnits(n * PicoPerSec + p) = d + PicoUnits(p)
    BY <1>1, SecondsApart
  <2>2. PicoUnits(p) \in Int
    BY <1>1, PicoApart
  <2>3. QED
    BY <1>1, <1>8, <2>1, <2>2
<1> HIDE DEF d
<1>10. TimeUnits(t) \in Int /\ TimeUnits(y) \in Int
  BY <1>3, <1>7, UnitsInt
<1>11. Equiv(TimeUnits(y), TimeUnits(t) + d)
  BY <1>5, <1>6, <1>8 DEF TimeUnits
<1>12. Equiv(TimeUnits(y), PicoUnits(p) + d)
  BY <1>3, <1>8, <1>9, <1>10, <1>11, EquivStep
<1>13. QED
  BY <1>7, <1>9, <1>12 DEF y

\* parse_time() of fdelay-pulse.
LEMMA ParsePulseExact ==
  ASSUME NEW r, Requestable(r), r.client = "pulse", NEW now \in Times
  PROVE  /\ ParsePulse(r.arg, now) \in Times
         /\ Equiv(TimeUnits(ParsePulse(r.arg, now)),
                  Units(IF r.arg.relative THEN now.utc ELSE 0, 0, 0)
                  + PicoUnits(ArgPico(r.arg)))
<1> DEFINE n == r.arg.sec   m == r.arg.micro   q == r.arg.pico
           p == SubSeconds(r.arg)
           base == IF r.arg.relative THEN now.utc ELSE 0
           c == m * CoarsePerMicro + q \div PicoPerCoarse
           f == ((q % PicoPerCoarse) * FracPerCoarse) \div PicoPerCoarse
           y == ParsePulse(r.arg, now)
<1>1. /\ n \in Int /\ m \in Nat /\ q \in Nat /\ p \in Int /\ p < PicoPerSec
      /\ ArgPico(r.arg) = n * PicoPerSec + p
  <2>1. n \in Int /\ m \in Int /\ q \in Int /\ p \in Int
        /\ ArgPico(r.arg) = n * PicoPerSec + p
    BY ArgIs
  <2>2. m >= 0 /\ q >= 0 /\ p < PicoPerSec
    BY DEF Requestable
  <2>3. QED
    BY <2>1, <2>2
<1>2. base \in Int
  BY Sizes DEF Times
<1>3. y = [utc |-> (base + n) % UtcSize, coarse |-> c, frac |-> f]
  BY DEF ParsePulse
<1>4. p = m * CoarsePerMicro * PicoPerCoarse + q
  BY <1>1, Sizes DEF PicoPerMicro, SubSeconds
<1> HIDE DEF n, m, q, p, base, y
<1> DEFINE k == m * CoarsePerMicro   d == q \div PicoPerCoarse   e == q % PicoPerCoarse
<1>5. k \in Nat
  BY <1>1, Sizes
<1>6. d \in Int /\ e \in 0..PicoPerCoarse-1 /\ q = PicoPerCoarse * d + e
  BY <1>1, Sizes, DivMod
<1> HIDE DEF k
<1>7. c = k + d /\ p = k * PicoPerCoarse + q
  BY <1>4 DEF k
<1>8. f \in 0..FracPerCoarse-1 /\ PicoUnits(q) = d * FracPerCoarse + f
  BY <1>1, Fractions DEF PicoUnits
<1> HIDE DEF c, d, e, f
<1>9. c \in 0..CoarsePerSec-1
  <2>1. p = PicoPerCoarse * c + e
    BY <1>1, <1>5, <1>6, <1>7, Sizes
  <2>2. c \in Int /\ p < CoarsePerSec * PicoPerCoarse
    BY <1>1, <1>5, <1>6, <1>7 DEF PicoPerSec
  <2>3. ~(c >= CoarsePerSec)
    BY <1>6, <2>1, <2>2, Sizes
  <2>4. ~(d <= -1)
    BY <1>1, <1>6, Sizes
  <2>5. QED
    BY <1>5, <1>6, <1>7, <2>2, <2>3, <2>4, Sizes
<1>10. PicoUnits(p) = c * FracPerCoarse + f
  <2>1. PicoUnits(p) = k * FracPerCoarse + PicoUnits(q)
    BY <1>1, <1>5, <1>7, PicoApart
  <2>2. QED
    BY <1>5, <1>6, <1>7, <1>8, <2>1, Sizes
<1>11. Units(base, 0, 0) + PicoUnits(ArgPico(r.arg)) = Units(base + n, c, f)
  <2>1. PicoUnits(n * PicoPerSec + p) = n * CoarsePerSec * FracPerCoarse + PicoUnits(p)
    BY <1>1, SecondsApart
  <2>2. c \in Int /\ f \in Int
    BY <1>8, <1>9, Sizes
  <2>3. Units(base, 0, 0) + (n * CoarsePerSec * FracPerCoarse + (c * FracPerCoarse + f))
          = Units(base + n, c, f)
    BY <1>1, <1>2, <2>2, Sizes DEF Units
  <2>4. QED
    BY <1>1, <1>10, <2>1, <2>3
<1>12. /\ (base + n) % UtcSize \in 0..UtcSize-1
       /\ Equiv(Units((base + n) % UtcSize, c, f), Units(base + n, c, f))
  <2>1. base + n \in Int /\ c \in Int /\ f \in Int
    BY <1>1, <1>2, <1>8, <1>9, Sizes
  <2>2. QED
    BY <2>1, Turns
<1>13. y \in Times
  BY <1>3, <1>8, <1>9, <1>12 DEF Times
<1>14. QED
  BY <1>3, <1>11, <1>12, <1>13 DEF TimeUnits, y, base
\* The start that each program computes is the one it was asked for, unless a logger puts
\* it off.
LEMMA StartExact ==
  ASSUME NEW r, Requestable(r), NEW now \in Times
  PROVE  /\ StartOf(r, now) \in Times /\ AskedStart(r, now) \in Int
         /\ ~PutOff(r) => Equiv(TimeUnits(StartOf(r, now)), AskedStart(r, now))
<1> DEFINE asked == PicoUnits(ArgPico(r.arg))
<1>1. /\ r.client \in Clients /\ r.arg.relative \in BOOLEAN /\ ArgPico(r.arg) \in Int
      /\ now.utc \in Int
  BY ArgIs, Sizes DEF Times
<1>2. asked \in Int
  BY <1>1, PicoApart
<1>3. \A u \in Int : Units(u, 0, 0) \in Int /\ Units(0, 0, 0) = 0
  BY Sizes DEF Units
<1>4. CASE r.client = "pulse"
  <2>1. StartOf(r, now) = ParsePulse(r.arg, now)
    BY <1>4 DEF StartOf
  <2>2. AskedStart(r, now) = Units(IF r.arg.relative THEN now.utc ELSE 0, 0, 0) + asked
    BY <1>1, <1>3, <1>4 DEF AskedStart, PicoUnits
  <2>3. Units(IF r.arg.relative THEN now.utc ELSE 0, 0, 0) \in Int
    BY <1>1, <1>3
  <2>4. QED
    BY <1>2, <1>4, <2>1, <2>2, <2>3, ParsePulseExact
<1>5. CASE r.client = "tom" /\ r.arg.relative /\ r.mode = "pulse"
  <2> DEFINE t == ParseTom(r.arg)
  <2>1. StartOf(r, now) = ExactAdd(now, t)
    BY <1>5 DEF StartOf
  <2>2. AskedStart(r, now) = TimeUnits(now) + asked
    BY <1>5 DEF AskedStart, PicoUnits
  <2>3. t \in Times /\ Equiv(TimeUnits(t), asked)
    BY ParseTomExact
  <2> HIDE DEF t, asked
  <2>4. TimeUnits(now) \in Int /\ TimeUnits(t) \in Int /\ TimeUnits(ExactAdd(now, t)) \in Int
    BY <2>3, UnitsInt, ExactAddExact
  <2>5. /\ ExactAdd(now, t) \in Times
        /\ Equiv(TimeUnits(ExactAdd(now, t)), TimeUnits(now) + TimeUnits(t))
    BY <2>3, ExactAddExact
  <2>6. Equiv(TimeUnits(now) + TimeUnits(t), TimeUnits(now) + asked)
    BY <1>2, <2>3, <2>4, EquivSum, EquivSelf
  <2>7. Equiv(TimeUnits(ExactAdd(now, t)), TimeUnits(now) + asked)
    <3>1. TimeUnits(now) + TimeUnits(t) \in Int /\ TimeUnits(now) + asked \in Int
      BY <1>2, <2>4
    <3>2. QED
      BY <2>4, <2>5, <2>6, <3>1, EquivTrans
  <2>8. QED
    BY <1>2, <2>1, <2>2, <2>4, <2>5, <2>7
<1>6. CASE r.client \in {"gs", "dumplog"}
  <2> DEFINE t == PicoToTime(ArgPico(r.arg))   u == InTwoSeconds(now)
             y == ClientAdd(r.client, t, u)   two == Units(now.utc + 2, 0, 0)
  <2>1. StartOf(r, now) = y
    BY <1>6 DEF StartOf
  <2>2. AskedStart(r, now) = two + asked
    BY <1>6 DEF AskedStart, PicoUnits
  <2>3. t \in Times /\ (~PutOff(r) => Equiv(TimeUnits(t), asked))
    <3>1. t \in Times
      BY <1>1, PicoToTimeIs
    <3>2. ASSUME ~PutOff(r) PROVE ArgPico(r.arg) \in 0..PicoSize-1
      BY <1>1, <1>6, <3>2, Sizes DEF PutOff, Requestable
    <3>3. QED
      BY <3>1, <3>2, PicoToTimeExact
  <2>4. u \in Times /\ Equiv(TimeUnits(u), two)
    <3>1. now.utc + 2 \in Int /\ 0 \in Int
      BY <1>1
    <3>2. /\ (now.utc + 2) % UtcSize \in 0..UtcSize-1
          /\ Equiv(Units((now.utc + 2) % UtcSize, 0, 0), two)
      BY <3>1, Turns
    <3>3. 0 \in 0..CoarsePerSec-1 /\ 0 \in 0..FracPerCoarse-1
      BY Sizes
    <3>4. QED
      BY <3>2, <3>3 DEF InTwoSeconds, Times, TimeUnits
  <2>5. u.coarse = 0 /\ u.frac = 0
    BY DEF InTwoSeconds
  <2>6. two \in Int
    BY <1>1, <1>3
  <2> HIDE DEF t, u, asked, two
  <2>7. y \in EndTimes(r.client) /\ Equiv(TimeUnits(y), TimeUnits(t) + TimeUnits(u))
    BY <1>1, <2>3, <2>4, ClientAddExact
  <2>8. y \in Times
    <3>1. CASE r.client = "gs"
      <4>1. y = ExactAdd(t, u)
        BY <3>1 DEF ClientAdd
      <4>2. QED
        BY <2>3, <2>4, <4>1, ExactAddExact
    <3>2. CASE r.client = "dumplog"
      <4>1. y = AddAbove(t, u, FracPerCoarse - 1, FALSE, CoarsePerSec - 1)
        BY <3>2 DEF ClientAdd, DumplogAdd
      <4>2. t.coarse \in 0..CoarsePerSec-1 /\ t.frac \in 0..FracPerCoarse-1
        BY <2>3 DEF Times
      <4>3. y.coarse = t.coarse /\ y.frac = t.frac
        BY <2>5, <4>1, <4>2, Sizes DEF AddAbove
      <4>4. QED
        BY <2>7, <4>2, <4>3 DEF EndTimes, Times
    <3>3. QED
      BY <1>6, <3>1, <3>2
  <2>9. TimeUnits(y) \in Int /\ TimeUnits(t) \in Int /\ TimeUnits(u) \in Int
    BY <2>3, <2>4, <2>8, UnitsInt
  <2> HIDE DEF y
  <2>10. ASSUME ~PutOff(r) PROVE Equiv(TimeUnits(u) + TimeUnits(t), two + asked)
    BY <1>2, <2>3, <2>4, <2>6, <2>9, <2>10, EquivSum
  <2>11. ASSUME ~PutOff(r) PROVE Equiv(TimeUnits(y), two + asked)
    <3>1. TimeUnits(u) + TimeUnits(t) \in Int /\ two + asked \in Int
          /\ TimeUnits(u) + TimeUnits(t) = TimeUnits(t) + TimeUnits(u)
      BY <1>2, <2>6, <2>9
    <3>2. QED
      BY <2>7, <2>9, <2>10, <2>11, <3>1, EquivTrans
  <2>12. QED
    BY <1>2, <2>1, <2>2, <2>6, <2>8, <2>11
<1>7. CASE /\ r.client # "pulse" /\ r.client \notin {"gs", "dumplog"}
           /\ ~(r.client = "tom" /\ r.arg.relative /\ r.mode = "pulse")
  <2>1. StartOf(r, now) = ParseTom(r.arg)
    BY <1>7 DEF StartOf
  <2>2. AskedStart(r, now) = 0 + asked
    BY <1>7 DEF AskedStart, PicoUnits
  <2>3. QED
    BY <1>2, <2>1, <2>2, ParseTomExact
<1>8. QED
  BY <1>4, <1>5, <1>6, <1>7

\* The width, too, but for the truncation.
LEMMA WidthExact ==
  ASSUME NEW r, Requestable(r)
  PROVE  /\ WidthOf(r) \in Times /\ AskedWidth(r) \in Int
         /\ Equiv(TimeUnits(WidthOf(r)), AskedWidth(r))
<1>1. r.client \in Clients /\ r.width \in 0..PicoSize-1 /\ r.width \in Int
  BY ArgIs, Sizes
<1>2. AskedWidth(r) = PicoUnits(r.width) /\ PicoUnits(r.width) \in Int
  BY <1>1, PicoApart DEF AskedWidth, OffsetUnits, PicoUnits
<1>3. CASE r.client \in {"lib", "pulse"}
  <2>1. r.width \in 0..PicoPerSec-1
    BY <1>1, <1>3, Sizes DEF Requestable
  <2> DEFINE c == r.width \div PicoPerCoarse
             f == ((r.width % PicoPerCoarse) * FracPerCoarse) \div PicoPerCoarse
  <2>2. WidthOf(r) = [utc |-> 0, coarse |-> c, frac |-> f]
    BY <1>3 DEF WidthOf
  <2>3. /\ c \in 0..CoarsePerSec-1 /\ f \in 0..FracPerCoarse-1
        /\ PicoUnits(r.width) = c * FracPerCoarse + f
    BY <2>1, PartsExact
  <2> HIDE DEF c, f
  <2>4. TimeUnits(WidthOf(r)) = AskedWidth(r)
    BY <1>2, <2>2, <2>3, Sizes DEF TimeUnits, Units
  <2>5. WidthOf(r) \in Times
    BY <2>2, <2>3, Sizes DEF Times
  <2>6. QED
    BY <1>2, <2>4, <2>5, EquivSelf
<1>4. CASE r.client \notin {"lib", "pulse"}
  <2>1. WidthOf(r) = PicoToTime(r.width)
    BY <1>4 DEF WidthOf
  <2>2. QED
    BY <1>1, <1>2, <2>1, PicoToTimeExact
<1>5. QED
  BY <1>3, <1>4

\* So the attributes that are written have the start and the end that were asked for,
\* the end perhaps above its limit.
EndAttrs(c) == [utcH : 0..WordSize-1, utcL : 0..WordSize-1,
                coarse : 0..CoarseLimit(c)-1, frac : 0..FracLimit(c)-1]

\* How far a program may leave a count above its range.
LEMMA Limits ==
  ASSUME NEW c
  PROVE  /\ CoarseLimit(c) \in Nat /\ CoarseLimit(c) >= CoarsePerSec
         /\ CoarseLimit(c) <= 2 * CoarsePerSec
         /\ FracLimit(c) \in Nat /\ FracLimit(c) >= FracPerCoarse
         /\ FracLimit(c) <= FracPerCoarse + 1
BY Sizes DEF CoarseLimit, FracLimit

\* The words of an attribute keep the time, also of an end that is out of range.
LEMMA ToAttrLoose ==
  ASSUME NEW c, NEW x \in EndTimes(c)
  PROVE  /\ ToAttr(x) \in EndAttrs(c) /\ AttrUnits(ToAttr(x)) = TimeUnits(x)
         /\ TimeUnits(x) \in Int
<1>1. /\ x.utc \in 0..UtcSize-1
      /\ x.coarse \in 0..CoarseLimit(c)-1 /\ x.frac \in 0..FracLimit(c)-1
  BY DEF EndTimes
<1>2. x.utc \in Int /\ x.coarse \in Int /\ x.frac \in Int
  BY <1>1
<1>3. QED
  BY <1>1, <1>2, Words, Sizes DEF ToAttr, EndAttrs, AttrUnits, TimeUnits, Units

Deltas == [utc : 0..WordSize-1, coarse : 0..CoarsePerSec-1, frac : 0..FracPerCoarse-1]

\* The start that the program gives: the one asked for, or the one it is put off to.
GivenStart(r, now) == TimeUnits(StartOf(r, now))

\* fdelay_config_pulse() and the programs write the start that they give, and an end that
\* is later by the width that they were asked for.
LEMMA AttrsExact ==
  ASSUME NEW r, Requestable(r), NEW now \in Times
  PROVE  LET a == Attrs(r, now) IN
         /\ a = [mode |-> r.mode, rep |-> r.rep, start |-> a.start, end |-> a.end,
                 delta |-> a.delta]
         /\ a.start \in AttrTimes /\ a.end \in EndAttrs(r.client) /\ a.delta \in Deltas
         /\ Equiv(AttrUnits(a.start), GivenStart(r, now))
         /\ Equiv(AttrUnits(a.end), GivenStart(r, now) + AskedWidth(r))
<1> DEFINE a == Attrs(r, now)   s == StartOf(r, now)   e == EndOf(r, now)
           w == WidthOf(r)   p == PicoToTime(r.period)
<1>1. a = [mode |-> r.mode, rep |-> r.rep, start |-> ToAttr(s), end |-> ToAttr(e),
           delta |-> [p EXCEPT !.utc = @ % WordSize]]
  BY DEF Attrs
<1>2. r.client \in Clients /\ r.period \in Int
  BY ArgIs, Sizes
<1>3. s \in Times /\ GivenStart(r, now) \in Int /\ Equiv(TimeUnits(s), GivenStart(r, now))
  BY StartExact, UnitsInt, EquivSelf DEF GivenStart
<1>4. w \in Times /\ AskedWidth(r) \in Int /\ Equiv(TimeUnits(w), AskedWidth(r))
  BY WidthExact
<1>5. e = ClientAdd(r.client, s, w)
  BY DEF EndOf
<1>6. p \in Times
  BY <1>2, PicoToTimeIs
<1> HIDE DEF a, s, e, w, p
<1>7. e \in EndTimes(r.client) /\ Equiv(TimeUnits(e), TimeUnits(s) + TimeUnits(w))
  BY <1>2, <1>3, <1>4, <1>5, ClientAddExact
<1>8. TimeUnits(s) \in Int /\ TimeUnits(w) \in Int
  BY <1>3, <1>4, UnitsInt
<1>9. /\ ToAttr(e) \in EndAttrs(r.client) /\ AttrUnits(ToAttr(e)) = TimeUnits(e)
      /\ TimeUnits(e) \in Int
  BY <1>7, ToAttrLoose
<1>10. ToAttr(s) \in AttrTimes /\ AttrUnits(ToAttr(s)) = TimeUnits(s)
  BY <1>3, ToAttrExact
<1>11. Equiv(TimeUnits(s) + TimeUnits(w), GivenStart(r, now) + AskedWidth(r))
  BY <1>3, <1>4, <1>8, EquivSum
<1>12. Equiv(TimeUnits(e), GivenStart(r, now) + AskedWidth(r))
  <2>1. TimeUnits(s) + TimeUnits(w) \in Int /\ GivenStart(r, now) + AskedWidth(r) \in Int
    BY <1>3, <1>4, <1>8
  <2>2. QED
    BY <1>7, <1>9, <1>11, <2>1, EquivTrans
<1>13. [p EXCEPT !.utc = @ % WordSize] \in Deltas
  <2>1. /\ p = [utc |-> p.utc, coarse |-> p.coarse, frac |-> p.frac]
        /\ p.utc \in Int /\ p.coarse \in 0..CoarsePerSec-1 /\ p.frac \in 0..FracPerCoarse-1
    BY <1>6, Sizes DEF Times
  <2>2. p.utc % WordSize \in 0..WordSize-1
    BY <2>1, UnitsAssumption, DivMod
  <2>3. QED
    BY <2>1, <2>2 DEF Deltas
<1>14. QED
  BY <1>1, <1>3, <1>9, <1>10, <1>12, <1>13 DEF a
----------------------------------------------------------------------------
(* The test for narrow pulses.                                             *)

\* A difference of counts is a number of coarse units from 1 to C and whole seconds, and
\* the test finds the numbers below its limit, ...
LEMMA NarrowIs ==
  ASSUME NEW sec \in Int, NEW c \in 1..CoarsePerSec
  PROVE  IsNarrow([sec |-> sec, coarse |-> c])
           <=> 0 < sec * CoarsePerSec + c /\ sec * CoarsePerSec + c < NarrowCoarse
<1> DEFINE C == CoarsePerSec   m == sec * C
<1>1. C \in Nat \ {0} /\ NarrowCoarse \in 1..C /\ m \in Int /\ c \in 1..C
  BY Sizes, OutputAssumption
<1>2. CASE sec = 0
  <2>1. m = 0
    BY <1>1, <1>2
  <2>2. QED
    BY <1>1, <1>2, <2>1 DEF IsNarrow
<1>3. CASE sec >= 1
  <2>1. m >= C
    BY <1>1, <1>3
  <2> HIDE DEF m
  <2>2. ~(m + c < NarrowCoarse)
    BY <1>1, <2>1
  <2>3. QED
    BY <1>3, <2>2 DEF IsNarrow, m
<1>4. CASE sec <= -1
  <2>1. m <= -C
    BY <1>1, <1>4
  <2> HIDE DEF m
  <2>2. ~(0 < m + c)
    BY <1>1, <2>1
  <2>3. QED
    BY <1>4, <2>2 DEF IsNarrow, m
<1>5. QED
  BY <1>2, <1>3, <1>4

\* ... but for a count of zero, which is the zero that is left when a second is taken
\* from it that was never borrowed.
LEMMA NarrowZero ==
  ASSUME NEW sec \in Int
  PROVE  IsNarrow([sec |-> sec, coarse |-> 0]) <=> sec * CoarsePerSec = 0
<1>1. 0 < NarrowCoarse /\ CoarsePerSec \in Nat \ {0}
  BY OutputAssumption, Sizes
<1>2. sec = 0 <=> sec * CoarsePerSec = 0
  BY <1>1
<1>3. QED
  BY <1>1, <1>2 DEF IsNarrow

\* What NO_FINE is set for.
Narrow(a) ==
  LET width == Signed64((Utc(a.end) - Utc(a.start)) % UtcSize) * CoarsePerSec
               + a.end.coarse - a.start.coarse
      gap   == a.delta.utc * CoarsePerSec + a.delta.coarse - width
  IN  \/ 0 < width /\ width < NarrowCoarse
      \/ 0 < gap /\ gap < NarrowCoarse
      \/ gap = 0 /\ a.end.coarse = a.start.coarse

\* The comparison with 200 ns that the code makes, after Difference, in plain numbers.
LEMMA NoFineIs ==
  ASSUME NEW a, a.start \in AttrTimes, a.delta \in Deltas,
         a.end.utcH \in 0..WordSize-1, a.end.utcL \in 0..WordSize-1,
         a.end.coarse \in 0..CoarsePerSec-1
  PROVE  NoFine(a) <=> Narrow(a)
<1> DEFINE C == CoarsePerSec   x == (Utc(a.end) - Utc(a.start)) % UtcSize
           n == Signed64(x)   e == a.end.coarse   s == a.start.coarse
           width == n * C + e - s   w == WidthIn(a)
           du == a.delta.utc   dc == a.delta.coarse
           gap == du * C + dc - width   g == GapIn(a)
<1>1. /\ C \in Nat \ {0} /\ e \in 0..C-1 /\ s \in 0..C-1 /\ du \in Int /\ dc \in 0..C-1
      /\ a.start.utcH \in 0..WordSize-1 /\ a.start.utcL \in 0..WordSize-1
  BY Sizes, UnitsAssumption DEF AttrTimes, Deltas
<1>2. n \in Int
  <2>1. Utc(a.end) \in Int /\ Utc(a.start) \in Int
    BY <1>1, UnitsAssumption DEF Utc
  <2>2. Utc(a.end) - Utc(a.start) \in Int
    BY <2>1
  <2>3. x \in Int
    BY <2>2, Sizes, DivMod
  <2> HIDE DEF x
  <2>4. QED
    BY <2>3, Sizes DEF Signed64
<1>3. w = Difference(n, e, s) /\ g = Difference(du - w.sec, dc, w.coarse)
  BY DEF WidthIn, GapIn
<1>4. NoFine(a) <=> IsNarrow(w) \/ IsNarrow(g)
  BY DEF NoFine
<1>5. Narrow(a) <=> \/ 0 < width /\ width < NarrowCoarse
                    \/ 0 < gap /\ gap < NarrowCoarse
                    \/ gap = 0 /\ e = s
  BY DEF Narrow
<1> HIDE DEF n, e, s, w, du, dc, g
<1>6. /\ w = [sec |-> w.sec, coarse |-> w.coarse] /\ w.sec \in Int /\ w.coarse \in 1..C
      /\ width = w.sec * C + w.coarse /\ (w.coarse = C <=> e = s)
  <2>1. CASE e > s
    <3>1. w = [sec |-> n, coarse |-> e - s]
      BY <1>3, <2>1 DEF Difference
    <3>2. n * C \in Int
      BY <1>1, <1>2
    <3>3. QED
      BY <1>1, <1>2, <2>1, <3>1, <3>2
  <2>2. CASE ~(e > s)
    <3>1. w = [sec |-> n - 1, coarse |-> C - s + e]
      BY <1>3, <2>2 DEF Difference
    <3>2. n * C \in Int /\ (n - 1) * C = n * C - C
      BY <1>1, <1>2
    <3>3. C - s + e \in 1..C /\ (C - s + e = C <=> e = s)
      BY <1>1, <2>2
    <3>4. n * C + e - s = (n * C - C) + (C - s + e)
      BY <1>1, <3>2
    <3>5. QED
      BY <1>2, <3>1, <3>2, <3>3, <3>4
  <2>3. QED
    BY <2>1, <2>2
<1> HIDE DEF width
<1> DEFINE m == du - w.sec
<1>7. m \in Int /\ m * C \in Int /\ gap = m * C + dc - w.coarse /\ width \in Int
  <2>1. /\ du * C \in Int /\ w.sec * C \in Int /\ m \in Int /\ m * C \in Int
        /\ m * C = du * C - w.sec * C
    BY <1>1, <1>6
  <2> HIDE DEF m
  <2>2. width = w.sec * C + w.coarse
    BY <1>6
  <2> DEFINE p == du * C   q == w.sec * C
  <2> HIDE DEF p, q
  <2>3. gap = p + dc - width /\ width = q + w.coarse
    BY <2>2 DEF p, q
  <2>4. p \in Int /\ q \in Int /\ m * C = p - q
    BY <2>1 DEF p, q
  <2>5. QED
    BY <1>1, <1>6, <2>1, <2>3, <2>4
<1>8. IsNarrow(w) <=> 0 < width /\ width < NarrowCoarse
  <2>1. IsNarrow([sec |-> w.sec, coarse |-> w.coarse])
          <=> 0 < w.sec * C + w.coarse /\ w.sec * C + w.coarse < NarrowCoarse
    BY <1>6, NarrowIs
  <2>2. QED
    BY <1>6, <2>1
<1> HIDE DEF m, gap
<1>9. IsNarrow(g) <=> \/ 0 < gap /\ gap < NarrowCoarse
                      \/ gap = 0 /\ e = s
  <2>1. CASE dc > w.coarse
    <3>1. g = [sec |-> m, coarse |-> dc - w.coarse] /\ dc - w.coarse \in 1..C
      BY <1>1, <1>3, <1>6, <2>1 DEF Difference, m
    <3>2. IsNarrow(g) <=> 0 < m * C + (dc - w.coarse) /\ m * C + (dc - w.coarse) < NarrowCoarse
      BY <1>7, <3>1, NarrowIs
    <3>3. gap = m * C + (dc - w.coarse)
      BY <1>1, <1>6, <1>7
    <3>4. w.coarse # C
      BY <1>1, <1>6, <2>1
    <3>5. QED
      BY <1>6, <3>2, <3>3, <3>4
  <2>2. CASE ~(dc > w.coarse) /\ C - w.coarse + dc # 0
    <3> DEFINE c == C - w.coarse + dc
    <3>1. g = [sec |-> m - 1, coarse |-> c] /\ c \in 1..C /\ m - 1 \in Int
      BY <1>1, <1>3, <1>6, <1>7, <2>2 DEF Difference, m
    <3>2. (m - 1) * C = m * C - C
      BY <1>1, <1>7
    <3>3. gap = (m - 1) * C + c
      BY <1>1, <1>6, <1>7, <3>2
    <3>5. e = s => gap # 0
      <4>1. SUFFICES ASSUME e = s PROVE gap # 0
        OBVIOUS
      <4>2. w.coarse = C /\ c = dc /\ dc \in 1..C-1
        BY <1>1, <1>6, <2>2, <4>1
      <4>3. gap = (m - 1) * C + dc
        BY <3>3, <4>2
      <4>4. m - 1 >= 0 => gap > 0
        BY <1>1, <1>7, <4>2, <4>3
      <4>5. m - 1 <= -1 => gap < 0
        <5>1. m <= 0 => m * C <= 0
          BY <1>1, <1>7
        <5>2. QED
          BY <1>1, <1>7, <3>2, <4>2, <4>3, <5>1
      <4>6. QED
        BY <1>7, <4>4, <4>5
    <3> HIDE DEF c
    <3>6. IsNarrow(g) <=> 0 < gap /\ gap < NarrowCoarse
      BY <3>1, <3>3, NarrowIs
    <3>7. QED
      BY <3>5, <3>6
  <2>3. CASE C - w.coarse + dc = 0
    <3>1. w.coarse = C /\ dc = 0 /\ e = s
      <4>1. w.coarse \in Int /\ w.coarse <= C /\ dc \in Int /\ dc >= 0 /\ C \in Int
        BY <1>1, <1>6
      <4>2. w.coarse = C /\ dc = 0
        BY <2>3, <4>1
      <4>3. QED
        BY <1>6, <4>2
    <3>2. g = [sec |-> m - 1, coarse |-> 0] /\ m - 1 \in Int
      BY <1>1, <1>3, <1>6, <1>7, <2>3, <3>1 DEF Difference, m
    <3>3. gap = (m - 1) * C
      <4>1. (m - 1) * C = m * C - C
        BY <1>1, <1>7
      <4>2. QED
        BY <1>1, <1>7, <3>1, <4>1
    <3>4. IsNarrow(g) <=> gap = 0
      BY <3>2, <3>3, NarrowZero
    <3>5. gap <= 0 \/ gap >= C
      <4>1. m - 1 <= 0 => gap <= 0
        BY <1>1, <3>2, <3>3
      <4>2. m - 1 >= 1 => gap >= C
        BY <1>1, <3>2, <3>3
      <4>3. QED
        BY <3>2, <4>1, <4>2
    <3>6. ~(0 < gap /\ gap < NarrowCoarse)
      <4>1. NarrowCoarse \in 1..C /\ gap \in Int
        BY <1>1, <1>7, <3>2, <3>3, OutputAssumption
      <4>2. QED
        BY <1>1, <3>5, <4>1
    <3>7. QED
      BY <3>1, <3>4, <3>6
  <2>4. QED
    BY <2>1, <2>2, <2>3
<1>10. QED
  BY <1>4, <1>5, <1>8, <1>9

\* The count of a train.
LEMMA RepCountIs ==
  ASSUME NEW a, a.rep \in Int
  PROVE  /\ RepCount(a) \in 0..RepSize-1
         /\ a.rep \in 1..RepSize => RepCount(a) + 1 = a.rep
<1>1. RepSize \in Nat \ {0}
  BY OutputAssumption
<1>2. (a.rep - 1) % RepSize \in 0..RepSize-1
  <2>1. a.rep - 1 \in Int
    OBVIOUS
  <2>2. QED
    BY <1>1, <2>1, DivMod
<1>3. RepCount(a) \in 0..RepSize-1
  BY <1>1, <1>2 DEF RepCount
<1>4. ASSUME a.rep \in 1..RepSize PROVE RepCount(a) + 1 = a.rep
  <2> DEFINE c == a.rep - 1
  <2>1. c \in 0..RepSize-1 /\ 0 * RepSize + c = c
    BY <1>1, <1>4
  <2>2. (0 * RepSize + c) % RepSize = c
    <3> HIDE DEF c
    <3>1. 0 \in Int
      OBVIOUS
    <3>2. QED
      BY <1>1, <2>1, <3>1, Residue
  <2>3. QED
    BY <1>1, <1>4, <2>1, <2>2 DEF RepCount
<1>5. QED
  BY <1>3, <1>4
----------------------------------------------------------------------------
(* The block and the channel, by type.                                     *)

Modes == {"disable", "pulse", "delay"}

AttrsType == [mode : Modes, rep : Int, start : AttrTimes, end : AttrRange, delta : Deltas]

ChanType == [enabled : BOOLEAN, mode : Modes, start : AttrTimes, end : AttrRange,
             delta : Deltas, count : 0..RepSize-1, cont : BOOLEAN, noFine : BOOLEAN,
             armed : BOOLEAN]

Step == {"start", "end"} \X OffsetNames

TypeInv ==
  /\ TypeOK
  /\ attrs \in AttrsType /\ chan \in ChanType
  /\ request \in [r : Requests, now : Nows] /\ edited \in BOOLEAN
  /\ steps \in Seq(Step)
  /\ pc = "tap" => tap \in Taps
  /\ timer = "wrote" => newTap \in Taps

\* Times with counts below the limits c and f.
Within(c, f) == [utcH : 0..WordSize-1, utcL : 0..WordSize-1, coarse : 0..c-1, frac : 0..f-1]

\* The ranges of the attributes as one family, for the solver to compare.
LEMMA Ranges ==
  /\ AttrTimes = Within(CoarsePerSec, FracPerCoarse)
  /\ AttrRange = Within(2 * CoarsePerSec, FracPerCoarse + 1)
  /\ \A c : EndAttrs(c) = Within(CoarseLimit(c), FracLimit(c))
  /\ AttrTimes \subseteq AttrRange
  /\ \A c : AttrTimes \subseteq EndAttrs(c) /\ EndAttrs(c) \subseteq AttrRange
  /\ NoTime \in AttrTimes
<1>1. AttrTimes = Within(CoarsePerSec, FracPerCoarse)
  BY DEF AttrTimes, Within
<1>2. AttrRange = Within(2 * CoarsePerSec, FracPerCoarse + 1)
  <2>1. 0..FracPerCoarse = 0..(FracPerCoarse + 1)-1
    BY Sizes
  <2>2. QED
    BY <2>1, Zenon DEF AttrRange, Within
<1>3. ASSUME NEW c PROVE EndAttrs(c) = Within(CoarseLimit(c), FracLimit(c))
  BY DEF EndAttrs, Within
<1>4. ASSUME NEW c \in Int, NEW f \in Int, NEW d \in Int, NEW g \in Int, c <= d, f <= g
      PROVE  Within(c, f) \subseteq Within(d, g)
  BY <1>4 DEF Within
<1>5. ASSUME NEW c PROVE AttrTimes \subseteq EndAttrs(c) /\ EndAttrs(c) \subseteq AttrRange
  <2>1. /\ CoarseLimit(c) \in Int /\ FracLimit(c) \in Int
        /\ CoarsePerSec <= CoarseLimit(c) /\ CoarseLimit(c) <= 2 * CoarsePerSec
        /\ FracPerCoarse <= FracLimit(c) /\ FracLimit(c) <= FracPerCoarse + 1
        /\ CoarsePerSec \in Int /\ FracPerCoarse \in Int
        /\ 2 * CoarsePerSec \in Int /\ FracPerCoarse + 1 \in Int
    BY Limits, Sizes
  <2>2. QED
    BY <1>1, <1>2, <1>3, <1>4, <2>1
<1>6. AttrTimes \subseteq AttrRange
  BY <1>5
<1>7. NoTime \in AttrTimes
  BY Sizes, UnitsAssumption DEF NoTime, AttrTimes
<1>8. QED
  BY <1>1, <1>2, <1>3, <1>5, <1>6, <1>7

\* Such times stay so, and are moved by the offset.
LEMMA OffsetWithin ==
  ASSUME NEW c \in Int, NEW f \in Int, CoarsePerSec <= c, FracPerCoarse <= f,
         NEW a \in Within(c, f), NEW p \in OffsetValues \cup {0}
  PROVE  /\ ApplyOffset(a, p) \in Within(c, f)
         /\ Equiv(AttrUnits(ApplyOffset(a, p)), AttrUnits(a) + OffsetUnits(p))
<1>1. a \in LooseTimes
  BY DEF Within, LooseTimes
<1>2. p \in Int /\ -PicoPerSec < p /\ p < PicoPerSec
  BY OffsetsAssumption, Sizes
<1> DEFINE y == ApplyOffset(a, p)
<1>3. Offset(a, y, OffsetUnits(p))
  BY <1>1, <1>2, ApplyOffsetLoose
<1> HIDE DEF y
<1>4. y \in Within(c, f)
  <2>1. y.coarse \in 0..c-1
    BY <1>3, Sizes DEF Offset, LooseTimes, Within
  <2>2. y.frac \in 0..f-1
    BY <1>3, Sizes DEF Offset, LooseTimes, Within
  <2>3. QED
    BY <1>3, <2>1, <2>2 DEF Offset, LooseTimes, Within
<1>5. QED
  BY <1>3, <1>4 DEF Offset, y

\* One more offset is added to the start or the end.
LEMMA StepAdds ==
  ASSUME TypeInv, AddOffset
  PROVE  LET p == offsets[Head(steps)[2]] IN
         /\ p \in OffsetValues \cup {0}
         /\ \/ /\ Head(steps)[1] = "start"
               /\ attrs' = [attrs EXCEPT !.start = ApplyOffset(@, p)]
               /\ ApplyOffset(attrs.start, p) \in AttrTimes
            \/ /\ Head(steps)[1] = "end"
               /\ attrs' = [attrs EXCEPT !.end = ApplyOffset(@, p)]
               /\ ApplyOffset(attrs.end, p) \in AttrRange
<1> DEFINE h == Head(steps)   p == offsets[h[2]]
<1>1. h \in Step
  BY HeadTailProperties DEF TypeInv, AddOffset
<1>2. h[1] \in {"start", "end"} /\ h[2] \in OffsetNames
  BY <1>1 DEF Step
<1>3. attrs' = [attrs EXCEPT ![h[1]] = ApplyOffset(@, p)]
  BY DEF AddOffset
<1> HIDE DEF h
<1>4. p \in OffsetValues \cup {0}
  BY <1>2 DEF TypeInv, TypeOK
<1>5. attrs.start \in AttrTimes /\ attrs.end \in AttrRange
  BY DEF TypeInv, AttrsType
<1>6. ApplyOffset(attrs.start, p) \in AttrTimes
  <2>1. CoarsePerSec <= CoarsePerSec /\ FracPerCoarse <= FracPerCoarse
        /\ CoarsePerSec \in Int /\ FracPerCoarse \in Int
    BY Sizes
  <2>2. QED
    BY <1>4, <1>5, <2>1, OffsetWithin, Ranges
<1>7. ApplyOffset(attrs.end, p) \in AttrRange
  <2>1. CoarsePerSec <= 2 * CoarsePerSec /\ FracPerCoarse <= FracPerCoarse + 1
        /\ 2 * CoarsePerSec \in Int /\ FracPerCoarse + 1 \in Int
    BY Sizes
  <2>2. QED
    BY <1>4, <1>5, <2>1, OffsetWithin, Ranges
<1>8. QED
  BY <1>2, <1>3, <1>4, <1>6, <1>7 DEF h

\* The attributes that a program writes.
LEMMA AttrsTyped ==
  ASSUME NEW r \in Requests, NEW now \in Nows
  PROVE  /\ Attrs(r, now) \in AttrsType
         /\ Attrs(r, now).mode = r.mode /\ Attrs(r, now).rep = r.rep
         /\ Attrs(r, now).end \in EndAttrs(r.client)
         /\ GivenStart(r, now) \in Int /\ AskedWidth(r) \in Int
         /\ Equiv(AttrUnits(Attrs(r, now).start), GivenStart(r, now))
         /\ Equiv(AttrUnits(Attrs(r, now).end), GivenStart(r, now) + AskedWidth(r))
<1>1. Requestable(r) /\ now \in Times
  BY OutputAssumption
<1>2. r.mode \in Modes /\ r.rep \in Int
  BY <1>1, ArgIs DEF Modes
<1> DEFINE a == Attrs(r, now)
<1>3. /\ a = [mode |-> r.mode, rep |-> r.rep, start |-> a.start, end |-> a.end,
              delta |-> a.delta]
      /\ a.start \in AttrTimes /\ a.end \in EndAttrs(r.client) /\ a.delta \in Deltas
      /\ Equiv(AttrUnits(a.start), GivenStart(r, now))
      /\ Equiv(AttrUnits(a.end), GivenStart(r, now) + AskedWidth(r))
  BY <1>1, AttrsExact
<1>4. GivenStart(r, now) \in Int /\ AskedWidth(r) \in Int
  BY <1>1, StartExact, WidthExact, UnitsInt DEF GivenStart
<1> HIDE DEF a
<1>5. a.end \in AttrRange
  BY <1>3, Ranges
<1>6. a \in AttrsType /\ a.mode = r.mode /\ a.rep = r.rep
  BY <1>2, <1>3, <1>5 DEF AttrsType
<1>7. QED
  BY <1>3, <1>4, <1>6 DEF a
\* The offsets in their order.
LEMMA Table ==
  /\ OutputOffsets \in Seq(Step) /\ DelayOffsets \in Seq(Step)
  /\ Len(OutputOffsets) = 4 /\ Len(DelayOffsets) = 6
  /\ DelayOffsets[1] = <<"start", "tdc">>  /\ DelayOffsets[2] = <<"end", "tdc">>
  /\ DelayOffsets[3] = <<"start", "zero">> /\ DelayOffsets[4] = <<"start", "user">>
  /\ DelayOffsets[5] = <<"end", "zero">>   /\ DelayOffsets[6] = <<"end", "user">>
  /\ \A i \in 1..4 : OutputOffsets[i] = DelayOffsets[i + 2]
<1> DEFINE s == <<<<"start", "tdc">>, <<"end", "tdc">>>>   t == OutputOffsets
<1>1. /\ <<"start", "tdc">> \in Step /\ <<"end", "tdc">> \in Step
      /\ <<"start", "zero">> \in Step /\ <<"start", "user">> \in Step
      /\ <<"end", "zero">> \in Step /\ <<"end", "user">> \in Step
  BY DEF Step, OffsetNames
<1>2. /\ s \in Seq(Step) /\ Len(s) = 2
      /\ s[1] = <<"start", "tdc">> /\ s[2] = <<"end", "tdc">>
  BY <1>1
<1>3. /\ t \in Seq(Step) /\ Len(t) = 4
      /\ t[1] = <<"start", "zero">> /\ t[2] = <<"start", "user">>
      /\ t[3] = <<"end", "zero">> /\ t[4] = <<"end", "user">>
  BY <1>1 DEF OutputOffsets
<1>4. DelayOffsets = s \o t
  BY DEF DelayOffsets
<1> HIDE DEF s, t
<1>5. /\ s \o t \in Seq(Step) /\ Len(s \o t) = 6
      /\ \A i \in 1..6 : (s \o t)[i] = IF i <= 2 THEN s[i] ELSE t[i - 2]
  <2>1. Len(s) + Len(t) = 6
    BY <1>2, <1>3
  <2>2. /\ s \o t \in Seq(Step) /\ Len(s \o t) = Len(s) + Len(t)
        /\ \A i \in 1..Len(s) + Len(t) :
             (s \o t)[i] = IF i <= Len(s) THEN s[i] ELSE t[i - Len(s)]
    BY <1>2, <1>3, ConcatProperties, Zenon
  <2>3. QED
    BY <1>2, <2>1, <2>2
<1>6. /\ DelayOffsets[1] = s[1] /\ DelayOffsets[2] = s[2]
      /\ DelayOffsets[3] = t[1] /\ DelayOffsets[4] = t[2]
      /\ DelayOffsets[5] = t[3] /\ DelayOffsets[6] = t[4]
  BY <1>4, <1>5, SMTT(30)
<1>7. \A i \in 1..4 : t[i] = DelayOffsets[i + 2]
  BY <1>6
<1>8. QED
  BY <1>2, <1>3, <1>4, <1>5, <1>6, <1>7 DEF t

\* A channel that was never programmed has its types.
LEMMA TypeInit == Init => TypeInv
<1> SUFFICES ASSUME Init PROVE TypeInv
  OBVIOUS
<1>1. /\ (CHOOSE x \in Taps : TRUE) \in Taps
      /\ (CHOOSE r \in Requests : TRUE) \in Requests
      /\ (CHOOSE now \in Nows : TRUE) \in Nows
  BY OutputAssumption
<1>2. /\ frr \in Taps /\ frrCur \in Taps /\ request \in [r : Requests, now : Nows]
  BY <1>1 DEF Init
<1>3. 0 \in 0..RepSize-1 /\ 0 \in 0..MaxWrites
  BY OutputAssumption
<1>4. [utc |-> 0, coarse |-> 0, frac |-> 0] \in Deltas
  BY Sizes, UnitsAssumption DEF Deltas
<1>5. attrs \in AttrsType
  BY <1>4, Ranges DEF Init, Disabled, AttrsType, Modes
<1>6. chan \in ChanType
  BY <1>3, <1>4, Ranges DEF Init, Off, ChanType, Modes
<1>7. steps \in Seq(Step)
  BY EmptySeq DEF Init
<1>8. TypeOK
  <2>1. /\ attrs.start \in AttrRange /\ attrs.end \in AttrRange
        /\ chan.start \in AttrRange /\ chan.end \in AttrRange /\ chan.count \in 0..RepSize-1
        /\ chan.enabled \in BOOLEAN /\ chan.noFine \in BOOLEAN /\ chan.armed \in BOOLEAN
    BY <1>5, <1>6, Ranges DEF AttrsType, ChanType
  <2>2. QED
    BY <1>2, <1>3, <2>1 DEF Init, TypeOK
<1>9. QED
  BY <1>2, <1>5, <1>6, <1>7, <1>8 DEF TypeInv, Init

\* The parts of the type of a block and of the channel, for a step that changes them.
LEMMA TypeJoin ==
  ASSUME TypeOK, attrs' \in AttrsType, chan' \in ChanType,
         request' \in [r : Requests, now : Nows], edited' \in BOOLEAN, steps' \in Seq(Step),
         pc' = "tap" => tap' \in Taps, timer' = "wrote" => newTap' \in Taps,
         pc' \in {"idle", "offsets", "tap", "program"}, blocks' \in 0..2,
         tap' \in Taps \cup {0}, newTap' \in Taps \cup {0}, frr' \in Taps, frrCur' \in Taps,
         timer' \in {"idle", "wrote", "off"},
         offsets' \in [OffsetNames -> OffsetValues \cup {0}], writes' \in 0..MaxWrites
  PROVE  TypeInv'
<1>1. /\ attrs'.start \in AttrRange /\ attrs'.end \in AttrRange
      /\ chan'.start \in AttrRange /\ chan'.end \in AttrRange /\ chan'.count \in 0..RepSize-1
      /\ chan'.enabled \in BOOLEAN /\ chan'.noFine \in BOOLEAN /\ chan'.armed \in BOOLEAN
  BY Ranges DEF AttrsType, ChanType
<1>2. TypeOK'
  BY <1>1 DEF TypeOK
<1>3. QED
  BY <1>2 DEF TypeInv

\* Blocks, offsets added to them, users and the timer keep the types.
LEMMA TypeStep == TypeInv /\ [Next]_vars => TypeInv'
<1> SUFFICES ASSUME TypeInv, [Next]_vars PROVE TypeInv'
  OBVIOUS
<1>0. /\ TypeOK /\ attrs \in AttrsType /\ chan \in ChanType
      /\ request \in [r : Requests, now : Nows] /\ edited \in BOOLEAN
      /\ steps \in Seq(Step) /\ pc \in {"idle", "offsets", "tap", "program"}
      /\ blocks \in 0..2 /\ tap \in Taps \cup {0} /\ newTap \in Taps \cup {0}
      /\ frr \in Taps /\ frrCur \in Taps /\ timer \in {"idle", "wrote", "off"}
      /\ offsets \in [OffsetNames -> OffsetValues \cup {0}] /\ writes \in 0..MaxWrites
      /\ pc = "tap" => tap \in Taps
      /\ timer = "wrote" => newTap \in Taps
  BY DEF TypeInv, TypeOK
<1> USE <1>0
<1>1. ASSUME NEW r \in Requests, NEW now \in Nows, Disable(r, now) PROVE TypeInv'
  <2>1. chan' \in ChanType
    BY <1>1 DEF Disable, ChanType, Modes
  <2>2. blocks' \in 0..2
    BY <1>1 DEF Disable, Free
  <2>3. request' \in [r : Requests, now : Nows] /\ edited' \in BOOLEAN
    BY <1>1 DEF Disable, Asked
  <2>4. /\ attrs' = attrs /\ steps' = steps /\ pc' = pc /\ tap' = tap /\ newTap' = newTap
        /\ frr' = frr /\ frrCur' = frrCur /\ timer' = timer
        /\ offsets' = offsets /\ writes' = writes
    BY <1>1 DEF Disable, outputVars, offsetVars, tapVars
  <2>5. QED
    BY <2>1, <2>2, <2>3, <2>4, TypeJoin
<1>2. ASSUME NEW r \in Requests, NEW now \in Nows, Drop(r, now) PROVE TypeInv'
  <2>1. blocks' \in 0..2
    BY <1>2 DEF Drop, Free
  <2>2. /\ attrs' = attrs /\ steps' = steps /\ pc' = pc /\ tap' = tap /\ newTap' = newTap
        /\ frr' = frr /\ frrCur' = frrCur /\ timer' = timer /\ chan' = chan
        /\ offsets' = offsets /\ writes' = writes /\ request' = request /\ edited' = edited
    BY <1>2 DEF Drop, outputVars, offsetVars, tapVars
  <2>3. QED
    BY <2>1, <2>2, TypeJoin
<1>3. ASSUME NEW r \in Requests, NEW now \in Nows, Accept(r, now) PROVE TypeInv'
  <2>1. blocks' \in 0..2
    BY <1>3 DEF Accept, Free
  <2>2. attrs' \in AttrsType
    BY <1>3, AttrsTyped DEF Accept
  <2>3. steps' \in Seq(Step)
    BY <1>3, Table DEF Accept
  <2>4. request' \in [r : Requests, now : Nows] /\ edited' \in BOOLEAN
    BY <1>3 DEF Accept, Asked
  <2>5. /\ pc' = "offsets" /\ tap' = tap /\ newTap' = newTap
        /\ frr' = frr /\ frrCur' = frrCur /\ timer' = timer /\ chan' = chan
        /\ offsets' = offsets /\ writes' = writes
    BY <1>3 DEF Accept, offsetVars, tapVars
  <2>6. QED
    BY <2>1, <2>2, <2>3, <2>4, <2>5, TypeJoin
<1>4. CASE AddOffset
  <2>1. attrs' \in AttrsType
    <3> DEFINE p == offsets[Head(steps)[2]]
    <3>1. \/ /\ attrs' = [attrs EXCEPT !.start = ApplyOffset(@, p)]
             /\ ApplyOffset(attrs.start, p) \in AttrTimes
          \/ /\ attrs' = [attrs EXCEPT !.end = ApplyOffset(@, p)]
             /\ ApplyOffset(attrs.end, p) \in AttrRange
      BY <1>4, StepAdds
    <3> HIDE DEF p
    <3>2. QED
      BY <3>1 DEF AttrsType
  <2>2. steps' \in Seq(Step)
    BY <1>4, HeadTailProperties DEF AddOffset
  <2>3. /\ pc' = pc /\ tap' = tap /\ newTap' = newTap /\ blocks' = blocks
        /\ frr' = frr /\ frrCur' = frrCur /\ timer' = timer /\ chan' = chan
        /\ offsets' = offsets /\ writes' = writes /\ request' = request /\ edited' = edited
    BY <1>4 DEF AddOffset, offsetVars, tapVars, history
  <2>4. QED
    BY <2>1, <2>2, <2>3, TypeJoin
<1>5. CASE ReadTap
  BY <1>5, TypeJoin DEF ReadTap, offsetVars, history
<1>6. CASE WriteTap
  <2>1. tap \in Taps
    BY <1>6 DEF WriteTap, TypeInv
  <2>2. QED
    BY <1>6, <2>1, TypeJoin DEF WriteTap, offsetVars, history
<1>7. CASE Program
  <2>1. /\ attrs.rep \in Int /\ attrs.mode \in Modes /\ attrs.start \in AttrTimes
        /\ attrs.end \in AttrRange /\ attrs.delta \in Deltas
    BY DEF AttrsType
  <2>2. RepCount(attrs) \in 0..RepSize-1
    BY <2>1, RepCountIs
  <2>3. /\ (attrs.rep < 0) \in BOOLEAN /\ (attrs.mode = "pulse") \in BOOLEAN
        /\ NoFine(attrs) \in BOOLEAN
    BY DEF NoFine
  <2>4. chan' \in ChanType
    BY <1>7, <2>1, <2>2, <2>3 DEF Program, ChanType
  <2>5. attrs' \in AttrsType
    <3>1. [utc |-> 0, coarse |-> 0, frac |-> 0] \in Deltas
      BY Sizes, UnitsAssumption DEF Deltas
    <3>2. QED
      BY <1>7, <3>1, Ranges DEF Program, Disabled, AttrsType, Modes
  <2>6. /\ pc' = "idle" /\ tap' = tap /\ newTap' = newTap /\ blocks' = blocks
        /\ frr' = frr /\ frrCur' = frrCur /\ timer' = timer /\ steps' = steps
        /\ offsets' = offsets /\ writes' = writes /\ request' = request /\ edited' = edited
    BY <1>7 DEF Program, offsetVars, tapVars, history
  <2>7. QED
    BY <2>4, <2>5, <2>6, TypeJoin
<1>8. ASSUME NEW name \in OffsetNames, NEW value \in OffsetValues, WriteOffset(name, value)
      PROVE  TypeInv'
  <2>1. writes' \in 0..MaxWrites
    BY <1>8, OutputAssumption DEF WriteOffset
  <2>2. offsets' \in [OffsetNames -> OffsetValues \cup {0}]
    BY <1>8 DEF WriteOffset
  <2>3. /\ attrs' = attrs /\ steps' = steps /\ pc' = pc /\ tap' = tap /\ newTap' = newTap
        /\ frr' = frr /\ frrCur' = frrCur /\ timer' = timer /\ chan' = chan
        /\ blocks' = blocks /\ request' = request /\ edited' \in BOOLEAN
    BY <1>8 DEF WriteOffset, outputVars, tapVars
  <2>4. QED
    BY <2>1, <2>2, <2>3, TypeJoin
<1>9. ASSUME NEW new \in Taps, SetTap(new) PROVE TypeInv'
  BY <1>9, TypeJoin DEF SetTap, outputVars, offsetVars, history
<1>10. CASE KeepTap
  <2>1. newTap \in Taps
    BY <1>10 DEF KeepTap, Kept, TypeInv
  <2>2. QED
    BY <1>10, <2>1, TypeJoin DEF KeepTap, Kept, KeepFrame, outputVars, offsetVars, history
<1>11. CASE UNCHANGED vars
  BY <1>11, TypeJoin DEF vars, outputVars, offsetVars, tapVars, history
<1>12. QED
  BY <1>1, <1>2, <1>3, <1>4, <1>5, <1>6, <1>7, <1>8, <1>9, <1>10, <1>11 DEF Next
\* The registers and the bookkeeping have their types, and the count fits its field.
THEOREM OutputTyped == Spec => []TypeOK
<1>1. TypeInv => TypeOK
  BY DEF TypeInv
<1>2. QED
  BY <1>1, TypeInit, TypeStep, PTL DEF Spec

----------------------------------------------------------------------------
(* The block and the channel, and the request they are for.                *)

BlockInv ==
  /\ pc # "idle" => /\ attrs.mode = request.r.mode /\ attrs.rep = request.r.rep
                    /\ attrs.end \in EndAttrs(request.r.client)
  /\ InForce => /\ chan.end \in EndAttrs(request.r.client)
                /\ chan.cont <=> request.r.rep < 0
                /\ chan.count = RepCount(request.r)
                /\ chan.noFine <=> NoFine(chan)

\* A step of somebody else, or one that takes the channel out of force.
LEMMA BlockFrame ==
  ASSUME BlockInv, attrs' = attrs, pc' = pc, request' = request,
         chan' = chan \/ ~chan'.enabled
  PROVE  BlockInv'
<1>1. CASE chan' = chan
  BY <1>1 DEF BlockInv, InForce, NoFine, WidthIn, GapIn, Utc
<1>2. CASE ~chan'.enabled
  BY <1>2 DEF BlockInv, InForce
<1>3. QED
  BY <1>1, <1>2

\* The block and the registers keep to the request while offsets are added.
LEMMA BlockStep == TypeInv /\ BlockInv /\ [Next]_vars => BlockInv'
<1> SUFFICES ASSUME TypeInv, BlockInv, [Next]_vars PROVE BlockInv'
  OBVIOUS
<1>1. ASSUME NEW r \in Requests, NEW now \in Nows, Disable(r, now) PROVE BlockInv'
  <2>1. chan'.enabled = FALSE
    BY <1>1 DEF Disable, TypeInv, ChanType
  <2>2. pc' = "idle"
    BY <1>1 DEF Disable, Free, outputVars
  <2>3. QED
    BY <2>1, <2>2 DEF BlockInv, InForce
<1>2. ASSUME NEW r \in Requests, NEW now \in Nows, Drop(r, now) PROVE BlockInv'
  BY <1>2, BlockFrame DEF Drop, outputVars
<1>3. ASSUME NEW r \in Requests, NEW now \in Nows, Accept(r, now) PROVE BlockInv'
  <2>1. pc' = "offsets" /\ request'.r = r /\ attrs' = Attrs(r, now)
    BY <1>3 DEF Accept, Asked
  <2>2. QED
    BY <2>1, AttrsTyped DEF BlockInv, InForce
<1>4. CASE AddOffset
  <2>1. pc' = "offsets" /\ pc = "offsets" /\ request' = request
    BY <1>4 DEF AddOffset, history
  <2> DEFINE p == offsets[Head(steps)[2]]   c == request.r.client
  <2>2. /\ p \in OffsetValues \cup {0}
        /\ \/ attrs' = [attrs EXCEPT !.start = ApplyOffset(@, p)]
           \/ attrs' = [attrs EXCEPT !.end = ApplyOffset(@, p)]
    BY <1>4, StepAdds
  <2>3. attrs \in AttrsType /\ attrs.end \in EndAttrs(c)
    BY <2>1 DEF TypeInv, BlockInv
  <2> HIDE DEF p, c
  <2>4. ApplyOffset(attrs.end, p) \in EndAttrs(c)
    <3>1. /\ CoarsePerSec <= CoarseLimit(c) /\ FracPerCoarse <= FracLimit(c)
          /\ CoarseLimit(c) \in Int /\ FracLimit(c) \in Int
      BY Limits, Sizes
    <3>2. QED
      BY <2>2, <2>3, <3>1, OffsetWithin, Ranges
  <2>5. attrs'.mode = attrs.mode /\ attrs'.rep = attrs.rep /\ attrs'.end \in EndAttrs(c)
    BY <2>2, <2>3, <2>4 DEF AttrsType
  <2>6. QED
    BY <2>1, <2>5 DEF BlockInv, InForce, c
<1>5. CASE ReadTap
  BY <1>5 DEF ReadTap, BlockInv, InForce, history
<1>6. CASE WriteTap
  BY <1>6 DEF WriteTap, BlockInv, InForce, history
<1>7. CASE Program
  <2>1. /\ pc' = "idle" /\ request' = request /\ pc = "program"
        /\ chan' = [enabled |-> TRUE, mode |-> attrs.mode, start |-> attrs.start,
                    end |-> attrs.end, delta |-> attrs.delta, count |-> RepCount(attrs),
                    cont |-> attrs.rep < 0, noFine |-> NoFine(attrs),
                    armed |-> attrs.mode = "pulse"]
    BY <1>7 DEF Program, history
  <2>2. /\ attrs.rep = request.r.rep /\ attrs.end \in EndAttrs(request.r.client)
    BY <2>1 DEF BlockInv
  <2>3. RepCount(attrs) = RepCount(request.r)
    BY <2>2 DEF RepCount
  <2>4. /\ chan'.end = attrs.end /\ chan'.start = attrs.start /\ chan'.delta = attrs.delta
        /\ chan'.count = RepCount(request.r)
        /\ chan'.cont <=> attrs.rep < 0
        /\ chan'.noFine <=> NoFine(attrs)
    BY <2>1, <2>3
  <2>5. NoFine(chan') <=> NoFine(attrs)
    BY <2>4 DEF NoFine, WidthIn, GapIn, Utc
  <2>6. QED
    BY <2>1, <2>2, <2>4, <2>5 DEF BlockInv, InForce, NoFine, WidthIn, GapIn, Utc
<1>8. ASSUME NEW name \in OffsetNames, NEW value \in OffsetValues, WriteOffset(name, value)
      PROVE  BlockInv'
  BY <1>8, BlockFrame DEF WriteOffset, outputVars
<1>9. ASSUME NEW new \in Taps, SetTap(new) PROVE BlockInv'
  BY <1>9, BlockFrame DEF SetTap, outputVars, history
<1>10. CASE KeepTap
  BY <1>10, BlockFrame DEF KeepTap, Kept, KeepFrame, outputVars, history
<1>11. CASE UNCHANGED vars
  BY <1>11, BlockFrame DEF vars, outputVars, history
<1>12. QED
  BY <1>1, <1>2, <1>3, <1>4, <1>5, <1>6, <1>7, <1>8, <1>9, <1>10, <1>11 DEF Next

\* Types and blocks hold in every state of every behaviour.
LEMMA BlockHolds == Spec => [](TypeInv /\ BlockInv)
<1>1. Init => BlockInv
  BY DEF Init, BlockInv, InForce, Off
<1>2. QED
  BY <1>1, TypeInit, TypeStep, BlockStep, PTL DEF Spec

\* The counts of the end that the channel waits for stay below the limits that the
\* program's own addition has: no offset, and no number of them, takes them further.
THEOREM EndHolds == Spec => []EndInRange
<1>1. TypeInv /\ BlockInv => EndInRange
  <2> SUFFICES ASSUME TypeInv, BlockInv, InForce PROVE EndInRange
    BY DEF EndInRange
  <2> DEFINE c == request.r.client
  <2>1. chan.end \in EndAttrs(c)
    BY DEF BlockInv
  <2>2. chan.end.coarse < CoarseLimit(c) /\ chan.end.frac < FracLimit(c)
    BY <2>1, Limits DEF EndAttrs
  <2>3. QED
    BY <2>2 DEF EndInRange, CoarseLimit, FracLimit
<1>2. QED
  BY <1>1, BlockHolds, PTL

\* Whatever was accepted, the channel counts the pulses that were asked for.
THEOREM TrainHolds == Spec => []TrainAsAsked
<1>1. TypeInv /\ BlockInv => TrainAsAsked
  <2> SUFFICES ASSUME TypeInv, BlockInv, InForce PROVE TrainAsAsked
    BY DEF TrainAsAsked
  <2>1. request.r.rep \in Int
    BY OutputAssumption, ArgIs DEF TypeInv
  <2>2. (chan.cont <=> request.r.rep < 0) /\ chan.count = RepCount(request.r)
    BY DEF BlockInv
  <2>3. QED
    BY <2>1, <2>2, RepCountIs DEF TrainAsAsked
<1>2. QED
  BY <1>1, BlockHolds, PTL

\* The subtractions with their borrows find the narrow pulses and gaps, for every start,
\* width and period.
THEOREM NoFineHolds == Spec => []NoFineIffNarrow
<1>1. TypeInv /\ BlockInv => NoFineIffNarrow
  <2> SUFFICES ASSUME TypeInv, BlockInv, InForce, chan.end.coarse < CoarsePerSec
               PROVE  NoFineIffNarrow
    BY DEF NoFineIffNarrow
  <2>1. chan.start \in AttrTimes /\ chan.end \in AttrRange /\ chan.delta \in Deltas
    BY DEF TypeInv, ChanType
  <2>2. /\ chan.end.utcH \in 0..WordSize-1 /\ chan.end.utcL \in 0..WordSize-1
        /\ chan.end.coarse \in 0..CoarsePerSec-1
    BY <2>1, Sizes DEF AttrRange
  <2>3. NoFine(chan) <=> Narrow(chan)
    BY <2>1, <2>2, NoFineIs
  <2>4. chan.noFine <=> Narrow(chan)
    BY <2>3 DEF BlockInv
  <2>5. QED
    BY <2>4 DEF NoFineIffNarrow, Narrow
<1>2. QED
  BY <1>1, BlockHolds, PTL
----------------------------------------------------------------------------
(* The start and the end are moved by all the offsets, once each.          *)

Moves(name) == OffsetUnits(offsets[name])

\* What the last n of the offsets move the start and the end by.
StartTodo(n) == (IF n >= 6 THEN Moves("tdc") ELSE 0) + (IF n >= 4 THEN Moves("zero") ELSE 0)
                + (IF n >= 3 THEN Moves("user") ELSE 0)
EndTodo(n)   == (IF n >= 5 THEN Moves("tdc") ELSE 0) + (IF n >= 2 THEN Moves("zero") ELSE 0)
                + (IF n >= 1 THEN Moves("user") ELSE 0)

\* The start and the end that the registers shall have.
Start == GivenStart(request.r, request.now) + Applied
End   == GivenStart(request.r, request.now) + AskedWidth(request.r) + Applied

ExactInv ==
  /\ pc # "idle" => /\ Len(steps) <= 6
                    /\ \A i \in 1..Len(steps) : steps[i] = DelayOffsets[6 - Len(steps) + i]
  /\ pc \in {"tap", "program"} => steps = <<>>
  /\ pc # "idle" /\ ~edited => /\ Equiv(AttrUnits(attrs.start) + StartTodo(Len(steps)), Start)
                               /\ Equiv(AttrUnits(attrs.end) + EndTodo(Len(steps)), End)
  /\ InForce /\ ~edited => /\ Equiv(AttrUnits(chan.start), Start)
                           /\ Equiv(AttrUnits(chan.end), End)

\* Each of the three offsets is a whole number of units.
LEMMA MovesInt ==
  ASSUME TypeInv
  PROVE  Moves("tdc") \in Int /\ Moves("zero") \in Int /\ Moves("user") \in Int
<1>1. ASSUME NEW name \in OffsetNames PROVE Moves(name) \in Int
  <2>1. offsets[name] \in OffsetValues \cup {0}
    BY DEF TypeInv, TypeOK
  <2>2. offsets[name] \in Offsets
    BY <2>1, OffsetsAssumption, Sizes DEF Offsets
  <2>3. QED
    BY <2>2, OffsetUnitsType DEF Moves
<1>2. QED
  BY <1>1 DEF OffsetNames

\* The sums below are whole numbers.
LEMMA StartEndInt ==
  ASSUME TypeInv
  PROVE  /\ Start \in Int /\ End \in Int /\ Applied \in Int
         /\ GivenStart(request.r, request.now) \in Int /\ AskedWidth(request.r) \in Int
<1>1. request.r \in Requests /\ request.now \in Nows
  BY DEF TypeInv
<1>2. GivenStart(request.r, request.now) \in Int /\ AskedWidth(request.r) \in Int
  BY <1>1, AttrsTyped
<1>3. Applied \in Int
  BY MovesInt DEF Applied, Moves
<1>4. QED
  BY <1>2, <1>3 DEF Start, End

\* Attributes count whole numbers of units.
LEMMA AttrInt ==
  /\ \A a \in AttrRange : AttrUnits(a) \in Int
  /\ \A a \in AttrTimes : AttrUnits(a) \in Int
<1>1. \A a \in AttrRange : AttrUnits(a) \in Int
  BY Sizes, UnitsAssumption DEF AttrRange, AttrUnits, Units
<1>2. QED
  BY <1>1, UnitsInt

\* A step of somebody else.
LEMMA ExactFrame ==
  ASSUME ExactInv, attrs' = attrs, pc' = pc, steps' = steps, offsets' = offsets \/ edited',
         request' = request, chan' = chan \/ ~chan'.enabled,
         edited' = edited \/ edited'
  PROVE  ExactInv'
BY DEF ExactInv, InForce, Start, End, StartTodo, EndTodo, Moves, Applied

\* The offset that comes next.
LEMMA NextOffset ==
  ASSUME TypeInv, ExactInv, AddOffset
  PROVE  /\ Len(steps) \in 1..6 /\ Len(steps') = Len(steps) - 1
         /\ Head(steps) = DelayOffsets[7 - Len(steps)]
         /\ \A i \in 1..Len(steps') : steps'[i] = DelayOffsets[6 - Len(steps') + i]
<1> DEFINE n == Len(steps)
<1>1. steps \in Seq(Step) /\ steps # <<>> /\ steps' = Tail(steps) /\ pc = "offsets"
  BY DEF AddOffset, TypeInv
<1>2. n \in Nat /\ n # 0
  BY <1>1, EmptySeq, LenProperties
<1>3. n <= 6 /\ \A i \in 1..n : steps[i] = DelayOffsets[6 - n + i]
  BY <1>1 DEF ExactInv
<1>4. Head(steps) = steps[1]
  BY <1>1
<1>5. Len(steps') = n - 1 /\ \A i \in 1..Len(steps') : steps'[i] = steps[i + 1]
  BY <1>1, HeadTailProperties
<1> HIDE DEF n
<1>6. Head(steps) = DelayOffsets[7 - n]
  <2>1. 1 \in 1..n /\ 6 - n + 1 = 7 - n
    BY <1>2
  <2>2. QED
    BY <1>3, <1>4, <2>1
<1>7. ASSUME NEW i \in 1..n-1 PROVE steps'[i] = DelayOffsets[6 - (n - 1) + i]
  <2>1. i + 1 \in 1..n /\ 6 - n + (i + 1) = 6 - (n - 1) + i
    BY <1>2
  <2>2. steps'[i] = steps[i + 1]
    BY <1>5
  <2>3. QED
    BY <1>3, <2>1, <2>2
<1>8. \A i \in 1..Len(steps') : steps'[i] = DelayOffsets[6 - Len(steps') + i]
  BY <1>5, <1>7
<1>9. n \in 1..6
  BY <1>2, <1>3
<1>10. QED
  BY <1>5, <1>6, <1>8, <1>9 DEF n

\* What it moves is what there is less to do.
LEMMA TodoStep ==
  ASSUME TypeInv, NEW n \in 1..6, NEW h, h = DelayOffsets[7 - n]
  PROVE  /\ h[1] \in {"start", "end"} /\ h[2] \in OffsetNames
         /\ h[1] = "start" => /\ StartTodo(n) = Moves(h[2]) + StartTodo(n - 1)
                              /\ EndTodo(n) = EndTodo(n - 1)
         /\ h[1] = "end" => /\ EndTodo(n) = Moves(h[2]) + EndTodo(n - 1)
                            /\ StartTodo(n) = StartTodo(n - 1)
<1> USE MovesInt DEF StartTodo, EndTodo, OffsetNames
<1>1. CASE n = 6
  BY <1>1, Table
<1>2. CASE n = 5
  BY <1>2, Table
<1>3. CASE n = 4
  BY <1>3, Table
<1>4. CASE n = 3
  BY <1>4, Table
<1>5. CASE n = 2
  BY <1>5, Table
<1>6. CASE n = 1
  BY <1>6, Table
<1>7. QED
  BY <1>1, <1>2, <1>3, <1>4, <1>5, <1>6

\* What is left to add is a whole number of units.
LEMMA TodoInt ==
  ASSUME TypeInv, NEW n \in 0..6
  PROVE  StartTodo(n) \in Int /\ EndTodo(n) \in Int
BY MovesInt DEF StartTodo, EndTodo

\* All the offsets of a mode, and none.
LEMMA TodoEnds ==
  ASSUME TypeInv
  PROVE  /\ StartTodo(6) = Moves("zero") + Moves("user") + Moves("tdc")
         /\ EndTodo(6) = Moves("zero") + Moves("user") + Moves("tdc")
         /\ StartTodo(4) = Moves("zero") + Moves("user") + 0
         /\ EndTodo(4) = Moves("zero") + Moves("user") + 0
         /\ StartTodo(0) = 0 /\ EndTodo(0) = 0
BY MovesInt DEF StartTodo, EndTodo

\* One offset less to do, and moved by it.
LEMMA MovedOn ==
  ASSUME NEW x \in Int, NEW y \in Int, NEW d \in Int, NEW t \in Int, NEW z \in Int,
         Equiv(y, x + d), Equiv(x + (d + t), z)
  PROVE  Equiv(y + t, z)
<1>1. Equiv(y + t, (x + d) + t)
  BY EquivSum, EquivSelf
<1>2. (x + d) + t = x + (d + t) /\ x + (d + t) \in Int /\ y + t \in Int
  OBVIOUS
<1>3. Equiv(y + t, x + (d + t))
  BY <1>1, <1>2
<1>4. QED
  BY <1>2, <1>3, EquivTrans
\* When a block is accepted, all offsets are still to be added.
LEMMA AcceptExact ==
  ASSUME TypeInv, TypeInv', NEW r \in Requests, NEW now \in Nows, Accept(r, now)
  PROVE  ExactInv'
<1>1. /\ pc' = "offsets" /\ request' = [r |-> r, now |-> now] /\ attrs' = Attrs(r, now)
      /\ steps' = (IF r.mode = "delay" THEN DelayOffsets ELSE OutputOffsets)
      /\ offsets' = offsets
  BY DEF Accept, Asked, offsetVars
<1> DEFINE a == GivenStart(r, now)   w == AskedWidth(r)   n == Len(steps')
           all == Moves("zero") + Moves("user") + (IF r.mode = "delay" THEN Moves("tdc") ELSE 0)
           x == AttrUnits(attrs'.start)   y == AttrUnits(attrs'.end)
<1>2. a \in Int /\ w \in Int /\ Equiv(x, a) /\ Equiv(y, a + w)
  BY <1>1, AttrsTyped
<1>3. x \in Int /\ y \in Int
  <2>1. attrs'.start \in AttrTimes /\ attrs'.end \in AttrRange
    BY DEF TypeInv, AttrsType
  <2>2. QED
    BY <2>1, AttrInt
<1>4. all \in Int
  BY MovesInt
<1>5. /\ Start' = a + all /\ End' = a + w + all
      /\ StartTodo(Len(steps))' = StartTodo(n) /\ EndTodo(Len(steps))' = EndTodo(n)
  BY <1>1 DEF Applied, Start, End, Moves, StartTodo, EndTodo
<1>6. /\ n \in {4, 6} /\ StartTodo(n) = all /\ EndTodo(n) = all
      /\ \A i \in 1..n : steps'[i] = DelayOffsets[6 - n + i]
  <2>1. CASE r.mode = "delay"
    <3>1. steps' = DelayOffsets /\ n = 6
      BY <1>1, <2>1, Table
    <3>2. \A i \in 1..6 : DelayOffsets[i] = DelayOffsets[6 - 6 + i]
      OBVIOUS
    <3>3. QED
      BY <2>1, <3>1, <3>2, TodoEnds
  <2>2. CASE r.mode # "delay"
    <3>1. steps' = OutputOffsets /\ n = 4
      BY <1>1, <2>2, Table
    <3>2. \A i \in 1..4 : OutputOffsets[i] = DelayOffsets[6 - 4 + i]
      <4>1. \A i \in 1..4 : 6 - 4 + i = i + 2
        OBVIOUS
      <4>2. QED
        BY <4>1, Table
    <3>3. QED
      BY <2>2, <3>1, <3>2, TodoEnds
  <2>3. QED
    BY <2>1, <2>2
<1>7. Equiv(x + StartTodo(n), a + all) /\ Equiv(y + EndTodo(n), a + w + all)
  <2> HIDE DEF x, y, a, w, all, n
  <2>1. a + w \in Int /\ a + w + all = (a + w) + all
    BY <1>2, <1>4
  <2>2. Equiv(x + all, a + all) /\ Equiv(y + all, (a + w) + all)
    BY <1>2, <1>3, <1>4, <2>1, EquivSum, EquivSelf
  <2>3. QED
    BY <1>6, <2>1, <2>2
<1> HIDE DEF x, y, a, w, all
<1>8. /\ Equiv(AttrUnits(attrs'.start) + StartTodo(Len(steps))', Start')
      /\ Equiv(AttrUnits(attrs'.end) + EndTodo(Len(steps))', End')
  BY <1>5, <1>7 DEF x, y
<1>9. Len(steps') <= 6
  <2>1. n \in {4, 6}
    BY <1>6
  <2> HIDE DEF n
  <2>2. n <= 6
    BY <2>1
  <2>3. QED
    BY <2>2 DEF n
<1>10. QED
  BY <1>1, <1>6, <1>8, <1>9 DEF ExactInv, InForce

\* An offset that is added is no longer to be added, unless it was written meanwhile.
LEMMA AddExact ==
  ASSUME TypeInv, TypeInv', ExactInv, AddOffset
  PROVE  ExactInv'
<1> DEFINE h == Head(steps)   n == Len(steps)   p == offsets[h[2]]   d == Moves(h[2])
           x == AttrUnits(attrs.start)   y == AttrUnits(attrs.end)
           x1 == AttrUnits(attrs'.start)   y1 == AttrUnits(attrs'.end)
<1>1. /\ pc = "offsets" /\ pc' = "offsets" /\ request' = request /\ offsets' = offsets
      /\ chan' = chan /\ edited' = edited
  BY DEF AddOffset, offsetVars, history
<1>2. /\ n \in 1..6 /\ Len(steps') = n - 1 /\ h = DelayOffsets[7 - n]
      /\ \A i \in 1..Len(steps') : steps'[i] = DelayOffsets[6 - Len(steps') + i]
  BY NextOffset
<1>3. /\ Start' = Start /\ End' = End
      /\ StartTodo(Len(steps))' = StartTodo(n - 1) /\ EndTodo(Len(steps))' = EndTodo(n - 1)
  BY <1>1, <1>2 DEF Applied, Start, End, Moves, StartTodo, EndTodo
<1>4. /\ h[1] \in {"start", "end"} /\ h[2] \in OffsetNames
      /\ h[1] = "start" => /\ StartTodo(n) = d + StartTodo(n - 1)
                           /\ EndTodo(n) = EndTodo(n - 1)
      /\ h[1] = "end" => /\ EndTodo(n) = d + EndTodo(n - 1)
                         /\ StartTodo(n) = StartTodo(n - 1)
  BY <1>2, TodoStep
<1>5. /\ p \in OffsetValues \cup {0}
      /\ \/ h[1] = "start" /\ attrs' = [attrs EXCEPT !.start = ApplyOffset(@, p)]
         \/ h[1] = "end" /\ attrs' = [attrs EXCEPT !.end = ApplyOffset(@, p)]
  BY StepAdds
<1>6. attrs \in AttrsType /\ attrs.start \in AttrTimes /\ attrs.end \in AttrRange
  BY DEF TypeInv, AttrsType
<1>7. /\ x \in Int /\ y \in Int /\ x1 \in Int /\ y1 \in Int /\ d \in Int
      /\ StartTodo(n - 1) \in Int /\ EndTodo(n - 1) \in Int /\ Start \in Int /\ End \in Int
  <2>1. x \in Int /\ y \in Int
    BY <1>6, AttrInt
  <2>2. attrs'.start \in AttrTimes /\ attrs'.end \in AttrRange
    BY DEF TypeInv, AttrsType
  <2>3. x1 \in Int /\ y1 \in Int
    BY <2>2, AttrInt
  <2>4. d \in Int
    BY <1>4, MovesInt DEF OffsetNames
  <2>5. n - 1 \in 0..6
    BY <1>2, SMTT(30)
  <2>6. StartTodo(n - 1) \in Int /\ EndTodo(n - 1) \in Int
    BY <2>5, TodoInt
  <2>7. QED
    BY <2>1, <2>3, <2>4, <2>6, StartEndInt
<1>8. /\ Equiv(AttrUnits(ApplyOffset(attrs.start, p)), x + d)
      /\ Equiv(AttrUnits(ApplyOffset(attrs.end, p)), y + d)
  <2>1. d = OffsetUnits(p)
    BY DEF Moves
  <2>2. /\ CoarsePerSec <= CoarsePerSec /\ FracPerCoarse <= FracPerCoarse
        /\ CoarsePerSec \in Int /\ FracPerCoarse \in Int
        /\ CoarsePerSec <= 2 * CoarsePerSec /\ FracPerCoarse <= FracPerCoarse + 1
        /\ 2 * CoarsePerSec \in Int /\ FracPerCoarse + 1 \in Int
    BY Sizes
  <2> HIDE DEF d, p
  <2>3. Equiv(AttrUnits(ApplyOffset(attrs.start, p)), AttrUnits(attrs.start) + OffsetUnits(p))
    BY <1>5, <1>6, <2>2, OffsetWithin, Ranges
  <2>4. Equiv(AttrUnits(ApplyOffset(attrs.end, p)), AttrUnits(attrs.end) + OffsetUnits(p))
    BY <1>5, <1>6, <2>2, OffsetWithin, Ranges
  <2>5. QED
    BY <2>1, <2>3, <2>4
<1> HIDE DEF h, d, p
<1>9. ASSUME ~edited
      PROVE  Equiv(x1 + StartTodo(n - 1), Start) /\ Equiv(y1 + EndTodo(n - 1), End)
  <2>1. Equiv(x + StartTodo(n), Start) /\ Equiv(y + EndTodo(n), End)
    BY <1>1, <1>9 DEF ExactInv
  <2>2. CASE h[1] = "start" /\ attrs' = [attrs EXCEPT !.start = ApplyOffset(@, p)]
    <3>1. attrs'.start = ApplyOffset(attrs.start, p) /\ attrs'.end = attrs.end
      BY <1>6, <2>2 DEF AttrsType
    <3>2. Equiv(x1, x + d) /\ y1 = y
      BY <1>8, <3>1
    <3> HIDE DEF x, y, x1, y1
    <3>3. Equiv(x + (d + StartTodo(n - 1)), Start) /\ Equiv(y1 + EndTodo(n - 1), End)
      BY <1>4, <2>1, <2>2, <3>2
    <3>4. QED
      BY <1>7, <3>2, <3>3, MovedOn
  <2>3. CASE h[1] = "end" /\ attrs' = [attrs EXCEPT !.end = ApplyOffset(@, p)]
    <3>1. attrs'.end = ApplyOffset(attrs.end, p) /\ attrs'.start = attrs.start
      BY <1>6, <2>3 DEF AttrsType
    <3>2. Equiv(y1, y + d) /\ x1 = x
      BY <1>8, <3>1
    <3> HIDE DEF x, y, x1, y1
    <3>3. Equiv(y + (d + EndTodo(n - 1)), End) /\ Equiv(x1 + StartTodo(n - 1), Start)
      BY <1>4, <2>1, <2>3, <3>2
    <3>4. QED
      BY <1>7, <3>2, <3>3, MovedOn
  <2>4. QED
    BY <1>5, <2>2, <2>3
<1>10. ~edited' => /\ Equiv(AttrUnits(attrs'.start) + StartTodo(Len(steps))', Start')
                   /\ Equiv(AttrUnits(attrs'.end) + EndTodo(Len(steps))', End')
  BY <1>1, <1>3, <1>9
<1>11. Len(steps') <= 6
  <2>1. n \in 1..6 /\ Len(steps') = n - 1
    BY <1>2
  <2> HIDE DEF n
  <2>2. n - 1 <= 6
    BY <2>1
  <2>3. QED
    BY <2>1, <2>2
<1>12. QED
  BY <1>1, <1>2, <1>10, <1>11 DEF ExactInv, InForce

\* Every step keeps the account of the offsets.
LEMMA ExactStep == TypeInv /\ ExactInv /\ [Next]_vars => ExactInv'
<1> SUFFICES ASSUME TypeInv, ExactInv, [Next]_vars PROVE ExactInv'
  OBVIOUS
<1>0. TypeInv'
  BY TypeStep
<1>1. ASSUME NEW r \in Requests, NEW now \in Nows, Disable(r, now) PROVE ExactInv'
  <2>1. chan'.enabled = FALSE
    BY <1>1 DEF Disable, TypeInv, ChanType
  <2>2. pc' = "idle"
    BY <1>1 DEF Disable, Free, outputVars
  <2>3. QED
    BY <2>1, <2>2 DEF ExactInv, InForce
<1>2. ASSUME NEW r \in Requests, NEW now \in Nows, Drop(r, now) PROVE ExactInv'
  BY <1>2, ExactFrame DEF Drop, outputVars, offsetVars
<1>3. ASSUME NEW r \in Requests, NEW now \in Nows, Accept(r, now) PROVE ExactInv'
  BY <1>0, <1>3, AcceptExact
<1>4. CASE AddOffset
  BY <1>0, <1>4, AddExact
<1>5. CASE ReadTap
  <2>1. /\ pc = "offsets" /\ pc' = "tap" /\ attrs' = attrs /\ steps' = steps /\ steps = <<>>
        /\ offsets' = offsets /\ request' = request /\ edited' = edited /\ chan' = chan
    BY <1>5 DEF ReadTap, offsetVars, history
  <2>2. QED
    BY <2>1 DEF ExactInv, InForce, Start, End, StartTodo, EndTodo, Moves, Applied
<1>6. CASE WriteTap
  <2>1. /\ pc = "tap" /\ pc' = "program" /\ attrs' = attrs /\ steps' = steps
        /\ offsets' = offsets /\ request' = request /\ edited' = edited /\ chan' = chan
    BY <1>6 DEF WriteTap, offsetVars, history
  <2>2. QED
    BY <2>1 DEF ExactInv, InForce, Start, End, StartTodo, EndTodo, Moves, Applied
<1>7. CASE Program
  <2>1. /\ pc = "program" /\ pc' = "idle" /\ offsets' = offsets /\ request' = request
        /\ edited' = edited /\ chan'.start = attrs.start /\ chan'.end = attrs.end
    BY <1>7 DEF Program, offsetVars, history
  <2>2. Len(steps) = 0
    BY <2>1 DEF ExactInv
  <2>3. AttrUnits(attrs.start) \in Int /\ AttrUnits(attrs.end) \in Int
    BY AttrInt DEF TypeInv, AttrsType
  <2>4. /\ AttrUnits(attrs.start) + StartTodo(Len(steps)) = AttrUnits(attrs.start)
        /\ AttrUnits(attrs.end) + EndTodo(Len(steps)) = AttrUnits(attrs.end)
    BY <2>2, <2>3, TodoEnds
  <2>5. ~edited => /\ Equiv(AttrUnits(attrs.start), Start)
                   /\ Equiv(AttrUnits(attrs.end), End)
    BY <2>1, <2>4 DEF ExactInv
  <2>6. Start' = Start /\ End' = End
    BY <2>1 DEF Start, End, Applied
  <2>7. QED
    BY <2>1, <2>5, <2>6 DEF ExactInv, InForce
<1>8. ASSUME NEW name \in OffsetNames, NEW value \in OffsetValues, WriteOffset(name, value)
      PROVE  ExactInv'
  BY <1>8, ExactFrame DEF WriteOffset, outputVars
<1>9. ASSUME NEW new \in Taps, SetTap(new) PROVE ExactInv'
  BY <1>9, ExactFrame DEF SetTap, outputVars, offsetVars, history
<1>10. CASE KeepTap
  BY <1>10, ExactFrame DEF KeepTap, Kept, KeepFrame, outputVars, offsetVars, history
<1>11. CASE UNCHANGED vars
  BY <1>11, ExactFrame DEF vars, outputVars, offsetVars, history
<1>12. QED
  BY <1>1, <1>2, <1>3, <1>4, <1>5, <1>6, <1>7, <1>8, <1>9, <1>10, <1>11 DEF Next

\* Whatever program asks, in its own units and with its own parser and addition of times,
\* and whatever the offsets: the channel has the start that was asked for, moved by the
\* offsets once each, and an end that is later by the width, unless an offset was written
\* since. A start that a logger puts off is the one exception, and that pulse still has
\* its width.
THEOREM PulseHolds == Spec => []PulseAsAsked
<1>1. Init => ExactInv
  BY DEF Init, ExactInv, InForce, Off
<1>2. TypeInv /\ ExactInv => PulseAsAsked
  <2> SUFFICES ASSUME TypeInv, ExactInv, InForce, ~edited PROVE PulseAsAsked
    BY DEF PulseAsAsked
  <2> DEFINE x == AttrUnits(chan.start)   y == AttrUnits(chan.end)   w == AskedWidth(request.r)
  <2>1. Equiv(x, Start) /\ Equiv(y, End)
    BY DEF ExactInv
  <2>2. x \in Int /\ y \in Int
    BY AttrInt DEF TypeInv, ChanType
  <2>3. Start \in Int /\ End \in Int /\ w \in Int /\ End = Start + w
    BY StartEndInt DEF Start, End
  <2> HIDE DEF x, y, w
  <2>4. Equiv(x - w, Start - w) /\ Equiv(x + w, Start + w)
    BY <2>1, <2>2, <2>3, EquivSum, EquivSelf
  <2>5. Equiv(Start + w, x + w)
    <3>1. PICK k \in Int : x + w = (Start + w) + k * Span
      BY <2>4 DEF Equiv
    <3>2. -k \in Int /\ Start + w = (x + w) + (-k) * Span
      BY <2>2, <2>3, <3>1, SpanPositive
    <3>3. QED
      BY <3>2 DEF Equiv
  <2>6. Equiv(y, x + w)
    <3>1. x + w \in Int /\ Start + w \in Int
      BY <2>2, <2>3
    <3>2. QED
      BY <2>1, <2>2, <2>3, <2>5, <3>1, EquivTrans
  <2>7. Same(y, x + w)
    <3>1. x + w \in Int
      BY <2>2, <2>3
    <3>2. QED
      BY <2>1, <2>2, <2>3, <2>6, <3>1, SameEquiv
  <2>8. ASSUME ~PutOff(request.r)
        PROVE  Same(x, AskedStart(request.r, request.now) + Applied)
    <3> DEFINE g == GivenStart(request.r, request.now)
               a == AskedStart(request.r, request.now)
    <3>1. Requestable(request.r) /\ request.now \in Times
      BY OutputAssumption DEF TypeInv
    <3>2. a \in Int /\ Equiv(g, a)
      BY <2>8, <3>1, StartExact DEF GivenStart
    <3>3. g \in Int /\ Applied \in Int
      BY StartEndInt
    <3>4. Start = g + Applied
      BY DEF Start
    <3> HIDE DEF g, a
    <3>5. Equiv(Start, a + Applied) /\ a + Applied \in Int
      BY <3>2, <3>3, <3>4, EquivSum, EquivSelf
    <3>6. Equiv(x, a + Applied)
      BY <2>1, <2>2, <2>3, <3>5, EquivTrans
    <3>7. Same(x, a + Applied)
      BY <2>2, <3>5, <3>6, SameEquiv
    <3>8. QED
      BY <3>7 DEF a
  <2>9. QED
    BY <2>7, <2>8 DEF PulseAsAsked, x, y, w
<1>3. QED
  BY <1>1, <1>2, TypeInit, TypeStep, ExactStep, PTL DEF Spec
----------------------------------------------------------------------------
(* The tap of the delay line.                                              *)

\* The tap that an output has read is still the one remembered while quiet holds; what the
\* timer has written is what it will remember.
TapInv ==
  /\ TapInForce
  /\ timer = "wrote" /\ ~crossed => frr = newTap
  /\ quiet => pc = "tap" /\ timer # "wrote" /\ tap = frrCur
  /\ quiet \in BOOLEAN /\ crossed \in BOOLEAN

\* A step that leaves the tap alone, ...
LEMMA TapFrame ==
  ASSUME TapInv, UNCHANGED tapVars, quiet => pc' = pc /\ tap' = tap
  PROVE  TapInv'
BY DEF TapInv, TapInForce, tapVars

\* ... and the others.
LEMMA TapStep == TapInv /\ [Next]_vars => TapInv'
<1> SUFFICES ASSUME TapInv, [Next]_vars PROVE TapInv'
  OBVIOUS
<1>1. ASSUME NEW r \in Requests, NEW now \in Nows, Disable(r, now) \/ Drop(r, now)
      PROVE  TapInv'
  BY <1>1, TapFrame DEF Disable, Drop, outputVars
<1>2. ASSUME NEW r \in Requests, NEW now \in Nows, Accept(r, now) PROVE TapInv'
  <2>1. ~quiet
    BY <1>2 DEF Accept, Free, TapInv
  <2>2. QED
    BY <1>2, <2>1, TapFrame DEF Accept
<1>3. CASE AddOffset
  BY <1>3, TapFrame DEF AddOffset
<1>4. CASE ReadTap
  <2>1. (timer # "wrote") \in BOOLEAN
    OBVIOUS
  <2>2. QED
    BY <1>4, <2>1 DEF ReadTap, TapInv, TapInForce
<1>5. CASE WriteTap
  <2>1. (~quiet) \in BOOLEAN
    OBVIOUS
  <2>2. QED
    BY <1>5, <2>1 DEF WriteTap, TapInv, TapInForce
<1>6. CASE Program
  <2>1. ~quiet
    BY <1>6 DEF Program, TapInv
  <2>2. QED
    BY <1>6, <2>1, TapFrame DEF Program
<1>7. ASSUME NEW name \in OffsetNames, NEW value \in OffsetValues, WriteOffset(name, value)
      PROVE  TapInv'
  BY <1>7, TapFrame DEF WriteOffset, outputVars
<1>8. ASSUME NEW new \in Taps, SetTap(new) PROVE TapInv'
  BY <1>8 DEF SetTap, TapInv, TapInForce
<1>9. CASE KeepTap
  BY <1>9 DEF KeepTap, Kept, KeepFrame, outputVars, TapInv, TapInForce
<1>10. CASE UNCHANGED vars
  BY <1>10, TapFrame DEF vars, outputVars
<1>11. QED
  BY <1>1, <1>2, <1>3, <1>4, <1>5, <1>6, <1>7, <1>8, <1>9, <1>10 DEF Next

\* The delay line has the tap that the driver remembers, unless an output read the tap
\* before, and wrote it after, the timer did: no other interleaving of the two, with users
\* and any number of blocks, leaves a stale one.
THEOREM TapHolds == Spec => []TapInForce
<1>1. Init => TapInv
  BY DEF Init, TapInv, TapInForce
<1>2. TapInv => TapInForce
  BY DEF TapInv
<1>3. QED
  BY <1>1, <1>2, TapStep, PTL DEF Spec
============================================================================
