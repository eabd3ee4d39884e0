------------------------------ MODULE FdPulse ------------------------------
(***************************************************************************)
(* What a program asks of an output channel: a start, an end and a period, *)
(* computed in user space from picoseconds by the library                  *)
(* (fdelay_config_pulse_ps) or by one of the programs built on it, each    *)
(* with its own parser and its own addition of times, and then written as  *)
(* attributes (fdelay_config_pulse) or, by fd-raw-output, without library. *)
(***************************************************************************)
EXTENDS FdTime

CONSTANTS
  CoarsePerMicro,  \* 125
  PicoSize         \* 2^64: a number of picoseconds is a uint64_t in the library

ASSUME MicroAssumption == CoarsePerMicro \in Nat \ {0}
ASSUME PicoAssumption  == PicoSize \in Nat /\ PicoPerSec <= PicoSize

\* "lib" is fdelay_config_pulse_ps(), "raw" a program that gives all numbers itself.
Clients == {"lib", "raw", "pulse", "tom", "gs", "dumplog"}

PicoPerMicro == CoarsePerMicro * PicoPerCoarse

\* The start that a command line names, in its units: "1s+20u-100n" is the argument of
\* fdelay-pulse-tom, "+1.000020+100" that of fdelay-pulse.
SubSeconds(arg) == arg.micro * PicoPerMicro + arg.pico
ArgPico(arg)    == arg.sec * PicoPerSec + SubSeconds(arg)

\* What is asked of them here: any start, also below zero, but no width or period below
\* zero. The fraction of a second that fdelay-pulse is given stays below a second, and so
\* does the width that it or the library is given ("this silently fails with
\* ps > 10^12").
Requestable(r) ==
  /\ r \in [client : Clients, mode : {"disable", "pulse", "delay"}, rep : Int,
             arg : [sec : Int, micro : Int, pico : Int, relative : BOOLEAN],
             width : 0..PicoSize-1, period : 0..PicoSize-1]
  /\ SubSeconds(r.arg) < PicoSize
  /\ r.client \in {"gs", "dumplog"} => ArgPico(r.arg) < PicoSize
  /\ r.client = "pulse" => /\ r.arg.micro >= 0 /\ r.arg.pico >= 0
                           /\ SubSeconds(r.arg) < PicoPerSec
  /\ r.client \in {"lib", "pulse"} => r.width < PicoPerSec

\* fdelay_pico_to_time(). Its argument is the address of an unsigned number: a number
\* below zero at that address is read as one of PicoSize more.
PicoToTime(pico) ==
  LET p    == pico % PicoSize
      rest == p % PicoPerSec
  IN  [utc    |-> (p \div PicoPerSec) % UtcSize,
       coarse |-> rest \div PicoPerCoarse,
       frac   |-> ((rest % PicoPerCoarse) * FracPerCoarse) \div PicoPerCoarse]

\* An addition that carries when the fraction is above maxFrac and when the count, of the
\* sum or of the second term, is above maxCoarse.
AddAbove(a, b, maxFrac, ofSum, maxCoarse) ==
  LET carry  == IF a.frac + b.frac > maxFrac THEN 1 ELSE 0
      sum    == a.coarse + b.coarse + carry
      second == IF (IF ofSum THEN sum ELSE b.coarse) > maxCoarse THEN 1 ELSE 0
  IN  [utc    |-> (a.utc + b.utc + second) % UtcSize,
       coarse |-> sum - second * CoarsePerSec,
       frac   |-> a.frac + b.frac - carry * FracPerCoarse]

\* ts_add() of fdelay-pulse-tom and fdelay-gs.
ExactAdd(a, b) == AddAbove(a, b, FracPerCoarse - 1, TRUE, CoarsePerSec - 1)
\* fdelay_add_ps() of the library carries above a second, not at it.
LibAdd(a, b) == AddAbove(a, b, FracPerCoarse - 1, TRUE, CoarsePerSec)
\* main() of fdelay-pulse: neither carry is taken at the limit.
PulseAdd(a, b) == AddAbove(a, b, FracPerCoarse, TRUE, CoarsePerSec)
\* ts_add() of fdelay-dumplog looks at the count of the second term only.
DumplogAdd(a, b) == AddAbove(a, b, FracPerCoarse - 1, FALSE, CoarsePerSec - 1)

\* A mutant of ClientAdd: every program adds as fdelay-pulse does.
ClientAddLate(client, a, b) == PulseAdd(a, b)

\* "raw" has its sum from whoever gives the numbers.
ClientAdd(client, a, b) ==
  CASE client \in {"tom", "gs", "raw"} -> ExactAdd(a, b)
    [] client = "lib"     -> LibAdd(a, b)
    [] client = "pulse"   -> PulseAdd(a, b)
    [] client = "dumplog" -> DumplogAdd(a, b)

\* parse_time() of fdelay-pulse-tom: seconds are counted apart, and while the rest is
\* below zero a second is borrowed from them.
ParseTom(arg) ==
  LET rest     == SubSeconds(arg)
      borrowed == IF rest < 0 THEN -(rest \div PicoPerSec) ELSE 0
      t        == PicoToTime(rest + borrowed * PicoPerSec)
  IN  [t EXCEPT !.utc = (@ + arg.sec - borrowed) % UtcSize]

\* parse_time() of fdelay-pulse: only the seconds of the current time are added to,
\* and the coarse count takes all the picoseconds.
ParsePulse(arg, now) ==
  [utc    |-> ((IF arg.relative THEN now.utc ELSE 0) + arg.sec) % UtcSize,
   coarse |-> arg.micro * CoarsePerMicro + arg.pico \div PicoPerCoarse,
   frac   |-> ((arg.pico % PicoPerCoarse) * FracPerCoarse) \div PicoPerCoarse]

\* The loggers start on a second.
InTwoSeconds(now) == [utc |-> (now.utc + 2) % UtcSize, coarse |-> 0, frac |-> 0]

\* p.start in each program. Relative times are for pulses only in fdelay-pulse-tom.
StartOf(r, now) ==
  CASE r.client = "pulse" -> ParsePulse(r.arg, now)
    [] r.client = "tom" /\ r.arg.relative /\ r.mode = "pulse" ->
         ExactAdd(now, ParseTom(r.arg))
    [] r.client \in {"gs", "dumplog"} ->
         ClientAdd(r.client, PicoToTime(ArgPico(r.arg)), InTwoSeconds(now))
    [] OTHER -> ParseTom(r.arg)

\* The width as the program's parser returns it.
WidthOf(r) ==
  IF r.client \in {"pulse", "lib"}
    THEN [utc |-> 0, coarse |-> r.width \div PicoPerCoarse,
          frac |-> ((r.width % PicoPerCoarse) * FracPerCoarse) \div PicoPerCoarse]
    ELSE PicoToTime(r.width)

EndOf(r, now) == ClientAdd(r.client, StartOf(r, now), WidthOf(r))

\* fdelay_config_pulse(): the attributes of the control. The period has one word of
\* seconds.
Attrs(r, now) ==
  [mode  |-> r.mode, rep |-> r.rep,
   start |-> ToAttr(StartOf(r, now)), end |-> ToAttr(EndOf(r, now)),
   delta |-> [PicoToTime(r.period) EXCEPT !.utc = @ % WordSize]]

----------------------------------------------------------------------------
(* The reference: what was asked for, in units.                            *)

AskedStart(r, now) ==
  LET base == CASE r.client = "pulse" /\ r.arg.relative -> Units(now.utc, 0, 0)
                [] r.client = "tom" /\ r.arg.relative /\ r.mode = "pulse" -> TimeUnits(now)
                [] r.client \in {"gs", "dumplog"} -> Units(now.utc + 2, 0, 0)
                [] OTHER -> 0
  IN  base + (ArgPico(r.arg) * FracPerCoarse) \div PicoPerCoarse

AskedWidth(r) == OffsetUnits(r.width)

\* The loggers keep the offset of a pulse as a signed number, and hand its address to
\* fdelay_pico_to_time(): a pulse that should start before the second that they wait for
\* is put off by PicoSize picoseconds.
PutOff(r) == r.client \in {"gs", "dumplog"} /\ ArgPico(r.arg) < 0
============================================================================
