------------------------------ MODULE FdOutput ------------------------------
(***************************************************************************)
(* An output channel. A write of a control block makes __fd_zio_output()   *)
(* add the offsets to the start and the end, each offset read anew each    *)
(* time, choose the tap of the delay line, program the registers and arm.  *)
(* Nothing of this is locked: meanwhile a user writes an offset            *)
(* (fd_zio_conf_output) and the timer of fd_update_calibration() sets the  *)
(* tap. Blocks of one channel are written one at a time.                   *)
(***************************************************************************)
EXTENDS FdPulse, Sequences

CONSTANTS
  NarrowCoarse,  \* 25: 200 ns, under which fine delays cannot be reloaded
  MinDelay,      \* 75: 600 ns, the least delay
  MaxTrain,      \* 16: pulses of a train in delay mode
  RepSize,       \* 2^16, what the repeat count holds
  Taps,          \* settings of the delay line
  OffsetValues,  \* values of an offset
  Requests,      \* what programs ask for
  LaterRequests, \* bound: those of them that may come second; there is no third
  Nows,          \* times at which they ask
  MaxWrites      \* bound: offsets written in a behaviour

ASSUME OutputAssumption ==
  /\ NarrowCoarse \in 1..CoarsePerSec /\ MinDelay \in Nat /\ MaxTrain \in Nat
  /\ RepSize \in Nat \ {0} /\ MaxTrain <= RepSize
  /\ Requests # {} /\ \A r \in Requests : Requestable(r)
  /\ LaterRequests \subseteq Requests
  /\ Taps # {} /\ Nows # {} /\ Nows \subseteq Times /\ MaxWrites \in Nat
\* An offset is an int32_t of picoseconds: 2 ms at most.
ASSUME OffsetsAssumption ==
  \A p \in OffsetValues : p \in Int /\ -PicoPerSec < p /\ p < PicoPerSec

VARIABLES
  pc,       \* where __fd_zio_output() is
  attrs,    \* the attributes of the block it works on
  steps,    \* the offsets it has still to add
  tap,      \* frr_cur as it has read it
  offsets,  \* calib.tdc_zero_offset, zero_offset[ch], ch_user_offset[ch]
  writes,   \* offsets written
  chan,     \* registers of the channel
  frr,      \* FD_REG_FRR
  frrCur,   \* fd->ch[ch].frr_cur
  timer,    \* fd_update_calibration(): "idle", "wrote" between its two writes, "off"
  newTap,   \* the tap that it has computed
  blocks,   \* blocks written
  request,  \* history: the last request that was not dropped, and when it was made
  edited,   \* history: an offset was written since
  quiet,    \* history: an output has read frr_cur, and the timer has not run since
  crossed   \* history: the tap last written by an output met a run of the timer

outputVars == <<pc, attrs, steps, tap>>
offsetVars == <<offsets, writes>>
tapVars    == <<frr, frrCur, timer, newTap, quiet, crossed>>
history    == <<blocks, request, edited>>
vars == <<outputVars, offsetVars, chan, tapVars, history>>

OffsetNames == {"tdc", "zero", "user"}
NoTime == [utcH |-> 0, utcL |-> 0, coarse |-> 0, frac |-> 0]
Off    == [enabled |-> FALSE, mode |-> "disable", start |-> NoTime, end |-> NoTime,
           delta |-> [utc |-> 0, coarse |-> 0, frac |-> 0],
           count |-> 0, cont |-> FALSE, noFine |-> FALSE, armed |-> FALSE]
Disabled == [mode |-> "disable", rep |-> 0, start |-> NoTime, end |-> NoTime,
             delta |-> [utc |-> 0, coarse |-> 0, frac |-> 0]]

\* The device is up: the calibration gave the two first offsets and the tap; the user
\* offset is as the device was allocated, zero. Without a period for the calibration
\* its timer is never set.
Init ==
  /\ pc = "idle" /\ steps = <<>> /\ attrs = Disabled /\ blocks = 0
  /\ tap = 0 /\ newTap = 0 /\ frrCur = (CHOOSE x \in Taps : TRUE) /\ frr = frrCur
  /\ timer \in {"idle", "off"}
  /\ offsets \in [OffsetNames -> OffsetValues \cup {0}]
  /\ offsets["tdc"] \in OffsetValues /\ offsets["zero"] \in OffsetValues
  /\ offsets["user"] = 0 /\ writes = 0
  /\ chan = Off
  /\ request = [r |-> CHOOSE r \in Requests : TRUE, now |-> CHOOSE now \in Nows : TRUE]
  /\ edited = FALSE /\ quiet = FALSE /\ crossed = FALSE

----------------------------------------------------------------------------
(* __fd_zio_output(), called by fd_zio_output().                           *)

\* A mutant of OutputOffsets: the end gets the calibration only.
OutputOffsetsShort == <<<<"start", "zero">>, <<"start", "user">>, <<"end", "zero">>>>

\* What is added to what, in this order; in delay mode the offset of the input first.
OutputOffsets ==
  <<<<"start", "zero">>, <<"start", "user">>, <<"end", "zero">>, <<"end", "user">>>>

DelayOffsets == <<<<"start", "tdc">>, <<"end", "tdc">>>> \o OutputOffsets

\* A train too long or a delay too short is dropped, and nobody is told.
TooShort(a) == a.start.utcL = 0 /\ a.start.coarse < MinDelay
Dropped(a)  == a.mode = "delay" /\ (a.rep < 0 \/ a.rep > MaxTrain \/ TooShort(a))

Free(r)  == pc = "idle" /\ blocks < 2 /\ (blocks = 1 => r \in LaterRequests)
Asked(r, now) == request' = [r |-> r, now |-> now] /\ edited' = FALSE

\* A block is written that disables the channel, ...
Disable(r, now) ==
  /\ Free(r) /\ r.mode = "disable"
  /\ chan' = [chan EXCEPT !.enabled = FALSE, !.mode = "delay", !.noFine = FALSE,
                          !.armed = FALSE]
  /\ blocks' = blocks + 1 /\ Asked(r, now)
  /\ UNCHANGED <<outputVars, offsetVars, tapVars>>

\* ... one that is dropped, ...
Drop(r, now) ==
  /\ Free(r) /\ r.mode # "disable" /\ Dropped(Attrs(r, now))
  /\ blocks' = blocks + 1
  /\ UNCHANGED <<outputVars, offsetVars, chan, tapVars, request, edited>>

\* ... or one that goes on to the channel.
Accept(r, now) ==
  /\ Free(r) /\ r.mode # "disable"
  /\ attrs' = Attrs(r, now) /\ ~Dropped(attrs')
  /\ steps' = IF r.mode = "delay" THEN DelayOffsets ELSE OutputOffsets
  /\ pc' = "offsets"
  /\ blocks' = blocks + 1 /\ Asked(r, now)
  /\ UNCHANGED <<tap, offsetVars, chan, tapVars>>

\* One fd_apply_offset().
AddOffset ==
  /\ pc = "offsets" /\ steps # <<>>
  /\ LET edge == Head(steps)[1] IN
       attrs' = [attrs EXCEPT ![edge] = ApplyOffset(@, offsets[Head(steps)[2]])]
  /\ steps' = Tail(steps)
  /\ UNCHANGED <<pc, tap, offsetVars, chan, tapVars, history>>

\* The tap is read ...
ReadTap ==
  /\ pc = "offsets" /\ steps = <<>>
  /\ tap' = frrCur
  /\ pc' = "tap"
  /\ quiet' = (timer # "wrote")
  /\ UNCHANGED <<attrs, steps, offsetVars, chan, frr, frrCur, timer, newTap, crossed,
                 history>>

\* ... and written.
WriteTap ==
  /\ pc = "tap"
  /\ frr' = tap
  /\ pc' = "program"
  /\ crossed' = ~quiet
  /\ tap' = 0 /\ quiet' = FALSE
  /\ UNCHANGED <<attrs, steps, offsetVars, chan, frrCur, timer, newTap, history>>

Signed64(x) == IF x >= UtcSize \div 2 THEN x - UtcSize ELSE x
Utc(a) == a.utcH * WordSize + a.utcL

\* The times of the test for narrow pulses, in coarse units: a difference of counts
\* that is not above zero borrows a second, also when it is zero.
Difference(sec, a, b) ==
  IF a > b THEN [sec |-> sec, coarse |-> a - b]
           ELSE [sec |-> sec - 1, coarse |-> CoarsePerSec - b + a]
WidthIn(a) == Difference(Signed64((Utc(a.end) - Utc(a.start)) % UtcSize),
                         a.end.coarse, a.start.coarse)
GapIn(a) == LET w == WidthIn(a) IN Difference(a.delta.utc - w.sec, a.delta.coarse, w.coarse)

IsNarrow(d)  == d.sec = 0 /\ d.coarse < NarrowCoarse
\* A mutant of NoFine: the width is measured, the gap is not.
NoFineWidth(a) == IsNarrow(WidthIn(a))
NoFine(a)      == IsNarrow(WidthIn(a)) \/ IsNarrow(GapIn(a))

\* Mutants of RepCount: more than the field holds; one pulse too many.
RepCountWide(a) == IF a.rep < 0 THEN 0 ELSE a.rep - 1
RepCountLong(a) == IF a.rep < 0 THEN 0 ELSE a.rep % RepSize
\* The repeat count, in the bits of its field; without end it is not used.
RepCount(a) == IF a.rep < 0 THEN 0 ELSE (a.rep - 1) % RepSize

\* The registers, the update of the channel and, for pulses, the arming.
Program ==
  /\ pc = "program"
  /\ chan' = [enabled |-> TRUE, mode |-> attrs.mode,
              start |-> attrs.start, end |-> attrs.end, delta |-> attrs.delta,
              count |-> RepCount(attrs), cont |-> attrs.rep < 0,
              noFine |-> NoFine(attrs), armed |-> attrs.mode = "pulse"]
  /\ pc' = "idle" /\ attrs' = Disabled
  /\ UNCHANGED <<steps, tap, offsetVars, tapVars, history>>

----------------------------------------------------------------------------
(* The others.                                                             *)

\* fd_zio_conf_output(), fd_zio_conf_tdc(): a user writes an offset.
WriteOffset(name, value) ==
  /\ writes < MaxWrites
  /\ offsets[name] # value
  /\ offsets' = [offsets EXCEPT ![name] = value]
  /\ writes' = writes + 1 /\ edited' = TRUE
  /\ UNCHANGED <<outputVars, chan, tapVars, blocks, request>>

\* fd_update_calibration(): the tap for the temperature is written to the channel ...
SetTap(new) ==
  /\ timer = "idle"
  /\ frr' = new /\ newTap' = new /\ timer' = "wrote"
  /\ quiet' = FALSE /\ crossed' = FALSE
  /\ UNCHANGED <<outputVars, offsetVars, chan, frrCur, history>>

KeepFrame == UNCHANGED <<outputVars, offsetVars, chan, frr, quiet, crossed, history>>
Kept == timer = "wrote" /\ newTap' = 0 /\ KeepFrame

\* Mutants of KeepTap: the tap is not remembered; the timer is not set again.
KeepTapNot  == Kept /\ timer' = "idle" /\ UNCHANGED frrCur
KeepTapLast == Kept /\ timer' = "off" /\ frrCur' = newTap

\* ... and remembered, and the timer is set again.
KeepTap == Kept /\ timer' = "idle" /\ frrCur' = newTap

----------------------------------------------------------------------------
Next ==
  \/ \E r \in Requests, now \in Nows : Disable(r, now) \/ Drop(r, now) \/ Accept(r, now)
  \/ AddOffset \/ ReadTap \/ WriteTap \/ Program
  \/ \E name \in OffsetNames, value \in OffsetValues : WriteOffset(name, value)
  \/ \E new \in Taps : SetTap(new)
  \/ KeepTap

Spec == Init /\ [][Next]_vars

\* A block that was begun is finished, and the timer goes off again and again; nobody
\* has to write blocks or offsets.
Fairness ==
  /\ WF_vars(AddOffset \/ ReadTap \/ WriteTap \/ Program)
  /\ WF_vars((\E new \in Taps : SetTap(new)) \/ KeepTap)

FairSpec == Spec /\ Fairness

----------------------------------------------------------------------------
(* Properties.                                                             *)

\* Times in a block keep to what the additions of the programs can leave.
AttrRange == [utcH : 0..WordSize-1, utcL : 0..WordSize-1,
              coarse : 0..2*CoarsePerSec-1, frac : 0..FracPerCoarse]

\* The types of the variables. The count fits its field.
TypeOK ==
  /\ pc \in {"idle", "offsets", "tap", "program"}
  /\ attrs.start \in AttrRange /\ attrs.end \in AttrRange
  /\ chan.start \in AttrRange /\ chan.end \in AttrRange
  /\ chan.count \in 0..RepSize-1
  /\ chan.enabled \in BOOLEAN /\ chan.noFine \in BOOLEAN /\ chan.armed \in BOOLEAN
  /\ offsets \in [OffsetNames -> OffsetValues \cup {0}]
  /\ tap \in Taps \cup {0} /\ newTap \in Taps \cup {0} /\ {frr, frrCur} \subseteq Taps
  /\ timer \in {"idle", "wrote", "off"} /\ blocks \in 0..2 /\ writes \in 0..MaxWrites

\* The registers are those of the last request.
InForce == pc = "idle" /\ chan.enabled

\* The offsets of the channel's mode, as many fractions as each converts to. (The manual
\* says of "zero" that it is subtracted, and in delay mode only; the code adds it always.)
Applied ==
  OffsetUnits(offsets["zero"]) + OffsetUnits(offsets["user"])
  + (IF request.r.mode = "delay" THEN OffsetUnits(offsets["tdc"]) ELSE 0)

\* Whatever program asks, in whatever units and at whatever time, and whatever the
\* offsets: the registers hold the start it asked for, moved by the offsets, and an
\* end that is later by the width it asked for, unless an offset was written meanwhile
\* (between the four reads of the offsets the width of the pulse would change). Of a
\* start that the loggers put off only the width is promised.
PulseAsAsked ==
  InForce /\ ~edited =>
    /\ ~PutOff(request.r) =>
         Same(AttrUnits(chan.start), AskedStart(request.r, request.now) + Applied)
    /\ Same(AttrUnits(chan.end), AttrUnits(chan.start) + AskedWidth(request.r))

\* The counters of the channel match an end within its second only: no program leaves
\* an end that they never reach, but fdelay-dumplog when offset and width pass a
\* second, and at one single value fdelay_config_pulse_ps() and fdelay-pulse.
EndInRange ==
  InForce =>
    LET c == request.r.client IN
    /\ chan.end.coarse < CoarsePerSec + (CASE c = "dumplog" -> CoarsePerSec
                                           [] c \in {"lib", "pulse"} -> 1
                                           [] OTHER -> 0)
    /\ chan.end.frac < FracPerCoarse + (IF c = "pulse" THEN 1 ELSE 0)

\* NO_FINE is set exactly for pulses or gaps under 200 ns, but not for those that lie
\* within one coarse unit: the subtraction makes them a second long, unless it subtracts
\* a width that was made a second long. The end must lie within its second (see
\* EndInRange).
NoFineIffNarrow ==
  InForce /\ chan.end.coarse < CoarsePerSec =>
    LET width == Signed64((Utc(chan.end) - Utc(chan.start)) % UtcSize) * CoarsePerSec
                 + chan.end.coarse - chan.start.coarse
        gap   == chan.delta.utc * CoarsePerSec + chan.delta.coarse - width
    IN  chan.noFine <=> \/ 0 < width /\ width < NarrowCoarse
                        \/ 0 < gap /\ gap < NarrowCoarse
                        \/ gap = 0 /\ chan.end.coarse = chan.start.coarse

\* A train has the pulses it was asked to have, or goes on for ever, except that none
\* (rep = 0) and more than the field can count come out as another number.
TrainAsAsked ==
  InForce =>
    /\ chan.cont <=> request.r.rep < 0
    /\ request.r.rep \in 1..RepSize => chan.count + 1 = request.r.rep

\* The channel's delay line is set to the tap that the driver remembers, unless an
\* output read the tap before, and wrote it after, a run of the timer wrote.
TapInForce == timer # "wrote" /\ ~crossed => frr = frrCur

\* And if that happened, a later run of the timer repairs it.
TapRepaired == (frr # frrCur) ~> (frr = frrCur)
============================================================================
