------------------------------ MODULE FdStamp ------------------------------
(***************************************************************************)
(* The journey of one timestamp after another through fd_read_sw_fifo(),   *)
(* from the raw registers to the attributes of the control and of sysfs,   *)
(* while users write the two offsets. The consumer takes no lock: each     *)
(* step below reads an offset once, and a write may come between any two.  *)
(***************************************************************************)
EXTENDS FdTime

CONSTANTS
  RawSamples,   \* stamps the hardware gives
  ZeroOffsets,  \* values of calib.tdc_zero_offset
  UserOffsets,  \* values of tdc_user_offset
  MaxWrites     \* bound: offsets written in a behaviour

ASSUME SamplesAssumption == RawSamples \subseteq {r \in RawTimes : InRange(r)}
ASSUME OffsetsAssumption == ZeroOffsets \subseteq Offsets /\ UserOffsets \subseteq Offsets
ASSUME WritesAssumption  == MaxWrites \in Nat

VARIABLES
  pc,           \* where fd_read_sw_fifo() is
  t,            \* its local copy of the sample
  v,            \* the attributes of current_ctrl
  tdcAttrs,     \* the copy that sysfs reads
  zeroOffset,   \* calib.tdc_zero_offset
  userOffset,   \* tdc_user_offset
  writes,       \* offsets written so far
  raw,          \* history: the sample as it was taken
  zeroUsed,     \* history: the zero offset added to it
  userUsed,     \* history: the user offset added to it
  touched       \* history: an offset was written since it was taken

offsetVars == <<zeroOffset, userOffset, writes>>
vars == <<pc, t, v, tdcAttrs, offsetVars, raw, zeroUsed, userUsed, touched>>

Zero == [utc |-> 0, coarse |-> 0, frac |-> 0]
Stamp(time, offset, userOff) == [time |-> time, offset |-> offset, userOff |-> userOff]

\* The device is zeroed when it is allocated; fd_zio_probe() fills the offset in
\* the copy for sysfs.
Init ==
  /\ pc = "idle"
  /\ raw = Zero /\ t = Zero
  /\ zeroOffset \in ZeroOffsets /\ userOffset = 0 /\ writes = 0
  /\ v = Stamp(ToAttr(Zero), 0, 0)
  /\ tdcAttrs = Stamp(ToAttr(Zero), zeroOffset, 0)
  /\ zeroUsed = 0 /\ userUsed = 0 /\ touched = TRUE

\* A sample leaves the software fifo.
Take ==
  /\ pc = "idle"
  /\ raw' \in RawSamples /\ t' = raw'
  /\ touched' = FALSE
  /\ pc' = "normalize"
  /\ UNCHANGED <<v, tdcAttrs, offsetVars, zeroUsed, userUsed>>

\* fd_normalize_time() reads the zero offset ...
Normalize ==
  /\ pc = "normalize"
  /\ t' = NormalizeTime(t, zeroOffset)
  /\ zeroUsed' = zeroOffset
  /\ pc' = "fill"
  /\ UNCHANGED <<v, tdcAttrs, offsetVars, raw, userUsed, touched>>

\* ... and the offset that is reported is read again.
Fill ==
  /\ pc = "fill"
  /\ v' = Stamp(ToAttr(t), zeroOffset, v.userOff)
  /\ pc' = "report"
  /\ UNCHANGED <<t, tdcAttrs, offsetVars, raw, zeroUsed, userUsed, touched>>

\* A mutant of Report: the attribute keeps the offset of the stamp before.
ReportStale ==
  /\ pc = "report"
  /\ pc' = "apply"
  /\ UNCHANGED <<t, v, tdcAttrs, offsetVars, raw, zeroUsed, userUsed, touched>>

\* So is the user offset: once to report it, ...
Report ==
  /\ pc = "report"
  /\ v' = [v EXCEPT !.userOff = userOffset]
  /\ pc' = "apply"
  /\ UNCHANGED <<t, tdcAttrs, offsetVars, raw, zeroUsed, userUsed, touched>>

\* ... once to add it to the stamp, which is then copied for sysfs.
Apply ==
  /\ pc = "apply"
  /\ v' = [v EXCEPT !.time = ApplyOffset(@, userOffset)]
  /\ tdcAttrs' = v'
  /\ userUsed' = userOffset
  /\ pc' = "idle"
  /\ UNCHANGED <<t, offsetVars, raw, zeroUsed, touched>>

\* A write of the "offset" or "user-offset" attribute.
WriteOffset ==
  /\ writes < MaxWrites
  /\ writes' = writes + 1
  /\ touched' = TRUE
  /\ \/ zeroOffset' \in ZeroOffsets /\ UNCHANGED userOffset
     \/ userOffset' \in UserOffsets /\ UNCHANGED zeroOffset
  /\ UNCHANGED <<pc, t, v, tdcAttrs, raw, zeroUsed, userUsed>>

Next == Take \/ Normalize \/ Fill \/ Report \/ Apply \/ WriteOffset
Spec == Init /\ [][Next]_vars

----------------------------------------------------------------------------
(* Properties.                                                             *)

\* Every variable has its type: the seconds fit their 64 bits, or their two words.
WordTimes  == [utcH : 0..WordSize-1, utcL : 0..WordSize-1, coarse : Nat, frac : Nat]
WordStamps == [time : WordTimes, offset : Offsets, userOff : Offsets]
TypeOK ==
  /\ pc \in {"idle", "normalize", "fill", "report", "apply"}
  /\ raw \in RawTimes
  /\ t \in [utc : 0..UtcSize-1, coarse : Nat, frac : Nat]
  /\ v \in WordStamps /\ tdcAttrs \in WordStamps
  /\ zeroOffset \in Offsets /\ userOffset \in Offsets
  /\ writes \in 0..MaxWrites
  /\ zeroUsed \in Offsets /\ userUsed \in Offsets
  /\ touched \in BOOLEAN

\* Once normalized, a time stays so: less than a second of coarse units, less
\* than a coarse unit of fractions, whatever is added to or taken from it.
Normalized ==
  /\ pc # "normalize" => t \in Times
  /\ v.time \in AttrTimes
  /\ tdcAttrs.time \in AttrTimes

\* No fraction is lost or gained on the way: the time is that of the hardware plus
\* the offsets that were read, across every borrow and carry between fraction,
\* coarse unit, second and word. Only the conversion of an offset truncates.
Exact ==
  LET hardware == RawUnits(raw)
      stamp    == hardware + OffsetUnits(zeroUsed)
      final    == stamp + OffsetUnits(userUsed)
  IN  /\ pc = "normalize" => t = raw
      /\ pc = "fill" => Same(TimeUnits(t), stamp)
      /\ pc \in {"report", "apply"} => Same(AttrUnits(v.time), stamp)
      /\ pc = "idle" => Same(AttrUnits(v.time), final) /\ tdcAttrs.time = v.time

\* A stamp reports the offsets that are in it, unless one was written meanwhile.
ReportedWhenQuiet ==
  pc = "idle" /\ ~touched => tdcAttrs.offset = zeroUsed /\ tdcAttrs.userOff = userUsed
============================================================================
