------------------------------ MODULE FdConfig ------------------------------
(***************************************************************************)
(* The flags of the input channel and the registers they stand for: the    *)
(* input enable in GCR, the stamp enable in TSBCR, the termination in the  *)
(* GPIO expander. fd->tdc_flags remembers the value last written, and the  *)
(* next write only touches the registers of the bits that change.          *)
(*                                                                         *)
(* ZIO serialises the writes of attributes and the commands; not so the    *)
(* arming of the trigger, which writes TSBCR too, nor the end of the probe *)
(* (fd_irq_init() comes after ZIO has made the device visible).            *)
(***************************************************************************)

\* The bits of FD_ATTR_TDC_FLAGS: DISABLE_INPUT, DISABLE_TSTAMP, TERM_50. A value
\* is the set of its bits, and so is the value of an offset, for its low bits.
Flags == {"INPUT", "TSTAMP", "TERM"}

VARIABLES
  tdcFlags,     \* fd->tdc_flags
  inputEn,      \* FD_GCR_INPUT_EN
  tsbcr,        \* what stays of TSBCR: ENABLE, CHAN_MASK
  term,         \* the termination, in the expander
  doInput,      \* FD_FLAG_DO_INPUT
  running,      \* fd_irq_init() is over
  conf,         \* the attribute write in progress, at its next access
  val,          \* usr_val of that write
  saved,        \* the register it has read: GCR or TSBCR
  arming,       \* fd_zio_input() is between its two writes of TSBCR
  written,      \* history: the flags last written by a user
  overridden,   \* history: flags that other code has set since a write of flags last
                \* changed them: an offset their bit, an arming or a purge the enable
  raced         \* history: TSBCR was written while a write of flags held its value

regVars  == <<inputEn, tsbcr, term>>
confVars == <<conf, val, saved>>
vars == <<tdcFlags, regVars, doInput, running, confVars, arming, written, overridden, raced>>

\* ZIO is registered, fd_irq_init() has not ended. The inits before it leave GCR and
\* TSBCR at zero, and no trigger is armed.
Init ==
  /\ tdcFlags = {} /\ inputEn = FALSE /\ tsbcr = {} /\ term = FALSE
  /\ doInput = FALSE /\ running = FALSE
  /\ conf = "idle" /\ val = {} /\ saved = {}
  /\ arming = FALSE
  /\ written = {} /\ overridden = {"INPUT", "TSTAMP"} /\ raced = FALSE

----------------------------------------------------------------------------
(* fd_zio_conf_tdc(): the flags.                                           *)

\* The mutant looks at the bits that are set, not at those that change.
BitsSet(old, new) == new
Change(old, new)  == (old \ new) \cup (new \ old)

\* A register with one bit set or cleared and the others kept.
With(reg, bit, on) == IF on THEN reg \cup {bit} ELSE reg \ {bit}

\* What is read before TSBCR is written; the mutant reads the other register.
GcrRead   == With({}, "INPUT_EN", inputEn)
TsbcrRead == tsbcr

\* GCR has no other bit to lose, so it is read and written in one step. TSBCR is
\* only read, for the next step.
WriteFlags ==
  /\ conf = "idle"
  /\ \E v \in SUBSET Flags :
       LET change == Change(tdcFlags, v)
       IN  /\ val' = v /\ written' = v
           /\ inputEn' = IF "INPUT" \in change THEN "INPUT" \notin v ELSE inputEn
           /\ overridden' = overridden \ (change \cap {"INPUT"})
           /\ IF "TSTAMP" \in change THEN conf' = "tsbcr" /\ saved' = TsbcrRead
                                     ELSE conf' = "term" /\ saved' = saved
  /\ UNCHANGED <<tdcFlags, tsbcr, term, doInput, running, arming, raced>>

\* A mutant of WriteTsbcr: the register is written from scratch.
WriteTsbcrAlone ==
  /\ conf = "tsbcr"
  /\ tsbcr' = With({}, "ENABLE", "TSTAMP" \notin val)
  /\ overridden' = overridden \ {"TSTAMP"}
  /\ conf' = "term"
  /\ UNCHANGED <<tdcFlags, inputEn, term, doInput, running, val, saved, arming,
                 written, raced>>

\* TSBCR gets back the value that was read, but for ENABLE.
WriteTsbcr ==
  /\ conf = "tsbcr"
  /\ tsbcr' = With(saved, "ENABLE", "TSTAMP" \notin val)
  /\ overridden' = overridden \ {"TSTAMP"}
  /\ conf' = "term"
  /\ UNCHANGED <<tdcFlags, inputEn, term, doInput, running, val, saved, arming,
                 written, raced>>

\* fd_gpio_val() tries several times and then gives up; its error is dropped.
WriteTerm ==
  /\ conf = "term"
  /\ IF "TERM" \in Change(tdcFlags, val)
       THEN \E ok \in BOOLEAN :
              /\ term' = IF ok THEN "TERM" \in val ELSE term
              /\ overridden' = IF ok THEN overridden \ {"TERM"} ELSE overridden \cup {"TERM"}
       ELSE UNCHANGED <<term, overridden>>
  /\ tdcFlags' = val
  /\ conf' = "idle"
  /\ UNCHANGED <<inputEn, tsbcr, doInput, running, val, saved, arming, written, raced>>

\* A write of offset, or of user-offset (its effect on stamps is in FdStamp), ends
\* like a write of flags: its value goes to tdc_flags and to no register.
WriteOffset ==
  /\ conf = "idle"
  /\ \E v \in SUBSET Flags :
       /\ tdcFlags' = v
       /\ overridden' = overridden \cup Change(tdcFlags, v)
  /\ UNCHANGED <<regVars, doInput, running, confVars, arming, written, raced>>

----------------------------------------------------------------------------
(* The other writers of the same registers.                                *)

\* The value that fd_time_set() gives back to GCR.
Restored == "INPUT_EN" \in saved

\* fd_time_set() zeroes GCR ...
TimeSetBegins ==
  /\ conf = "idle"
  /\ saved' = With({}, "INPUT_EN", inputEn)
  /\ inputEn' = FALSE
  /\ conf' = "time"
  /\ UNCHANGED <<tdcFlags, tsbcr, term, doInput, running, val, arming, written,
                 overridden, raced>>

\* ... and restores it.
TimeSetEnds ==
  /\ conf = "time"
  /\ inputEn' = Restored
  /\ conf' = "idle"
  /\ UNCHANGED <<tdcFlags, tsbcr, term, doInput, running, val, saved, arming, written,
                 overridden, raced>>

\* What users, or the driver's memory of it, ask for.
Asked == written \cup tdcFlags

\* FD_CMD_PURGE_FIFO enables the stamps, whatever the flags say.
Purge ==
  /\ conf = "idle"
  /\ tsbcr' = {"ENABLE", "CHAN_MASK"}
  /\ overridden' = With(overridden, "TSTAMP", "TSTAMP" \in Asked)
  /\ raced' = FALSE
  /\ UNCHANGED <<tdcFlags, inputEn, term, doInput, running, confVars, arming, written>>

\* fd_zio_input(), the first time: the hardware is purged ...
ArmPurges ==
  /\ ~doInput /\ ~arming
  /\ tsbcr' = {}
  /\ overridden' = overridden \cup {"TSTAMP"}
  /\ arming' = TRUE
  /\ UNCHANGED <<tdcFlags, inputEn, term, doInput, running, confVars, written, raced>>

\* ... and enabled, whatever the flags say. No lock keeps a write of flags away.
ArmEnables ==
  /\ arming
  /\ tsbcr' = {"ENABLE", "CHAN_MASK"}
  /\ overridden' = With(overridden, "TSTAMP", "TSTAMP" \in Asked)
  /\ raced' = (conf = "tsbcr")
  /\ doInput' = TRUE /\ arming' = FALSE
  /\ UNCHANGED <<tdcFlags, inputEn, term, running, confVars, written>>

\* The last write of fd_irq_init() ("let it run..."). A set-time that has already
\* read GCR will undo it.
LetItRun ==
  /\ ~running
  /\ running' = TRUE
  /\ inputEn' = TRUE
  /\ overridden' = With(overridden, "INPUT", "INPUT" \in Asked \/ conf # "idle")
  /\ UNCHANGED <<tdcFlags, tsbcr, term, doInput, confVars, arming, written, raced>>

Next ==
  \/ WriteFlags \/ WriteTsbcr \/ WriteTerm \/ WriteOffset
  \/ TimeSetBegins \/ TimeSetEnds \/ Purge
  \/ ArmPurges \/ ArmEnables \/ LetItRun

Spec == Init /\ [][Next]_vars

----------------------------------------------------------------------------
(* Properties.                                                             *)

TypeOK ==
  /\ tdcFlags \in SUBSET Flags /\ val \in SUBSET Flags /\ written \in SUBSET Flags
  /\ inputEn \in BOOLEAN /\ term \in BOOLEAN
  /\ tsbcr \in SUBSET {"ENABLE", "CHAN_MASK"}
  /\ doInput \in BOOLEAN /\ running \in BOOLEAN /\ arming \in BOOLEAN
  /\ conf \in {"idle", "tsbcr", "term", "time"}
  /\ saved \in SUBSET {"INPUT_EN", "ENABLE", "CHAN_MASK"}
  /\ overridden \in SUBSET Flags /\ raced \in BOOLEAN

\* The register of a flag does what the user last wrote.
InForce(flag) ==
  CASE flag = "INPUT"  -> inputEn <=> flag \notin written
    [] flag = "TSTAMP" -> "ENABLE" \in tsbcr <=> flag \notin written
    [] flag = "TERM"   -> term <=> flag \in written

\* Between writes, every flag is in force as the user last wrote it, though only
\* the registers of changed bits are written, and set-time zeroes GCR; but for
\* the flags that other code has set since.
FlagsInForce ==
  conf = "idle" => \A flag \in Flags \ overridden : InForce(flag)

\* Once the input is in use its channel stays selected in TSBCR, through any write
\* of flags that did not have the register in hand when the trigger was armed.
\* (After such a race no stamp comes until the next purge.)
ChannelSelected == doInput /\ ~raced => "CHAN_MASK" \in tsbcr

\* Reading the flags gives what was last written there (the local array keeps it
\* for fd_zio_info_tdc()).
FlagsReadBack == conf = "idle" => tdcFlags = written
============================================================================
