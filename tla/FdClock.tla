------------------------------ MODULE FdClock ------------------------------
(***************************************************************************)
(* The clock of the board and its White Rabbit mode, as several users see  *)
(* them through three device attributes (utc-h, utc-l, coarse) and one     *)
(* command. A library call is a sequence of accesses to attributes; the    *)
(* calls of two users interleave between any two accesses. One access is   *)
(* one step: ZIO serialises the handlers of a device, and fd_time_set(),   *)
(* fd_time_get() and fd_wr_mode() hold the lock besides.                   *)
(***************************************************************************)
EXTENDS Integers

CONSTANTS
  Procs,        \* users of the library
  Words,        \* values of one attribute
  Times         \* times that users set, and that the clock shows

AllTimes == [h : Words, l : Words, c : Words]

ASSUME WordsAssumption == 0 \in Words
ASSUME TimesAssumption == Times \subseteq AllTimes

VARIABLES
  clock,        \* the time in the board
  tcr,          \* its control bits that stay: WR_ENABLE or nothing
  dac,          \* what the DAC of the oscillator was last given
  wrMode,       \* FD_FLAG_WR_MODE
  attr,         \* attributes utc-h, utc-l, coarse of the device
  pc,           \* where each user is in its library call
  t,            \* attrs[] of that call
  shown,        \* history: what the clock showed when the user read utc-h
  touched       \* history: users whose cached words someone else has changed

boardVars == <<clock, tcr, dac>>
vars == <<boardVars, wrMode, attr, pc, t, shown, touched>>

Zero == [h |-> 0, l |-> 0, c |-> 0]
Labels == {"idle", "get-l", "get-c", "got", "set-l", "set-h", "set"}

Goto(p, label) == pc' = [pc EXCEPT ![p] = label]

\* Another user relies on the words that this access changes.
Touch(p) == touched' = (touched \ {p}) \cup {q \in Procs \ {p} : pc[q] # "idle"}

\* The board after fd_probe(): fd_time_init() set the time, which runs since.
Init ==
  /\ clock \in Times /\ tcr = {} /\ dac = "reset"
  /\ wrMode = FALSE
  /\ attr = Zero
  /\ pc = [p \in Procs |-> "idle"]
  /\ t = [p \in Procs |-> Zero] /\ shown = [p \in Procs |-> Zero]
  /\ touched = {}

----------------------------------------------------------------------------
(* The driver.                                                             *)

\* Mutants of TcrAfter: the register is written, not modified; the bit stays.
TcrOverwritten == {}
TcrWithBit     == tcr \cup {"SET_TIME"}

\* fd_time_set() and fd_time_get() read TCR and write it back with a bit that
\* clears itself (SET_TIME, CAP_TIME).
TcrAfter == tcr

\* A mutant of Capture: only utc-h is stored.
CaptureHigh == [attr EXCEPT !.h = clock.h]

\* Reading utc-h captures the whole time and stores it in the attributes.
Capture == clock

\* A mutant of Program: coarse starts from zero.
ProgramSeconds(a) == [a EXCEPT !.c = 0]

\* Writing utc-h programs what the three attributes hold.
Program(a) == a

----------------------------------------------------------------------------
(* fdelay_get_time(): utc-h, utc-l, coarse.                                *)

GetHigh(p) ==
  /\ pc[p] = "idle"
  /\ attr' = Capture
  /\ tcr' = TcrAfter
  /\ t' = [t EXCEPT ![p].h = Capture.h]
  /\ shown' = [shown EXCEPT ![p] = clock]
  /\ Touch(p)
  /\ Goto(p, "get-l")
  /\ UNCHANGED <<clock, dac, wrMode>>

GetLow(p) ==
  /\ pc[p] = "get-l"
  /\ t' = [t EXCEPT ![p].l = attr.l]
  /\ Goto(p, "get-c")
  /\ UNCHANGED <<boardVars, wrMode, attr, shown, touched>>

GetCoarse(p) ==
  /\ pc[p] = "get-c"
  /\ t' = [t EXCEPT ![p].c = attr.c]
  /\ Goto(p, "got")
  /\ UNCHANGED <<boardVars, wrMode, attr, shown, touched>>

----------------------------------------------------------------------------
(* fdelay_set_time(): coarse, utc-l, utc-h.                                *)

SetCoarse(p) ==
  /\ pc[p] = "idle"
  /\ \E time \in Times :
       t' = [t EXCEPT ![p] = time] /\ attr' = [attr EXCEPT !.c = time.c]
  /\ Touch(p)
  /\ Goto(p, "set-l")
  /\ UNCHANGED <<boardVars, wrMode, shown>>

SetLow(p) ==
  /\ pc[p] = "set-l"
  /\ attr' = [attr EXCEPT !.l = t[p].l]
  /\ touched' = touched \cup {q \in Procs \ {p} : pc[q] # "idle"}
  /\ Goto(p, "set-h")
  /\ UNCHANGED <<boardVars, wrMode, t, shown>>

\* ZIO (external) stores the value before it calls fd_zio_conf_set(), which reads
\* it from the attribute.
SetHigh(p) ==
  /\ pc[p] = "set-h"
  /\ attr' = [attr EXCEPT !.h = t[p].h]
  /\ clock' = Program(attr')
  /\ tcr' = TcrAfter
  /\ Goto(p, "set")
  /\ UNCHANGED <<dac, wrMode, t, shown, touched>>

\* The call returns, after its last access or because one has failed.
Return(p) ==
  /\ pc[p] # "idle"
  /\ t' = [t EXCEPT ![p] = Zero] /\ shown' = [shown EXCEPT ![p] = Zero]
  /\ touched' = touched \ {p}
  /\ Goto(p, "idle")
  /\ UNCHANGED <<boardVars, wrMode, attr>>

----------------------------------------------------------------------------
(* Commands, and the board on its own.                                     *)

\* FD_CMD_HOST_TIME.
HostTime ==
  /\ clock' \in Times
  /\ tcr' = TcrAfter
  /\ UNCHANGED <<dac, wrMode, attr, pc, t, shown, touched>>

\* fd_wr_mode(fd, 1).
WrOn ==
  /\ tcr' = {"WR_ENABLE"} /\ wrMode' = TRUE
  /\ UNCHANGED <<clock, dac, attr, pc, t, shown, touched>>

\* The chips that fd_spi_xfer() selects for its argument ss.
Selected(ss) == CASE ss = "PLL" -> {"PLL"} [] ss = "GPIO" -> {"GPIO"} [] OTHER -> {}

\* fd_wr_mode(fd, 0), which ends with a transfer of the default to the DAC.
WrOff ==
  /\ tcr' = {} /\ wrMode' = FALSE
  /\ dac' = IF "DAC" \in Selected("DAC") THEN "default" ELSE dac
  /\ UNCHANGED <<clock, attr, pc, t, shown, touched>>

\* White Rabbit, when enabled, tunes the oscillator.
WrTunes ==
  /\ "WR_ENABLE" \in tcr
  /\ dac' = "wr"
  /\ UNCHANGED <<clock, tcr, wrMode, attr, pc, t, shown, touched>>

\* The clock runs, or White Rabbit sets it.
Tick ==
  /\ clock' \in Times
  /\ UNCHANGED <<tcr, dac, wrMode, attr, pc, t, shown, touched>>

Get(p) == GetHigh(p) \/ GetLow(p) \/ GetCoarse(p)
Set(p) == SetCoarse(p) \/ SetLow(p) \/ SetHigh(p)

Next ==
  \/ \E p \in Procs : Get(p) \/ Set(p) \/ Return(p)
  \/ HostTime \/ WrOn \/ WrOff \/ WrTunes \/ Tick

Spec == Init /\ [][Next]_vars

----------------------------------------------------------------------------
(* Properties.                                                             *)

TypeOK ==
  /\ clock \in AllTimes /\ tcr \in SUBSET {"WR_ENABLE"}
  /\ dac \in {"reset", "default", "wr"} /\ wrMode \in BOOLEAN
  /\ attr \in AllTimes
  /\ pc \in [Procs -> Labels] /\ t \in [Procs -> AllTimes]
  /\ shown \in [Procs -> AllTimes]
  /\ touched \in SUBSET Procs

\* fdelay_get_time() returns one time that the clock has shown, never the seconds
\* of one and the coarse count of another, unless someone else read utc-h or
\* wrote utc-l or coarse in between. The clock may run or be set meanwhile.
GotOneTime ==
  \A p \in Procs : pc[p] = "got" /\ p \notin touched => t[p] = shown[p]

\* fdelay_set_time() programs the time that its caller gave, whole, under the same
\* condition.
SetOneTime ==
  [][\A p \in Procs : pc[p] = "set-h" /\ pc'[p] = "set" /\ p \notin touched
                        => clock' = t[p]]_vars

\* FD_FLAG_WR_MODE, which FD_CMD_WR_QUERY trusts, tells whether the register has
\* WR_ENABLE: setting or reading the time does not turn White Rabbit off.
WrModeInForce == wrMode <=> "WR_ENABLE" \in tcr

\* What each user knows on its way.
Getting(p) ==
  /\ pc[p] = "get-l" => t[p].h = shown[p].h
  /\ pc[p] = "get-c" => t[p].h = shown[p].h
  /\ p \notin touched /\ pc[p] = "get-l" => attr.l = shown[p].l /\ attr.c = shown[p].c
  /\ p \notin touched /\ pc[p] = "get-c" => t[p].l = shown[p].l /\ attr.c = shown[p].c
Setting(p) ==
  /\ p \notin touched /\ pc[p] \in {"set-l", "set-h"} => attr.c = t[p].c
  /\ p \notin touched /\ pc[p] = "set-h" => attr.l = t[p].l

\* The inductive invariant of the clock.
IInv ==
  /\ TypeOK /\ WrModeInForce /\ GotOneTime
  /\ \A p \in Procs : Getting(p) /\ Setting(p)
============================================================================
