------------------------------ MODULE FdBoard ------------------------------
(***************************************************************************)
(* The life of the boards: loading and unloading of the module, fd_probe() *)
(* with the calibration it reads through the one static struct sdbfs, its  *)
(* list of subsystems, interrupts and outputs, fd_remove(), the unwinding  *)
(* of both, and meanwhile the timer that reads the temperature, the        *)
(* tasklet, and a user who switches the termination.                       *)
(*                                                                         *)
(* What a subsystem finds on its board stays as it is; what fails now and *)
(* then (a transfer on SPI or one-wire, a clock that wraps or runs out)    *)
(* may fail at any time, as often as the site allows.                      *)
(***************************************************************************)
EXTENDS Integers, Sequences, FiniteSets

CONSTANTS
  Boards,
  Sites,      \* module parameters, the boards that are plugged, what is found on each board
              \* and in its EEPROM, and bounds: probes, faults, termination switches
  Channels,   \* how many outputs
  Resolution, \* of the sensor, 0..3: a conversion takes 94 * 2^Resolution ms
  Period,     \* calib_s where it is not zero, in seconds: the period of the timer
  RegCount,   \* 68, entries of __9516_regs: an even number
  NumTaps,    \* FD_NUM_TAPS
  Delays      \* delays of the taps, in units of 8 ns, that may be measured: they increase

NoBoard == "none"
Contents == {"good", "old", "bad", "no-file", "no-sdb"}

ASSUME BoardAssumption ==
  /\ NoBoard \notin Boards
  /\ Sites \subseteq
       [param : [load : {"no", "file", "missing"}, default : BOOLEAN, polled : BOOLEAN,
                 fifo : BOOLEAN, period : BOOLEAN],
        eeprom : [Boards -> Contents],
        hw : [Boards -> [pll : BOOLEAN, ddr : BOOLEAN, acam : BOOLEAN, irq : BOOLEAN,
                         sensor : BOOLEAN, stuck : SUBSET (0..3),
                         data : {"good", "tested", "other"}]],
        plugged : SUBSET Boards, probes : Nat, faults : Nat, uses : Nat]
  /\ Resolution \in 0..3 /\ {Period, Channels, RegCount, NumTaps} \subseteq Nat \ {0}
  /\ RegCount % 2 = 0
  /\ \A d \in Delays : /\ d \in [0..NumTaps-1 -> Nat]
                       /\ \A i, j \in 0..NumTaps-1 : i <= j => d[i] <= d[j]

VARIABLES
  module,   \* "out", "loaded" or "leaving"
  param,    \* the module's parameters
  eeprom,   \* what each EEPROM holds
  hw,       \* what is found on each board that is plugged
  fs,       \* the static struct sdbfs: whose image, and whose file is open
  list,     \* sdbfs_list: empty, fs, or fs linked to itself
  pc, at,   \* where fd_probe() or fd_remove() is, and at which subsystem
  calib,    \* fd->calib: whose it is, and what
  res,      \* what the board holds: memory, interrupt, timers, tasklet, ZIO device
  olat,     \* fd->mcp_olat, as a set of pins
  pins,     \* the pins of the expander
  reg,      \* the value of mcp_olat that the user's write, or the probe's, has read
  want,     \* the termination that the user asks for
  edge,     \* history: whether the taps are the last ones below 8 ns
  temp,     \* fd->temp
  sensor,   \* its scratchpad, and whether a conversion that will be over is under way
  started,  \* fd->next_t is not zero
  skip,     \* timer runs before next_t
  excused,  \* history: what has gone wrong with the board beside its hardware
  dropped,  \* history: fs was left on the list
  faults, probes, uses \* how many may still come

vars == <<module, param, eeprom, hw, fs, list, pc, at, calib, res, olat, pins, reg, want,
          edge, temp, sensor, started, skip, excused, dropped, faults, probes, uses>>
static  == <<param, eeprom, hw>>
sdb     == <<fs, list, dropped>>
place   == <<pc, at>>
gpio    == <<olat, pins, reg, want>>
onewire == <<edge, temp, sensor, started, skip>>

\* The list mods[].
Mods == <<"spi", "gpio", "pll", "onewire", "gpio-default", "reset-again", "acam", "time",
          "i2c", "zio">>
Outputs == {<<"OUT", c>> : c \in 1..Channels}
Term    == <<"TERM">>
Unset   == {<<"UNSET">>}
NoRegs  == [user |-> Unset, probe |-> Unset]
NoCalib == [from |-> NoBoard, what |-> "zero"]
Sensor  == [scratch |-> "power-on", converting |-> FALSE]

Init ==
  /\ module = "out"
  /\ \E s \in Sites :
       /\ param = s.param /\ eeprom = s.eeprom
       /\ hw = [b \in s.plugged |-> s.hw[b]]
       /\ faults = s.faults /\ probes = s.probes /\ uses = s.uses
  /\ fs = [data |-> NoBoard, file |-> NoBoard] /\ list = "empty" /\ dropped = FALSE
  /\ pc = [b \in Boards |-> "absent"] /\ at = [b \in Boards |-> 0]
  /\ calib = [b \in Boards |-> NoCalib]
  /\ res = [b \in Boards |-> {}]
  /\ olat = [b \in Boards |-> {}] /\ pins = [b \in Boards |-> {}]
  /\ reg = [b \in Boards |-> NoRegs] /\ want = [b \in Boards |-> FALSE]
  /\ edge = [b \in Boards |-> FALSE]
  /\ temp = [b \in Boards |-> "none"] /\ sensor = [b \in Boards |-> Sensor]
  /\ started = [b \in Boards |-> FALSE] /\ skip = [b \in Boards |-> 0]
  /\ excused = [b \in Boards |-> {}]

Goes(b, where) == pc' = [pc EXCEPT ![b] = where]
\* A fault is spent if there is one.
Fault(is) == IF is THEN faults > 0 /\ faults' = faults - 1 ELSE UNCHANGED faults
Excuse(b, what, is) == excused' = IF is THEN [excused EXCEPT ![b] = @ \cup {what}]
                                        ELSE excused

----------------------------------------------------------------------------
(* The module, and the start of a probe.                                   *)

\* fd_init(): ZIO's driver, then FMC's, or neither. The static fs is new.
Load ==
  /\ module = "out" /\ module' = "loaded"
  /\ fs' = [data |-> NoBoard, file |-> NoBoard] /\ list' = "empty" /\ dropped' = FALSE
  /\ UNCHANGED <<static, place, calib, res, gpio, onewire, excused, faults, probes,
                 uses>>

\* fd_exit(): no more probes, every board that is up is removed, and ZIO's driver last.
Unload ==
  /\ module = "loaded" /\ module' = "leaving"
  /\ UNCHANGED <<static, sdb, place, calib, res, gpio, onewire, excused, faults, probes,
                 uses>>
UnregisterZio ==
  /\ module = "leaving" /\ \A b \in Boards : pc[b] = "absent"
  /\ module' = "out"
  /\ UNCHANGED <<static, sdb, place, calib, res, gpio, onewire, excused, faults, probes,
                 uses>>

\* A zeroed fd; the gateware is loaded and its magic is right.
Probe(b) ==
  /\ module = "loaded" /\ pc[b] = "absent" /\ b \in DOMAIN hw /\ probes > 0
  /\ "tasklet" \notin res[b]
  /\ probes' = probes - 1
  /\ Goes(b, "data") /\ at' = [at EXCEPT ![b] = 0]
  /\ calib' = [calib EXCEPT ![b] = NoCalib]
  /\ excused' = [excused EXCEPT ![b] = {}]
  /\ edge' = [edge EXCEPT ![b] = FALSE]
  /\ temp' = [temp EXCEPT ![b] = "none"] /\ sensor' = [sensor EXCEPT ![b] = Sensor]
  /\ started' = [started EXCEPT ![b] = FALSE] /\ skip' = [skip EXCEPT ![b] = 0]
  /\ want' = [want EXCEPT ![b] = FALSE] /\ reg' = [reg EXCEPT ![b] = NoRegs]
  /\ UNCHANGED <<module, static, sdb, res, olat, pins, faults, uses>>

\* validate, the gateware or the magic may be wrong or, once the calibration was checked,
\* the version of the core; nothing is kept but fd itself.
ProbeRefused(b) ==
  /\ pc[b] = "data" \/ (pc[b] = "init" /\ at[b] = 1)
  /\ Fault(TRUE) /\ Goes(b, "absent")
  /\ UNCHANGED <<module, static, sdb, at, calib, res, gpio, onewire, excused, probes,
                 uses>>

----------------------------------------------------------------------------
(* fd_read_calibration_eeprom(), with sdb-lib.                             *)

ReadingEeprom == {"create", "open", "read", "destroy"}
Has(b, file) == eeprom[b] \notin (IF file THEN {"no-file", "no-sdb"} ELSE {"no-sdb"})

\* A mutant of ImageFor: the image is only set when there is none.
ImageOnce(b) == IF fs.data = NoBoard THEN b ELSE fs.data
ImageFor(b)  == b

SetImage(b) ==
  /\ pc[b] = "data"
  /\ fs' = [fs EXCEPT !.data = ImageFor(b)]
  /\ LET others == {o \in Boards \ {b} : pc[o] \in ReadingEeprom} IN
       /\ excused' = [o \in Boards |-> IF others # {} /\ o \in others \cup {b}
                                         THEN excused[o] \cup {"overlap"} ELSE excused[o]]
       /\ dropped' = (dropped \/ others # {})
  /\ Goes(b, "create")
  /\ UNCHANGED <<module, static, list, at, calib, res, gpio, onewire, faults, probes,
                 uses>>

\* sdbfs_dev_create(): fs->next = sdbfs_list.
Linked(l) == IF l = "empty" THEN "fs" ELSE "loop"

\* The entry points are tried in turn; without a magic word there is no calibration.
Create(b) ==
  /\ pc[b] = "create"
  /\ IF Has(fs.data, FALSE) THEN list' = Linked(list) /\ Goes(b, "open")
                            ELSE Goes(b, "check") /\ UNCHANGED list
  /\ UNCHANGED <<module, static, fs, dropped, at, calib, res, gpio, onewire, excused,
                 faults, probes, uses>>

\* sdbfs_open_id(); if there is no such file, fs stays on the list.
OpenFile(b) ==
  /\ pc[b] = "open"
  /\ IF Has(fs.data, TRUE)
       THEN fs' = [fs EXCEPT !.file = fs.data] /\ Goes(b, "read") /\ UNCHANGED dropped
       ELSE Goes(b, "check") /\ dropped' = TRUE /\ UNCHANGED fs
  /\ UNCHANGED <<module, static, list, at, calib, res, gpio, onewire, excused, faults,
                 probes, uses>>

\* sdbfs_fread(), at the place where the file was found, in the image that is set.
ReadFile(b) ==
  /\ pc[b] = "read"
  /\ calib' = [calib EXCEPT ![b] =
       [from |-> fs.data, what |-> IF Has(fs.data, TRUE) THEN eeprom[fs.data] ELSE "bad"]]
  /\ Goes(b, "destroy")
  /\ UNCHANGED <<module, static, sdb, at, res, gpio, onewire, excused, faults, probes,
                 uses>>

\* sdbfs_dev_destroy().
Unlinked(l) == IF l = "fs" THEN "empty" ELSE l

Destroy(b) ==
  /\ pc[b] = "destroy"
  /\ list' = Unlinked(list)
  /\ Goes(b, "check")
  /\ UNCHANGED <<module, static, fs, dropped, at, calib, res, gpio, onewire, excused,
                 faults, probes, uses>>

\* fd_handle_eeprom_calibration(): the hash is not looked at if a file was asked for, even
\* one that cannot be loaded, nor with the defaults; the version always is.
Chosen(b) == IF param.default THEN [from |-> "default", what |-> "good"]
             ELSE IF param.load = "file" THEN [from |-> "file", what |-> "good"]
             ELSE calib[b]
HashOk(b)    == calib[b].what \in {"good", "old"} \/ param.load # "no" \/ param.default
VersionOk(b) == Chosen(b).what \notin {"old", "zero"}

CheckCalib(b) ==
  /\ pc[b] = "check"
  /\ calib' = [calib EXCEPT ![b] = Chosen(b)]
  /\ IF HashOk(b) /\ VersionOk(b)
       THEN Goes(b, "init") /\ at' = [at EXCEPT ![b] = 1]
       ELSE Goes(b, "absent") /\ UNCHANGED at
  /\ UNCHANGED <<module, static, sdb, res, gpio, onewire, excused, faults, probes, uses>>

----------------------------------------------------------------------------
(* The temperature: fd_read_temp().                                        *)

\* The wait for a conversion, from the configuration byte, is long enough for it, and less
\* than a second; with the byte of a dead bus it is 94 * 2^7 ms, in which the timer runs a
\* few times, two with the period that the driver has by default.
LongEnough(cfg) == cfg >= Resolution
DeadRuns        == 12032 \div (1000 * Period)
\* A mutant of Runs takes the wait for seconds.
RunsSeconds(cfg) == IF cfg > 3 THEN 12 ELSE 0
Runs(cfg)        == IF cfg > 3 THEN DeadRuns ELSE 0
\* A mutant of FirstConfig: the byte 0x1f in place of 0x7f.
FirstConfigLow == 0
FirstConfig    == 3

\* __temp_command_and_next_t(): the wait is set whether or not the sensor answers.
Command(s, cfg, answers) ==
  IF answers THEN [s EXCEPT !.converting = LongEnough(cfg)] ELSE s
Converted(s) ==
  IF s.converting THEN [scratch |-> "converted", converting |-> FALSE] ELSE s

\* The read after the wait; dead names the transfers that the sensor does not answer.
ReadTemp(b, dead) ==
  LET first == IF started[b] THEN sensor[b]
               ELSE Command(sensor[b], FirstConfig, "first" \notin dead)
      ready == Converted(first)
      cfg   == IF "read" \in dead THEN 7 ELSE Resolution IN
    /\ temp' = [temp EXCEPT ![b] = IF "read" \in dead THEN "garbage" ELSE ready.scratch]
    /\ started' = [started EXCEPT ![b] = TRUE]
    /\ sensor' = [sensor EXCEPT ![b] = Command(ready, cfg, "command" \notin dead)]
    /\ skip' = [skip EXCEPT ![b] = Runs(cfg)]

Transfers == {{}, {"first"}, {"read"}, {"command"}}

\* fd_update_calibration(), in a timer, cannot sleep: before next_t it does with the value
\* it has.
TimerFires(b, dead) ==
  /\ "temp_timer" \in res[b]
  /\ IF skip[b] > 0
       THEN dead = {} /\ skip' = [skip EXCEPT ![b] = @ - 1]
            /\ UNCHANGED <<temp, sensor, started>>
       ELSE ReadTemp(b, dead)
  /\ UNCHANGED <<edge, res>>
  /\ Fault(dead # {}) /\ Excuse(b, "onewire", dead # {})
  /\ UNCHANGED <<module, static, sdb, place, calib, gpio, probes, uses>>

----------------------------------------------------------------------------
(* The subsystems.                                                         *)

\* fd_pll_init(): a wait whose limit wraps does not run, and the lock bit is then looked
\* for in the index of the loop over the registers.
RegCountOdd == RegCount + 1
TableEnd    == RegCount
PllLocks(b, wraps) == IF wraps THEN TableEnd % 2 = 1 ELSE hw[b].pll

\* acam_test_addr_bit(): two addresses that differ in one bit are told apart, unless the
\* bit is stuck; they are tried for these pairs, with data bits 0, 3 and 16. The loop over
\* the data bits never runs.
TestedPairs == {<<{}, 0>>, <<{0}, 1>>, <<{}, 2>>, <<{0, 1}, 3>>}
Address(bits, stuck) == bits \ stuck
TestBus(b) ==
  /\ \A p \in TestedPairs :
       Address(p[1], hw[b].stuck) # Address(p[1] \cup {p[2]}, hw[b].stuck)
  /\ hw[b].data # "tested"

\* fd_find_8ns_tap(): bisection, the delay of tap 0 taken off.
Bisected(delay) ==
  LET bisect[span \in (0..NumTaps-1) \X (0..NumTaps-1)] ==
        LET l == span[1]  r == span[2]  mid == (l + r) \div 2 IN
        IF r - l <= 1 THEN l
        ELSE bisect[IF delay[mid] - delay[0] < 1 THEN <<mid, r>> ELSE <<l, mid>>]
  IN bisect[<<0, NumTaps - 1>>]
LastBelow(delay, l) ==
  /\ l > 0 => delay[l] - delay[0] < 1
  /\ l < NumTaps - 2 => delay[l + 1] - delay[0] >= 1

\* The outcome of an init that sets no state but what is modelled here. late: the clock
\* wraps, or a limit is passed just as the lock is seen, or a transfer fails.
Works(b, late) ==
  CASE Mods[at[b]] = "gpio"        -> ~late
    [] Mods[at[b]] = "pll"         -> PllLocks(b, late)
    [] Mods[at[b]] = "reset-again" -> hw[b].ddr /\ ~late
    [] Mods[at[b]] = "zio"         -> ~late
    [] OTHER                       -> TRUE

\* A failed init is not undone itself, only those before it. A mutant passes over one more.
UndoFromLess(n) == n - 2
UndoFrom(n)     == n - 1
Undone(b, n) == IF n = 0 THEN Goes(b, "absent") /\ at' = [at EXCEPT ![b] = 0]
                         ELSE Goes(b, "undo") /\ at' = [at EXCEPT ![b] = n]
Advance(b) == IF at[b] = Len(Mods) THEN Goes(b, "irq") /\ UNCHANGED at
              ELSE at' = [at EXCEPT ![b] = @ + 1] /\ UNCHANGED pc

Simple == {"spi", "gpio", "pll", "gpio-default", "reset-again", "time", "i2c", "zio"}

\* fd_gpio_init() and fd_gpio_defaults() set the outputs and clear the termination;
\* fd_zio_init() shows the device to users.
InitSimple(b, late) ==
  /\ pc[b] = "init" /\ Mods[at[b]] \in Simple
  /\ Fault(late)
  /\ IF ~Works(b, late)
       THEN Undone(b, UndoFrom(at[b])) /\ UNCHANGED <<res, olat, pins>>
       ELSE /\ Advance(b)
            /\ res' = IF Mods[at[b]] # "zio" THEN res
                      ELSE [res EXCEPT ![b] = @ \cup {"zio"}]
            /\ LET set == CASE Mods[at[b]] = "gpio"         -> {}
                            [] Mods[at[b]] = "gpio-default" -> Outputs
                            [] OTHER                        -> olat[b] IN
                 /\ olat' = [olat EXCEPT ![b] = set]
                 /\ pins' = [pins EXCEPT ![b] = set]
  /\ UNCHANGED <<module, static, sdb, calib, reg, want, onewire, excused, probes, uses>>

\* fd_onewire_init(): the sensor must answer; then one temperature.
InitOnewire(b, dead) ==
  /\ pc[b] = "init" /\ Mods[at[b]] = "onewire"
  /\ Fault(dead # {}) /\ Excuse(b, "onewire", dead # {})
  /\ IF ~hw[b].sensor
       THEN dead = {} /\ Undone(b, UndoFrom(at[b])) /\ UNCHANGED onewire
       ELSE Advance(b) /\ ReadTemp(b, dead) /\ UNCHANGED edge
  /\ UNCHANGED <<module, static, sdb, calib, res, gpio, probes, uses>>

\* fd_acam_init(): bus, lock in I mode, temperature and outputs, each switched off while
\* it is measured, lock in G mode, and the timer. late: a lock is seen too late.
InitAcam(b, dead, delay, late) ==
  /\ pc[b] = "init" /\ Mods[at[b]] = "acam"
  /\ Fault(dead # {} \/ late # "no") /\ Excuse(b, "onewire", dead # {})
  /\ IF ~TestBus(b) \/ ~hw[b].acam \/ late = "I"
       THEN /\ dead = {} /\ Undone(b, UndoFrom(at[b]))
            /\ UNCHANGED <<onewire, res, olat, pins>>
       ELSE /\ ReadTemp(b, dead)
            /\ edge' = [edge EXCEPT ![b] = LastBelow(delay, Bisected(delay))]
            /\ olat' = [olat EXCEPT ![b] = @ \ Outputs]
            /\ pins' = [pins EXCEPT ![b] = @ \ Outputs]
            /\ IF late = "G"
                 THEN Undone(b, UndoFrom(at[b])) /\ UNCHANGED res
                 ELSE /\ Advance(b)
                      /\ res' = IF ~param.period THEN res
                                ELSE [res EXCEPT ![b] = @ \cup {"temp_timer"}]
  /\ UNCHANGED <<module, static, sdb, calib, reg, want, probes, uses>>

\* fd_irq_init(): the length of the fifo is looked at, the carrier's answer is not. Then
\* FD_FLAG_INITED is set.
InitIrq(b) ==
  /\ pc[b] = "irq"
  /\ IF ~param.fifo
       THEN Undone(b, UndoFrom(Len(Mods) + 1)) /\ UNCHANGED res
       ELSE /\ res' = [res EXCEPT ![b] = @ \cup {"fifo"} \cup
                         IF param.polled THEN {"fifo_timer"}
                         ELSE IF hw[b].irq THEN {"irq"} ELSE {}]
            /\ Goes(b, "outputs") /\ at' = [at EXCEPT ![b] = 1]
  /\ UNCHANGED <<module, static, sdb, calib, gpio, onewire, excused, faults, probes, uses>>

----------------------------------------------------------------------------
(* The expander: the end of fd_probe() and a user of the termination.      *)

\* fd_gpio_val(). A mutant forgets the pins outside the mask.
LatchOnly(old, mask, set) == IF set THEN mask ELSE {}
Latch(old, mask, set)     == IF set THEN old \cup mask ELSE old \ mask

\* Nothing locks mcp_olat between its read and its write.
ReadLatch(b, who) ==
  /\ reg' = [reg EXCEPT ![b][who] = olat[b]]
  /\ Excuse(b, "race", \E o \in {"user", "probe"} \ {who} : reg[b][o] # Unset)

\* gpio_writel_with_retry(): if every retry fails, the pins are left as they are and no
\* one is told.
WriteLatch(b, who, mask, set, fails) ==
  /\ olat' = [olat EXCEPT ![b] = Latch(reg[b][who], mask, set)]
  /\ pins' = IF fails THEN pins ELSE [pins EXCEPT ![b] = olat'[b]]
  /\ reg' = [reg EXCEPT ![b][who] = Unset]
  /\ Fault(fails) /\ Excuse(b, "gpio", fails)

\* The outputs are enabled one by one.
OutputRead(b) ==
  /\ pc[b] = "outputs" /\ reg[b].probe = Unset
  /\ ReadLatch(b, "probe")
  /\ UNCHANGED <<module, static, sdb, place, calib, res, olat, pins, want, onewire,
                 faults, probes, uses>>
OutputWrite(b, fails) ==
  /\ pc[b] = "outputs" /\ reg[b].probe # Unset
  /\ WriteLatch(b, "probe", {<<"OUT", at[b]>>}, TRUE, fails)
  /\ IF at[b] = Channels THEN Goes(b, "up") /\ at' = [at EXCEPT ![b] = 0]
                         ELSE at' = [at EXCEPT ![b] = @ + 1] /\ UNCHANGED pc
  /\ UNCHANGED <<module, static, sdb, calib, res, want, onewire, probes, uses>>

\* fd_zio_conf_tdc() switches the termination; the device is there from fd_zio_init() on.
UserRead(b) ==
  /\ "zio" \in res[b] /\ reg[b].user = Unset /\ uses > 0
  /\ want' = [want EXCEPT ![b] = ~@] /\ uses' = uses - 1
  /\ ReadLatch(b, "user")
  /\ UNCHANGED <<module, static, sdb, place, calib, res, olat, pins, onewire, faults,
                 probes>>
UserWrite(b, fails) ==
  /\ reg[b].user # Unset
  /\ WriteLatch(b, "user", {Term}, want[b], fails)
  /\ UNCHANGED <<module, static, sdb, place, calib, res, want, onewire, probes, uses>>

----------------------------------------------------------------------------
(* Interrupts, and the end of a board.                                     *)

\* fd_irq_handler() schedules the tasklet; fd_irq_exit() does not wait for it.
Interrupt(b) ==
  /\ "irq" \in res[b] /\ "tasklet" \notin res[b]
  /\ res' = [res EXCEPT ![b] = @ \cup {"tasklet"}]
  /\ UNCHANGED <<module, static, sdb, place, calib, gpio, onewire, excused, faults,
                 probes, uses>>
Tasklet(b) ==
  /\ "tasklet" \in res[b]
  /\ res' = [res EXCEPT ![b] = @ \ {"tasklet"}]
  /\ UNCHANGED <<module, static, sdb, place, calib, gpio, onewire, excused, faults,
                 probes, uses>>

\* fd_remove() of a board that is up, and fd_irq_exit(), which frees the fifo while the
\* device is still there.
Remove(b) ==
  /\ module \in {"loaded", "leaving"} /\ pc[b] = "up"
  /\ res' = [res EXCEPT ![b] = @ \ {"irq", "fifo_timer", "fifo"}]
  /\ Undone(b, Len(Mods))
  /\ UNCHANGED <<module, static, sdb, calib, gpio, onewire, excused, faults, probes,
                 uses>>

\* The exits that do something: fd_zio_exit(), once no user is in the device, and
\* fd_acam_exit().
Undo(b) ==
  /\ pc[b] = "undo"
  /\ Mods[at[b]] = "zio" => reg[b].user = Unset
  /\ res' = [res EXCEPT ![b] = @ \ CASE Mods[at[b]] = "zio"  -> {"zio"}
                                     [] Mods[at[b]] = "acam" -> {"temp_timer"}
                                     [] OTHER                -> {}]
  /\ Undone(b, at[b] - 1)
  /\ UNCHANGED <<module, static, sdb, calib, gpio, onewire, excused, faults, probes,
                 uses>>

----------------------------------------------------------------------------
Next ==
  \/ Load \/ Unload \/ UnregisterZio
  \/ \E b \in Boards :
       \/ Probe(b) \/ ProbeRefused(b)
       \/ SetImage(b) \/ Create(b) \/ OpenFile(b) \/ ReadFile(b) \/ Destroy(b)
       \/ CheckCalib(b)
       \/ \E late \in BOOLEAN : InitSimple(b, late)
       \/ \E dead \in Transfers : InitOnewire(b, dead) \/ TimerFires(b, dead)
       \/ \E dead \in Transfers, delay \in Delays, late \in {"no", "I", "G"} :
            InitAcam(b, dead, delay, late)
       \/ InitIrq(b)
       \/ OutputRead(b) \/ UserRead(b) \/ UserWrite(b, TRUE) \/ UserWrite(b, FALSE)
       \/ \E fails \in BOOLEAN : OutputWrite(b, fails)
       \/ Interrupt(b) \/ Tasklet(b) \/ Remove(b) \/ Undo(b)

\* A timer that is set runs, and so does what it does on time.
Fairness == \A b \in Boards : WF_vars(\E dead \in Transfers : TimerFires(b, dead))

Spec     == Init /\ [][Next]_vars
FairSpec == Spec /\ Fairness

----------------------------------------------------------------------------
(* Properties.                                                             *)

\* Type invariant.
TypeOK ==
  /\ module \in {"out", "loaded", "leaving"} /\ list \in {"empty", "fs", "loop"}
  /\ fs \in [data : Boards \cup {NoBoard}, file : Boards \cup {NoBoard}]
  /\ pc \in [Boards -> ReadingEeprom \cup
              {"absent", "data", "check", "init", "irq", "outputs", "up", "undo"}]
  /\ at \in [Boards -> 0..Len(Mods) \cup 1..Channels]
  /\ \A b \in Boards : calib[b].from \in Boards \cup {NoBoard, "file", "default"}
  /\ res \in [Boards -> SUBSET {"fifo", "irq", "fifo_timer", "tasklet", "temp_timer",
                                "zio"}]
  /\ \A b \in Boards : olat[b] \cup pins[b] \subseteq Outputs \cup {Term}
  /\ temp \in [Boards -> {"none", "power-on", "converted", "garbage"}]
  /\ skip \in [Boards -> 0..DeadRuns] /\ want \in [Boards -> BOOLEAN]

\* A board that passed the check of its calibration has its own, with a good hash and a
\* version the driver knows, or the file's or the defaults if they were asked for. Two cases
\* are left out, in which the code does go wrong: two probes that read EEPROMs at once,
\* through one struct, and a file that was asked for but cannot be loaded, which switches
\* the test of the hash off all the same. fs is on the list of sdb-lib only while a probe
\* reads, unless one did not find its file.
InUse(b) == pc[b] \in {"init", "irq", "outputs", "up"}
OwnCalibration ==
  /\ \A b \in Boards : InUse(b) /\ "overlap" \notin excused[b] =>
       \/ calib[b].from = b /\ (calib[b].what = "good" \/ param.load = "missing")
       \/ calib[b] = [from |-> "default", what |-> "good"] /\ param.default
       \/ calib[b] = [from |-> "file", what |-> "good"] /\ param.load = "file"
  /\ list # "empty" /\ ~dropped => \E b \in Boards : pc[b] \in ReadingEeprom

\* "If the hash of the data structure found on EEPROM is not valid, the driver will use the
\* compile-time default values", unless a file takes their place. It does not hold: such a
\* board is refused, and if the file cannot be loaded the wrong contents are used.
DefaultsIfHashWrong ==
  [][\A b \in Boards :
       CheckCalib(b) /\ calib[b].what = "bad" /\ param.load # "file" =>
         pc'[b] = "init" /\ calib'[b] = [from |-> "default", what |-> "good"]]_vars

\* A board comes up only if its reference and its TDC had locked, its sensor answers, and
\* no address line of the TDC, nor any data line that the test of addresses uses, is stuck,
\* whatever the clock did meanwhile; and the delay lines are set to the last tap below 8 ns
\* of any increasing delay. Its input is served, unless the carrier refused the interrupt.
UpMeansTested ==
  \A b \in Boards : pc[b] \in {"outputs", "up"} =>
    /\ hw[b].pll /\ hw[b].ddr /\ hw[b].acam /\ hw[b].sensor
    /\ hw[b].stuck = {} /\ hw[b].data # "tested" /\ edge[b]
    /\ "fifo" \in res[b]
    /\ hw[b].irq => res[b] \cap {"irq", "fifo_timer"} # {}

\* A board whose probe failed, or that was removed, has no timer, no interrupt, no device:
\* at most a tasklet that was not waited for, if it was up. While one is being undone, no
\* interrupt and no timer uses the fifo that was freed.
NothingLeft ==
  \A b \in Boards :
    /\ pc[b] = "absent" => res[b] \subseteq {"tasklet"}
    /\ res[b] \cap {"irq", "fifo_timer"} # {} => "fifo" \in res[b] /\ pc[b] # "undo"

\* With no write under way the pins are what the probe and the user asked for: all outputs,
\* and the termination as written last. The exceptions: the probe and the user read the
\* shadow at once, or all the retries of a transfer failed.
PinsAsAsked ==
  \A b \in Boards :
    pc[b] = "up" /\ reg[b] = NoRegs /\ excused[b] \cap {"race", "gpio"} = {} =>
      pins[b] = Outputs \cup (IF want[b] THEN {Term} ELSE {})

\* A temperature that the driver has was converted: it is not the value that the sensor
\* has at power-on, unless the bus failed; and after a failure the timer, which goes on with
\* garbage for some runs, has a converted temperature again in the end.
TempConverted ==
  \A b \in Boards :
    /\ [](temp[b] \in {"none", "converted"} \/ "onewire" \in excused[b])
    /\ (pc[b] = "up" /\ temp[b] = "garbage" /\ param.period)
         ~> (temp[b] = "converted" \/ pc[b] # "up")
============================================================================
