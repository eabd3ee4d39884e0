# A verification development of the fine-delay driver

TLA+ models of the Linux driver (`src/kernel`), of the user library (`src/lib`) and of the programs
(`src/lib`, `src/tools`, `src/raw_tdc`, `src/NewLogger`) of the fine-delay mezzanine: a board that
stamps input pulses and generates delayed ones. The models are checked with TLC on small instances, and every
invariant, the action property and the refinement that the runs check are proved with TLAPS for every value of
the constants. Liveness is model-checked.

Contents: 1 the system, 2 the plan, 3 the input path, 4 the stamps, 5 configuration and clock,
6 the outputs, 7 the programs that read, 8 the life of the boards, 9 what is proved, 10 what is not
modelled, 11 how to run it.

## 1. The system: components, state, operations

| component | state it keeps | operations | talks to |
|---|---|---|---|
| **Input path** `fd-irq.c`, `fd-zio.c` (`fd_zio_input`) | the software fifo (`sw_fifo.head/tail/t`), `FD_FLAG_DO_INPUT`, `FD_FLAG_INPUT_READY`, the tasklet, the poll timer | interrupt, `fd_read_hw_fifo`, `fd_tlet`, `fd_read_sw_fifo`, `fd_zio_input` | the hardware fifo; ZIO's trigger and buffer (shared flags, calls both ways) |
| **Time arithmetic, stamps** `fd-irq.c`, `fd-zio.c` | `calib.tdc_zero_offset`, `tdc_user_offset`, the attributes of `current_ctrl`, `tdc_attrs` | normalise, add and subtract picoseconds, report | input path, output path, sysfs |
| **Configuration, clock** `fd-zio.c`, `time.c` | `tdc_flags`, attribute values (`utc-h`, `utc-l`, `coarse`), `wr_mode`, registers GCR, TSBCR, TCR, the clock | `conf_set`, `info_get`, commands (set host time, WR on/off/query, purge, dump), `fd_time_set/get` | users through sysfs, the stamp enable of the input path |
| **Output path** `fd-zio.c` | channel registers, `delay_offset[4]`, `user_offset[4]`, `frr_cur[4]` | `fd_zio_output`, `__fd_zio_output` | ZIO, the recalibration timer |
| **Delay-line calibration, temperature** `calibrate.c`, `acam.c`, `onewire.c` | `frr_cur`, `frr_offset`, `temp`, `next_t`, the timer | bisection of the 8 ns tap, periodic update, conversions | output path (shared `frr_cur` and FRR register), gpio |
| **Probe, remove** `fd-core.c`, `fd-irq.c`, `fd-zio.c` | what is initialised, `FD_FLAG_INITED`, timers, tasklet | probe in the order of `mods[]`, unwinding, remove | every other component |
| **EEPROM and SDB files** `calibration.c`, `i2c.c`, `sdb-lib` | the `calib` structure, the list of file systems | search an entry point, open, read, check the hash | probe |
| **GPIO, SPI, PLL** `gpio.c`, `spi.c`, `pll.c` | the shadow `mcp_olat` | bit read-modify-write with retries, transfers with a time limit | configuration, probe, WR mode |
| **User library** `lib/*.c` | board table, open descriptors | `fdelay_read`, `fdelay_fread`, `fdelay_config_pulse`, set and get time, flags | sysfs and ZIO devices of the driver |
| **Programs** `lib` examples, `tools`, `NewLogger`, `raw_tdc` | expected sequence numbers, the log, copies of the flags | compute pulses, configure a board, read, compare, log | library, or the devices directly |
| **Register maps, gateware** `kernel/hw` | — | constants | everything |

`zio/` and `fmc-bus/` are submodules of the repository that are not part of it; what the driver
expects of them is modelled from the calls in `src/kernel` and marked external.

### What is hard, and what makes each component correct

* **Input path.** Four kinds of contexts meet here: the interrupt (or the timer), the tasklet, a
  process inside `fd_zio_input()`, and a purge from sysfs. The software fifo is tested for
  emptiness without its lock, the producer moves the consumer's index on overflow, and the whole
  is kept together by one flag, INPUT_READY, set and cleared outside any lock. Correct means: one
  consumer at a time, a ring that is always a window on the stream of samples, stamps in order and
  never twice, the right stamp on each block, and a trigger that is never armed and forgotten.
* **Stamps.** Numbers that borrow and carry across four units and two 32-bit words, with offsets of
  both signs written at any moment. Correct means: every stamp is the hardware's plus its offsets,
  to the last fraction, and normalised.
* **Configuration.** `utc-h` latches and programs the two other attributes, so a time is three
  separate calls of a user that interleave with those of another. `tdc_flags` is the memory of what
  the registers hold and is written by paths that have nothing to do with flags. Correct means:
  the registers hold what was last written, and a user who is alone gets and sets whole times.
* **Output.** A pulse is refused or programmed as a whole, with its end after its start, and the
  fine register holds the tap for the current temperature. The timer writes that tap with no lock.
* **Lifecycle.** Each init is undone in reverse order, users may come as soon as ZIO registers, and
  the exit leaves interrupts and the tasklet behind while it frees what they use.
* **EEPROM, SPI, GPIO, library.** Partial failures: short reads, results that are ignored, jiffies
  that wrap.

`PROJECT.json` lists each hazard at its line with the properties that guard it. Where the code does go wrong, and
a property can only name the case as its exception, the hazard has no property but a note that says so.

## 2. The plan

The order is that of importance: first what every user depends on, and what tests can hardly reach.

| # | module | models | with | state |
|---|---|---|---|---|
| 1 | `FdInput` | the input path, all contexts | implements `SampleStream` | done |
| 2 | `FdTime`, `FdStamp` | the arithmetic; a stamp on its way while offsets are written | `FdStamp` extends `FdTime` | done |
| 3 | `FdConfig`, `FdClock` | flags of the input and their registers; clock and White Rabbit as several users see them | share GCR, through set-time | done, but for the output attributes |
| 4 | `FdPulse`, `FdOutput` | what programs compute for a pulse; `__fd_zio_output()` beside writes of offsets and the recalibration timer | extend `FdTime` | done |
| 5 | `FdPrograms` | library loops, tools, raw programs and loggers over the control device | — | done |
| 6 | `FdBoard` | module, EEPROM through `sdb-lib`, probe, unwinding, remove, with interrupt, tasklet, timer and early users alive | — | done |
| 7 | — | readers of the stamp attributes, payload of raw blocks, several boards in one program | `FdStamp`, `FdPrograms` | open |

`FdBoard` is the merger of two modules once planned (lifecycle and EEPROM): the list of file systems
matters only across probes and removals. The output channel has no separate abstract specification:
`PulseAsAsked` and `TrainAsAsked` state, in plain numbers, the pulse that the registers must describe.

The theorems once planned are proved (section 9), with those of `FdConfig`, `FdOutput` and `FdPrograms`. What is
left is row 7.

## 3. The input path: `FdInput`, `SampleStream`, `MCFdInput`

### State and actions

A sample is the ordinal of the pulse it stamps. Each kernel context (`"irq"`, `"tlet"`, and every
process of `Procs`) has a program counter. A step is one critical section, or one unlocked access
to shared state, so every interleaving that the locks allow is explored.

| code | model |
|---|---|
| `sw_fifo.head`, `tail`, `t[]` (unbounded counters, index modulo the length) | `head`, `tail`, `fifo` |
| `FD_FLAG_DO_INPUT`, `FD_FLAG_INPUT_READY` | `doInput`, `inputReady` |
| hardware timestamp buffer, TSBCR enable | `hw`, `tsEnable`, `stamped` |
| `tasklet_schedule` | `tletSched` |
| ZIO trigger armed, `active_block`, `current_ctrl`, buffer | `armed`, `hasBlock`, `data`, `attrs`, `zbuf` |
| `fd_irq_handler()` | `IrqRaise`, `IrqEnter`, `HwCheck`, `HwFetch`, `IrqSchedule` |
| `fd_read_hw_fifo()`: unlocked test, then the locked fetch and push | `HwCheck`, `HwFetch` |
| `fd_tlet()`, also the timer's function | `TletRun`, `TletTest`, `TletClear` |
| `fd_read_sw_fifo()`: unlocked test, locked take, fill of the block, raw loop | `Check`, `Take`, `Fill`, `More` |
| `fd_zio_input()` | `Enter`, then the above, then `Mark` or `DataDone` |
| `FD_CMD_PURGE_FIFO` | `Purge` |

ZIO is external. What is assumed of it: the normal input is self-timed, so `data_done` arms the
trigger again at once, while with `raw_tdc` it may or may not; arming an armed trigger fails;
arming allocates a block if the buffer has room and calls `raw_io`; `data_done` stores the block
with a copy of `current_ctrl`. A purge that comes between the test of EMPTY and the fetch leaves
the fetch registers undefined: the model takes any stamp given so far.

`log` and `out` are history variables: what was pushed and what was taken. No action reads them.

### Properties

* `OneConsumer`: at most one context is between the unlocked test and the end of the read. This is
  what makes the test safe, and nothing in the code says it: it follows from the way INPUT_READY
  and the armed trigger are handed back and forth (`Handshake`).
* `ArmedMeansReady`: an armed trigger nobody is serving has INPUT_READY set; a flag that is set
  belongs to an armed trigger. This is why clearing the flag before `data_done` is right.
* `RingInv`: the fifo is a window on the stream of pushed samples. It implies the `BUG_ON` of
  `fd_read_hw_fifo()` never fires.
* `DataInOrder`, `BlocksInOrder`: stamps leave in order, none twice; a raw block carries the stamp
  of its first sample, and blocks queue in order, though `current_ctrl` is shared.
* `RefinesStream`: all of it implements `SampleStream`, whose queue is the window of the software
  fifo followed by the hardware fifo. Samples are lost in two ways only: a new one when the hardware
  is full, and the oldest half of a full fifo.
* `WakeupServed`, `PolledSampleServed`: a tasklet scheduled while INPUT_READY is set, or the poll
  timer, does get queued samples out, whatever the interleaving and in spite of a purge.

### Runs

| run | instance | result |
|---|---|---|
| `input_safety` | fifo of 2, hardware of 2, buffer of 2, raw blocks of 2, two processes (symmetric), interrupt or timer, raw or not, 4 pulses, no purge | all safety properties and the refinement hold; about 966,000 states |
| `input_live` | one process, hardware of 1, buffer of 1, 3 pulses, 1 purge, `FairSpec` | both liveness properties hold, with `RingInv` and `ArmedMeansReady` under purges; about 147,000 states |
| `input_lost_wakeup` | interrupt only, 2 pulses, no purge, `FairSpec` | `QueuedSampleServed` is **violated** |

Why these bounds are enough: two slots are the fewest for which an overflow drops a sample and keeps
another, four pulses the fewest that fill both fifos and overflow the software one, so index
wrap-around, overflow during a take, and a full ZIO buffer all occur. Two processes are enough for
one to arm while the other is inside; a third would wait for the same flag. `CHECK_DEADLOCK` is
off because the pulses are bounded: the system stops when they have all been served.

Fairness: weak fairness of the interrupt, of the tasklet (or timer), and of a process that is inside
the driver. An interrupt that is requested is served, a scheduled softirq runs, and kernel code that
does not sleep is run to its end by the kernel. No fairness for pulses, for arming or for readers:
nobody has to use the board.

### Disagreements found

* **A sample may wait for the next pulse** (`input_lost_wakeup`). Between the emptiness test of
  `fd_zio_input()` and its `set_bit`, the interrupt may queue a sample and its tasklet may run, find
  INPUT_READY clear and return. Then the flag is set, the sample is there, and nobody looks until
  another pulse comes. The code suspects it (`FIXME: race condition` in `fd_tlet()`).
* **A purge leaves the software fifo alone** (`Purge`; no run of its own): samples queued before are handed out
  after it, though the manual says "Empty the input fifo" (`fine-delay.in:845`, `fd-zio.c:364`).

### Notes

`fifo_len=1` passes the power-of-two test of `fd_irq_init()`. Half of one is zero, so an overflow
drops nothing, and the ring holds two samples in one slot. The driver's default is 1024; the runs and
`RingSafe` take at least two slots. `head` and `tail` are unbounded in the model; in the code they
are `unsigned long` and wrap, which is harmless for a power of two.

## 4. The stamps: `FdTime`, `FdStamp`, `MCFdStamp`

`FdTime` translates the arithmetic, one operator per function, with the numbers of the code
(`CoarsePerSec` = 125,000,000, `FracPerCoarse` = 4096, `PicoPerCoarse` = 8000, `WordSize` = 2^32,
`RawSize` = 2^28) as constants:

| code | operator |
|---|---|
| `fd_split_pico()` | `SplitPico` |
| `fd_ts_sub()`, `fd_ts_add()` | `TsSub`, `TsAddUnsigned`, `TsAdd` |
| `fd_normalize_time()` | `NormalizeTime` (`FixCoarse`, then `TsAdd`) |
| `fd_attr_sub()`, `fd_attr_add()`, `fd_apply_offset()` | `AttrSub`, `AttrAdd`, `ApplyOffset` |
| the assignments of `fd_read_sw_fifo()` | `ToAttr` |

`FdStamp` takes one sample after another through `fd_read_sw_fifo()`. The offsets are read four
times with no lock: to normalise (`Normalize`), to report the zero offset (`Fill`), to report the user
offset (`Report`), to apply it (`Apply`). `WriteOffset`, a write of the attributes `offset` or
`user-offset`, may come between any two.

* `Normalized`: a time is in range from normalisation on.
* `Exact`: at every point of the way the time is the hardware's plus the offsets that were read,
  counted in fractions modulo the range of the seconds. Only the conversion of an offset truncates.
* `ReportedWhenQuiet`: the offsets a stamp reports are those in it, unless one was written
  meanwhile. The condition cannot be dropped: the reads are not atomic.

The run `stamp_exact` scales the constants: seconds of 5 coarse units of 4 fractions, 7 picoseconds
to a coarse unit (not a multiple of 4, so conversion truncates), words of 2, a coarse register of 16.
Samples sit at each edge of the coarse count (first and last of a second, above it, negative), offsets
go from minus one second to one second, at most two are written, and the number of stamps is not
bounded. All properties hold in 2.5 million states. Every carry and borrow, through the 64 bits of
seconds, occurs; section 9 says why the scale does not matter.

Two preconditions come from the code: an offset is at most a second (`fd_split_pico()` has a
`BUG_ON`, and 32 bits of picoseconds are 2.1 ms), and the hardware reports a coarse count between
minus one second and two seconds (`InRange`).

Samples in the payload of a raw block get the zero offset and not the user offset; the payload is
not in this model.

## 5. Configuration and clock: `FdConfig`, `FdClock`, `MCFdClock`

ZIO calls the handlers of a device one at a time (`fd-zio.c:265` relies on it), so two writes of
attributes never overlap. Three things still interleave: a library call is several accesses;
the first arming of the trigger writes TSBCR from another path; and `fd_irq_init()`, the last step of the
probe, writes GCR after ZIO has made the device visible.

### `FdConfig`: the flags

A value of the flags is the set of its bits; so is the value of an offset, for its low bits.

| code | model |
|---|---|
| `fd_zio_conf_tdc()`, flags | `WriteFlags` (change, GCR, read of TSBCR), `WriteTsbcr`, `WriteTerm` (expander, `tdc_flags`) |
| `fd_zio_conf_tdc()`, offsets | `WriteOffset` |
| `fd_time_set()`, its part on GCR | `TimeSetBegins`, `TimeSetEnds` |
| `FD_CMD_PURGE_FIFO` | `Purge` |
| `fd_zio_input()`, first call | `ArmPurges`, `ArmEnables` |
| end of `fd_irq_init()` | `LetItRun` |

GCR has one bit that matters, so its read and write are one step; TSBCR has two (the channel mask and
the enable), and a write of flags holds a copy of it between its read and its write. The expander may
fail all its retries, as `fd_gpio_val()` drops the error.

* `FlagsInForce`: between writes, the register of each flag does what the user last wrote, though only
  changed bits are written and set-time zeroes GCR. Excused (`overridden`, a history variable) are flags
  set by other code since their register was last written: an offset overwrote the bit in
  `tdc_flags`; a purge or the first arming enabled the stamps against `DISABLE_TSTAMP`;
  `fd_irq_init()` enabled the input against an early `DISABLE_INPUT`; or the expander did not answer.
* `ChannelSelected`: once the input is in use its channel stays selected, unless a write of flags had TSBCR
  in hand when the trigger was armed. The exception is real: that write then restores a register without
  the channel mask, DO_INPUT is set, and no stamp comes until a purge.
* `FlagsReadBack` is **violated** (run `config_readback`): a write of `offset` or `user-offset` ends at the
  label `out:` and stores the offset in `tdc_flags`.

The module has no parameters and no bound: `config_flags` explores all of it (about 130,000 states). The proofs in
`FdConfig_proofs` add the reason: what a write in progress still has to restore.

### `FdClock`: time and White Rabbit

Each user (`Procs`) is at some point of `fdelay_get_time()` (`GetHigh`, `GetLow`, `GetCoarse`),
`fdelay_set_time()` (`SetCoarse`, `SetLow`, `SetHigh`) or none, and may give up half-way (`Return`), as the
library does when an access fails. Reading `utc-h` captures the time and stores it in the three attributes
(`fd_zio_info_get`); writing it programs what they hold (`fd_zio_conf_set`). Commands are `HostTime`,
`WrOn`, `WrOff`; the query changes nothing. `Tick` lets the clock take any time at any moment, and `WrTunes` lets White Rabbit write the DAC:
both are external. ZIO is assumed to store a value before it calls the handler, as the handler reads the
attribute.

* `GotOneTime`, `SetOneTime`: a user gets one time that the clock has shown, and sets the time it wanted,
  unless another user read `utc-h` or wrote `utc-l` or `coarse` during the call (`touched`, a history
  variable). The condition is needed: the attributes are shared by all users, and a reader
  overwrites what a writer has just stored.
* `WrModeInForce`: FD_FLAG_WR_MODE and FD_TCR_WR_ENABLE agree; setting or capturing the time, which
  rewrites TCR, does not turn White Rabbit off.

A disagreement seen while modelling, without a run of its own: when White Rabbit is turned off the transfer of
the default value to the DAC selects no chip, for `fd_spi_xfer()` (`spi.c:28`) never uses `FD_SCR_SEL_DAC`
(`Selected`, `WrOff`). `fd-zio.c:177` says "write default to DAC for VCXO"; the DAC keeps what it was tuned to.

`clock_users` has two symmetric users and two times that differ in every word, which is what it takes to see a
word of the wrong time; calls, commands and ticks are not bounded. A third user can disturb no
more than the second; the proofs are for any number.

## 6. The outputs: `FdPulse`, `FdOutput`, `MCFdOutput`

`FdPulse` is what user space computes, as operators. Each of the five ways to ask for a pulse has
its own parser and its own addition of times (`ClientAdd`), with the limits of its code:

| code | operator |
|---|---|
| `fdelay_pico_to_time()` of a `uint64_t` | `PicoToTime`: a number below zero is read as one of `PicoSize` more |
| `ts_add()` of `fdelay-pulse-tom` and `fdelay-gs`, `my_ts_add()` of `tdc_raw_dump` | `ExactAdd` |
| `fdelay_add_ps()` | `LibAdd`: carries above a second, not at it |
| the sum in `main()` of `fdelay-pulse` | `PulseAdd`: neither carry is taken at the limit |
| `ts_add()` of `fdelay-dumplog` | `DumplogAdd`: looks at the second operand, not at the sum |
| `parse_time()`, twice; the start on a whole second of the loggers | `ParsePulse`, `ParseTom`, `InTwoSeconds` |
| `fdelay_config_pulse()` | `Attrs` |

`FdOutput` is one channel. A block disables it (`Disable`), is dropped (`Drop`: a delay under 600 ns or a
train out of range, and nobody is told), or is accepted; then the offsets are added one by one
(`AddOffset`, each a read of an attribute that a user may write meanwhile, `WriteOffset`), the tap is read
and written (`ReadTap`, `WriteTap`) and the registers are programmed (`Program`: width, gap, NO_FINE,
repeat count). `SetTap` and `KeepTap` are the two writes of `fd_update_calibration()`. Nothing is locked.

* `PulseAsAsked`: the registers hold the start that was asked for plus the offsets, and the width that was
  asked for, for each program, all units and both modes, unless an offset was written meanwhile. Of a start that
  a logger puts off (`PutOff`) only the width is promised, see below.
* `EndInRange`: the end lies within its second, or the counters of the channel never match it. It names
  the three programs for which it does not hold, and by how much: `fdelay-dumplog` whenever offset and width
  pass a second together, the library and `fdelay-pulse` at one value.
* `NoFineIffNarrow`: NO_FINE is set exactly for pulses or gaps under 200 ns, but not for those of zero
  coarse units, which the subtraction makes a second long (`Difference`), unless what it subtracts is a width
  that was made a second long itself: a gap of zero after such a width counts as narrow.
* `TrainAsAsked`: the repeat count of the register is the one asked for, where the field can hold it. `rep = 0` and
  counts beyond the field come out as another number (`RepCount`).
* `TapInForce`, `TapRepaired`: the delay line has the tap that the driver remembers, unless an
  output met the timer half-way; and in the end it always has (liveness). `quiet` and `crossed` are history
  variables: that the tap an output has read is still the one remembered, and that an output wrote another.

`Requestable` says what is asked in the model, which is less than a command line can name: no width and no
period is negative; the fraction of a second that `fdelay-pulse` is given, and the width that it or the library is
given, stay below a second. The library's own comment says of longer ones that they fail silently; `fdelay-pulse`
does not look. The tools that take a width as a time take any.

Run `output_pulse`: a second of 4 coarse units, a unit of 2 fractions and 3 picoseconds, one-bit words, so that
every carry, borrow and truncation occurs; 41 requests at one time of day (starts relative and absolute,
below zero, widths over a second, trains of every count around the limits), a second block out of three, one
write of an offset, two taps. 558,000 states; numbers of picoseconds have five bits (`PicoSize`), so that a
negative offset wraps. Two blocks are enough: a block depends on the channel only
through what it leaves alone. Fairness: `__fd_zio_output()` goes on once it has begun, and the timer fires
again and again if it was ever set. Nobody has to write blocks.

Written in the properties and not runs of their own: the carries of `fdelay_add_ps()` and of the
two programs above, `rep = 0`, the zero width, and two disagreements:

* **A negative offset of a logger puts the pulse off.** `fdelay-gs` and `fdelay-dumplog` hand the address of their
  signed `offset_pps` (`fdelay-gs.c:352`, `fdelay-dumplog.c:349`) to `fdelay_pico_to_time()`, which reads a `uint64_t`
  (`fdelay-output.c:29`): a pulse asked for some picoseconds before the second comes 2^64 ps (213 days) later.
* **`delay-offset` against the manual.** `fine-delay.in:1215-1221` says that it "is subtracted from the
  user-requested delay" and "is used for delay mode but not for pulse-generation mode". `__fd_zio_output()` adds
  `zero_offset` to start and end in both modes (`fd-zio.c:467-477`), and so does the model (`OutputOffsets`, `Applied`).
  In delay mode it also adds the offset of the input, which the manual does not name here.

## 7. The programs that read: `FdPrograms`, `MCFdPrograms`

The driver is here what its control device shows: blocks in a buffer, a 16-bit sequence number, samples
lost when it is full or, by an overflow of the fifos, among those of a raw block, which names the first only
(`Arrive`), and the flags with the termination. Programs run one after another
(`Start`, `Ends`), and each may be killed at any step (`Killed`); what one leaves in the flags the next finds.

| code | model |
|---|---|
| `fdelay_read()`, `fdelay_fread()` with `fdelay-read`, `fdelay-fread` | `ReadOne`, `ReadAgain`, `ReadFails`, `Return`, `ReadTwice` |
| `enable_termination()` of four programs, `fdelay-term` | `GetConfig`, `SetTermination` (three writes, each switching the bit) |
| `enable_wr()`, `configure_board()`, `load_config()` | `WrLocked`, `WrNotLocked`, `WriteOffset`, `Starts` |
| `event()` of `fd-raw-input`, `perf_one()` and `perf_report_clean()` of `fd-raw-perf` | `RawInput`, `RawPerf`, `PerfReport` |
| `handle_readout()` of `tdc_raw_dump`, `speed_test` | `RawBlock` with `DumpNext`, `SpeedNext` |
| `handle_readout()`, `log_write()`, the signal handler of the loggers | `EnterReadout` to `LeaveReadout`, `LogWrite`, `Killed` |

* `CallsApart`: the two library calls return the number of samples that they took from the device, and no inner
  call of `fdelay_fread()` writes over what another one left.
* `ReadFills` is **violated** (run `programs_array`): the samples that were read should be in the array, in order.
  `fdelay_read()` never moves its destination (`fdelay-tdc.c:111`), so each sample overwrites the one before,
  while its comment says that it behaves like the system call, that of `fdelay_fread()` that it "reads all the
  samples" (`:142`), and the test programs print every slot. Two samples and one program are enough to see it.
* `GapsReported`: each program reports a loss exactly when samples were lost, across the wrap of the
  numbers; `fd-raw-perf` sees up to half of their range, `tdc_raw_dump` not at a block that crosses the end of it.
* `TerminationAsAsked`: after its configuration the termination is what a program asked for, though the bit of the
  flags may say something else (an offset written by the program before). The three writes are why. Where the
  flags hold foreign bits, which an offset leaves there too, or where `fdelay-term`, which writes once, finds a bit
  that does not tell the termination, nothing changes (`Heard`): the termination is the one from before.
* `LogComplete`: the log holds the stamps that were read, in order, none twice, none missing but the first
  second of `fdelay-gs` and one read as the signal came.

Run `programs`: sequence numbers of two bits, so that they wrap within the five samples, a buffer of two blocks,
raw blocks of two samples, arrays of three, two programs in any order of all nine, in either mode of the
driver. 884,000 states. Two programs are the fewest in which one finds the flags of another; nothing but flags
and termination is handed on. Deadlock is not checked: after the last program nothing happens.

Seen while modelling, each kept in the model as the code has it: a logger executes the last line of its
configuration twice (`feof()` is true only after a read that fails), so a log may start with two marks;
`done` in `handle_readout()` of `fdelay-gs` is not initialised; `fd-raw-perf` divides by zero after a burst
of one pulse and ends there.

## 8. The life of the boards: `FdBoard`, `MCFdBoard`

| code | model |
|---|---|
| `fd_init()`, `fd_exit()` | `Load`, `Unload`, `UnregisterZio` |
| `fd_probe()` up to the magic word, and the version of the core after the calibration | `Probe`, `ProbeRefused` |
| `fd_read_calibration_eeprom()`: the one static `struct sdbfs` and the list of `sdb-lib` | `SetImage`, `Create`, `OpenFile`, `ReadFile`, `Destroy` |
| `fd_handle_eeprom_calibration()`: file, defaults, hash, version | `CheckCalib` |
| the list `mods[]` | `InitSimple`, `InitOnewire`, `InitAcam`, in order (`Mods`), and `Undo` backwards |
| `fd_irq_init()`, `fd_irq_handler()`, `fd_tlet()`, `fd_irq_exit()` | `InitIrq`, `Interrupt`, `Tasklet`, `Remove` |
| end of `fd_probe()`: the outputs, one by one | `OutputRead`, `OutputWrite` |
| a user's write of the termination | `UserRead`, `UserWrite` |
| `fd_read_temp()`, `fd_update_calibration()` | `ReadTemp`, `TimerFires` |

Boards share the module's parameters, the static `struct sdbfs` and its list; probes of different boards may
interleave in every way. `res` is what a board holds: fifo, interrupt, timers, tasklet, ZIO device. A failed
probe and a removal both walk back through the list (`pc = "undo"`). `fd_gpio_val()` is two steps, a read of the shadow
`mcp_olat` and a write of it with both transfers; the register that has the value in hand is `reg`.

What is found on a board, and in its EEPROM, is fixed (`Sites`): reference and TDC that lock or not, a sensor, stuck
address or data lines, a carrier that refuses the interrupt, an EEPROM without SDB, without the file, with a
wrong hash or an old version. What may fail now and then is an action's choice: a transfer, a one-wire
command, a time limit that passes or wraps.

* `OwnCalibration`: a board that passed the check runs with its own calibration, or with the one that the
  parameters name. Two exceptions are real. Two boards probed at once share `struct sdbfs`. And `calibration_load` turns
  the test of the hash off, even if the file cannot be loaded (`calibration.c:136-138`), so that contents with a
  wrong hash are used, though the manual says "only uses it if its hash is valid" (`fine-delay.in:1719`). Also, only
  a probe that reads keeps `struct sdbfs` on the list, unless one before did not find its file.
* `DefaultsIfHashWrong` is **violated** (run `board_hash`): the manual says that with a wrong hash "the driver will use
  the compile-time default values" (`fine-delay.in:1724`). The code refuses the board (`calibration.c:174-178`); the
  defaults are used only if a parameter asks for them.
* `UpMeansTested`: what the board's inits are meant to find out is true of every board that comes up, whatever the
  clock did; a wait for the PLL whose limit wraps fails because the table has an even number of registers
  (68, `RegCount`). The bisection has found the last tap below 8 ns, for any delays that do not decrease with
  the tap.
  Two hardware faults get through, and the property names them: data lines beyond the ones used by the test of addresses
  (the loop over data lines, `acam.c:171`, never runs) and an interrupt that the carrier refused.
* `NothingLeft`: a board that is not up holds nothing that could run, but for a tasklet that nobody
  waited for; nothing that uses the fifo outlives it, with the same exception.
* `PinsAsAsked`: outputs enabled and termination as asked, unless user and probe met in the
  shadow, or every retry of a transfer failed.
* `TempConverted`: every temperature was converted, unless the bus failed, and then the timer gets one in the end
  (liveness, from the weak fairness of the timer).

Run `board_life`: seventeen sites. One board that works is probed twice with two faults and two switches of the termination;
boards with one thing broken are probed once; two boards are probed in any interleaving with each content
of the EEPROM of the first; three other settings of the parameters. Two outputs, eight taps with the
8 ns edge at every place, a sensor of the slowest resolution, a timer of five seconds (`Period`, the default of
`calib_s`, so that the wait after a failed read takes `DeadRuns` = 2 runs of it). 187,000 states. Two boards are enough for the shared
structure, which holds one image.

## 9. What is proved

The modules `*_proofs` hold the proofs, one for each module with actions and `FdTime_proofs` for the arithmetic;
`tlapm` checks them from nothing in some minutes. A theorem holds for every value of the constants that satisfies
the named assumptions of its module, whatever the bounds on pulses, purges, writes, faults and programs.

| theorem | says |
|---|---|
| `TypeCorrect` | `FdInput`: `Spec => []TypeOK` |
| `OwnershipHolds`, `ReadyHolds` | `FdInput`: `Spec => [](OneConsumer /\ ArmedMeansReady)`, for any set of processes, any number of purges, both modes |
| `RingSafe` | `FdInput`: `FifoLen >= 2 => (Spec => []RingInv)` |
| `StreamInOrder`, `BlocksHold` | `FdInput`: with `FifoLen >= 2`, `DataInOrder` and `BlocksInOrder` as long as nobody has purged |
| `StreamRefined` | `FdInput`: with `FifoLen >= 2` and no purge, the input path implements `SampleStream` |
| `AttrSubAgrees`, `AttrAddAgrees` | `FdTime`: the arithmetic on attributes is the arithmetic on `struct fd_time`, word carry included |
| `StampTyped`, `StampNormalized`, `StampExact`, `StampReported` | `FdStamp`: the four properties, with the numbers of the code or any others |
| `FlagsTyped`, `FlagsHold`, `ChannelHolds` | `FdConfig`: `TypeOK`, `FlagsInForce`, `ChannelSelected` |
| `ClockTyped`, `WrModeHolds`, `GetTimeAlone`, `SetTimeAlone` | `FdClock`: the four properties, for any set of users and of times |
| `OutputTyped`, `PulseHolds`, `EndHolds`, `NoFineHolds`, `TrainHolds`, `TapHolds` | `FdOutput`: the six invariants, for any requests of `Requestable`, offsets, taps and the numbers of the code or any others |
| `ProgramsTyped`, `SamplesHold`, `GapsHold`, `TerminationHolds`, `LogHolds` | `FdPrograms`: the five invariants, for any lengths of buffer, block and array, any even number of sequence numbers |
| `BoardTyped`, `NothingLeftHolds`, `PinsHold`, `CalibrationHolds`, `UpHolds` | `FdBoard`: `TypeOK`, `NothingLeft`, `PinsAsAsked`, `OwnCalibration`, `UpMeansTested`, for any boards, outputs, contents of the EEPROMs, hardware and numbers of faults |
| `ConvertedHolds` | `FdBoard`: the safety half of `TempConverted` |

Two hypotheses are not those of the assumptions. `FifoLen >= 2`: a fifo of one slot is legal and breaks the ring
(section 3). No purge: after one, a fetch from an empty hardware fifo may give any old stamp. Among
the assumptions, the ones that are not mere types: what can be asked of the outputs (`Requestable`), offsets below a
second, an even number of PLL registers, delays that do not decrease with the tap, an even number of sequence numbers.

**The invariant of the input path** has three layers: `Ownership`, `Ring`, `Order`. `OneConsumer` is not inductive: a process may arm a
trigger while the tasklet is about to serve one, unless it is known who holds the armed trigger. That
is `Handshake`: a context serves only an armed trigger; INPUT_READY is clear while a process, or
`fd_zio_input()` in the tasklet, serves, and set while the tasklet reads on its own account.
`OneConsumer`, `ArmedMeansReady` and `Handshake` together are inductive (`OwnershipStep`). On top of
them `TakeHasSample` (the unlocked emptiness test is still true at the take, since nobody else consumes
and an overflow leaves at least one sample) makes `Window` inductive, and `Window` with the distinctness of
the slots of two indices less than a length apart (`SlotsDistinct`) gives `SlotsHold`.
`FifoLen >= 2` is used once: the sample just pushed survives the overflow that it causes.

Order is the third layer. `Fetching` says why a fetch finds a sample: only one context fetches, and nothing is
in the hardware fifo before the purge of the first `fd_zio_input()`. `Ordered` puts what was pushed before what waits in
the hardware, and that before the next pulse; `HandedOut` and `Buffered` follow a sample to the block and the
buffer, each time older than all that are queued (`Past`); `Payload` ties a raw block to the stamp in `current_ctrl`,
which needs `OneConsumer`. The refinement maps each action to a pulse, a fetch, a take or a stutter
(`Kinds`): a push is invisible unless it overflows, and then it loses the oldest half.

**The invariant of the stamps** is the four properties with one strengthening: at `"normalize"` the
sample is one the hardware gives. The work is in the lemmas: one borrow or carry, then `TsSubExact`,
`TsAddUnsignedExact`, `FixCoarseExact` (a shift by one second), `Words` and `WordCarry` (two words
are one number), and `AttrSubAgrees`/`AttrAddAgrees`, from which the attribute arithmetic needs no
exactness proof of its own. These lemmas are in `FdTime_proofs` and serve the outputs as well.

**The invariant of the flags** (`IInv` of `FdConfig`): users and `tdc_flags` agree on a flag that no other code has set
(`Remembered`), its register agrees with both but for the ones that the write in progress has still to touch (`Kept`),
and what that write holds is right (`Held`): a copy of TSBCR with the channel selected, unless the trigger was armed
meanwhile, and the value of GCR that set-time restores.

**The invariant of the clock** (`IInv` of `FdClock`) adds what an undisturbed user knows at each point of its
call (`Getting`, `Setting`): the words it has copied and the words it will still read come from the same time.
`KnownStep` shows that whoever changes such a word marks the user that relies on it. `SetStep` then gives
the action property.

**The outputs** have four invariants, one above the other. `TypeInv` is more than types: each program leaves its end
within limits of its own (`EndAttrs`, from `ClientAddExact`), and the driver's additions keep it there. `BlockInv`
carries the request from the block to the registers and gives `EndInRange`, `TrainAsAsked` and, with `NoFineIs`,
`NoFineIffNarrow`. `ExactInv` is the account of the offsets: the start of the block plus the offsets that are still to be
added is the start asked for plus all of them, and so for the end (`StartTodo`, `EndTodo`); `AcceptExact` opens it,
`AddExact` moves one offset from one side to the other, and `PulseAsAsked` is what is left when none remains. `TapInv` says that
the tap an output has read is the one remembered unless a run of the timer came between.

**The programs** share `StateInv`: blocks in the buffer are apart and in order and younger than those read (`InOrder`), where each kind
of program can be (`ControlInv`), the library call under way (`CallInv`), the types of the records. On top of it
each property has its own invariant. `TermInv` says after each of the three writes what the bit will be at the end. `LogInv`
says that every stamp in the log but the last sample's is one read before. `SamplesInv` strengthens `CallsApart` by
where each sample is: the array holds, for each inner call that returned, its last sample in its first slot
(`LastKept`). `GapsInv` says what the
number remembered from the last block is, and its lemmas reduce sums and differences of sequence numbers modulo their
range.

**The invariant of the boards** (`IInv` of `FdBoard`) has six parts beside the types. `Holds` says what a board may
hold at each place of its probe or of its unwinding: the timer from the seventh subsystem on, the device from the
tenth, the fifo only once `fd_irq_init()` is past; it makes `NothingLeft` inductive. `Latched` follows the shadow of
the expander through the two callers that hold a copy of it: with nothing to excuse at most one does, and its copy is true;
`Enabled` counts the outputs that are on. `Holds` is needed here too: no user comes before the device is there. `Read` says whose
image is set while a board reads, and `Listed` that at most one board reads unless the list was spoilt, which
is why `sdbfs_dev_create()` finds it empty. `NoBoards` (no board without the module) is what lets `Load` clear the structure.
`Tested` says at each place of the probe what the inits that are past have found out, and `Warm` that a temperature is
read after a conversion has begun, or the bus is to blame.

The bisection is the one place where a recursive function is reasoned about. That there is such a function is shown by giving
it (`BisectionEnds`), from the last tap below 8 ns (`LastTap`). That it finds this tap would be an induction. Induction on data is out of reach (its theorem
takes an operator as a parameter), but a counterexample of least width is not: the widths of the spans on which the bisection
fails are a finite set of numbers if they are bounded, a set of numbers that is not empty has a least one (`Least`), and
one step of the function gives a narrower span that fails too. `Bisected` is a function of one argument, the span, as the prover
has no functions of two.

**Model-checked only.** `WakeupServed`, `PolledSampleServed`, `TapRepaired` and the second half of `TempConverted` are liveness,
which needs ENABLED and is out of the prover's reach. The four violations are TLC's counterexamples, of small instances.

## 10. What is not modelled, and why

* Jiffies as a number. A limit may pass at any point, which covers every early end of a wait; a wait that
  never ends, `fd_spi_xfer()` inside `fd_wr_mode()` with interrupts off, is a hazard without a property.
* Readers of the stamp attributes: the copy into `tdc_attrs` is one step of `FdStamp`, and a reader that sees
  words of two stamps is not modelled. Nor is the payload of raw blocks, which gets the zero offset and
  not the user offset.
* Of the input path: abort of a trigger, the trigger's own stamp. Of the configuration: the version, and
  the dump command, which prints.
* Of the calibration: `acam_calc_pll()` (constant arguments), the fit of the polynomial, the statistics and the
  averaging of `output_delay_ps()`; a delay that does not grow with the tap.
* Bit-banged and register I/O below the level of one transfer: one-wire slots, `i2c.c`, the direction
  register of the expander, the tables of registers.
* The two transfers of `fd_gpio_val()` are one step with the write of the shadow; an overlap of two calls is excused in
  `PinsAsAsked` anyway.
* Of the library: the table of boards and the search in it, `fdelay_time_to_pico()`, which nobody calls, outputs
  read back. Of the programs: text, several boards in one program, averages, `parport-burst`.
* Register maps and gateware: constants; the hardware appears as external actions.

## 11. How to run it

    tlc -workers 2 -config input_safety.cfg MCFdInput
    tlc -workers 2 -config input_live.cfg MCFdInput
    tlc -workers 2 -config stamp_exact.cfg MCFdStamp
    tlc -workers 2 -config config_flags.cfg FdConfig
    tlc -workers 2 -config clock_users.cfg MCFdClock
    tlc -workers 2 -config output_pulse.cfg MCFdOutput
    tlc -workers 2 -config programs.cfg MCFdPrograms
    tlc -workers 2 -config board_life.cfg MCFdBoard
    tlapm FdInput_proofs.tla
    tlapm FdTime_proofs.tla
    tlapm FdStamp_proofs.tla
    tlapm FdConfig_proofs.tla
    tlapm FdClock_proofs.tla
    tlapm FdOutput_proofs.tla
    tlapm FdPrograms_proofs.tla
    tlapm FdBoard_proofs.tla

The runs `input_lost_wakeup` (of `MCFdInput`), `config_readback` (of `FdConfig`), `programs_array` (of `MCFdPrograms`)
and `board_hash` (of `MCFdBoard`) end with a counterexample.

Operators whose comment calls them a mutant (`OverflowLate`, `TsAddLate`, ...) are plausible bugs of the
definition that follows. `PROJECT.json` says which property each of them breaks, as a check that the
property can fail.
