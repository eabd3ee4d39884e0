------------------------------ MODULE FdInput ------------------------------
(***************************************************************************)
(* The input path of the fine-delay driver: the hardware timestamp fifo,   *)
(* the interrupt handler (or the poll timer) that empties it into the      *)
(* software fifo, the tasklet and fd_zio_input() that take samples out of  *)
(* it, and the ZIO trigger that is armed again after each block.           *)
(*                                                                         *)
(* A sample is the ordinal of the pulse it stamps: pulse 1, pulse 2, ...   *)
(* Each kernel context (the interrupt, the tasklet, a process inside the   *)
(* driver) has a program counter; one step is one critical section, or one *)
(* unlocked access to shared state.                                        *)
(***************************************************************************)
EXTENDS Integers, Sequences

CONSTANTS
  FifoLen,      \* module parameter fifo_len: slots of the software fifo
  HwLen,        \* depth of the hardware timestamp fifo
  BufLen,       \* blocks the ZIO buffer holds
  NSamples,     \* ctrl->nsamples, the samples of a raw block
  Procs,        \* processes that may arm the input trigger
  TimerModes,   \* values of (timer_ms # 0) the driver may be loaded with
  RawModes,     \* values of the raw_tdc parameter it may be loaded with
  MaxStamps,    \* bound: pulses stamped in a behaviour
  MaxPurges     \* bound: FD_CMD_PURGE_FIFO commands in a behaviour

\* fd_irq_init() lets any power of two through, 1 included.
ASSUME FifoLenAssumption == FifoLen \in Nat \ {0}
ASSUME BoundsAssumption ==
  /\ HwLen \in Nat /\ BufLen \in Nat
  /\ NSamples \in Nat \ {0}
  /\ MaxStamps \in Nat /\ MaxPurges \in Nat
ASSUME ModesAssumption == TimerModes \subseteq BOOLEAN /\ RawModes \subseteq BOOLEAN
ASSUME ProcsAssumption == "irq" \notin Procs /\ "tlet" \notin Procs

VARIABLES
  timer,        \* frozen: the poll timer replaces the interrupt
  raw,          \* frozen: blocks carry raw samples (ssize # 0)
  stamped,      \* pulses stamped by the hardware so far
  hw,           \* the hardware fifo
  tsEnable,     \* FD_TSBCR_ENABLE
  head, tail,   \* sw_fifo.head, sw_fifo.tail
  fifo,         \* sw_fifo.t
  doInput,      \* FD_FLAG_DO_INPUT
  inputReady,   \* FD_FLAG_INPUT_READY
  tletSched,    \* the tasklet is scheduled
  pc,           \* where each context is
  caller,       \* who called fd_read_sw_fifo() in the tasklet's context
  cur,          \* local variable t of fd_read_sw_fifo(), per context
  armed,        \* ZIO_TI_ARMED of the input trigger
  hasBlock,     \* chan->active_block # NULL
  data,         \* payload written to the active block
  attrs,        \* the stamp in chan->current_ctrl
  zbuf,         \* blocks in the ZIO buffer, oldest first
  purges,       \* PURGE_FIFO commands so far
  log,          \* history: every sample pushed in the software fifo
  out           \* history: every sample taken from it

modeVars   == <<timer, raw>>
hwVars     == <<stamped, hw, tsEnable>>
ringVars   == <<head, tail, fifo, log, out>>
flagVars   == <<doInput, inputReady>>
zioVars    == <<armed, hasBlock, data, attrs, zbuf>>
vars == <<modeVars, hwVars, ringVars, flagVars, zioVars, purges,
          tletSched, pc, caller, cur>>

Contexts  == Procs \cup {"irq", "tlet"}
Consumers == Procs \cup {"tlet"}
Samples   == 0..MaxStamps

\* The labels at which a context runs for an armed trigger, from the entry of
\* fd_zio_input() (or a successful test in fd_tlet()) to data_done or set_bit.
Serving == {"enter", "check", "take", "fill", "more", "clear", "done", "mark"}
Labels  == Serving \cup {"idle", "test", "rearm", "irq", "hwcheck", "hwfetch", "sched"}

Goto(c, label) == pc' = [pc EXCEPT ![c] = label]

\* fd_read_sw_fifo() is called by fd_tlet() or by fd_zio_input(); a process only
\* reaches it through the latter.
CalledByTlet(c) == c = "tlet" /\ caller = "fd_tlet"

----------------------------------------------------------------------------
(* The state after fd_probe(): nothing enabled, no trigger armed.          *)

Init ==
  /\ timer \in TimerModes /\ raw \in RawModes
  /\ stamped = 0 /\ hw = <<>> /\ tsEnable = FALSE
  /\ head = 0 /\ tail = 0 /\ fifo = [i \in 0..FifoLen-1 |-> 0]
  /\ log = <<>> /\ out = <<>>
  /\ doInput = FALSE /\ inputReady = FALSE
  /\ armed = FALSE /\ hasBlock = FALSE /\ data = <<>> /\ attrs = 0 /\ zbuf = <<>>
  /\ purges = 0
  /\ tletSched = FALSE
  /\ pc = [c \in Contexts |-> "idle"]
  /\ caller = "fd_tlet"
  /\ cur = [c \in Consumers |-> 0]

----------------------------------------------------------------------------
(* The hardware.                                                           *)

\* A pulse is stamped; the stamp is lost if the hardware fifo is full.
Pulse ==
  /\ tsEnable /\ stamped < MaxStamps
  /\ stamped' = stamped + 1
  /\ hw' = IF Len(hw) < HwLen THEN Append(hw, stamped + 1) ELSE hw
  /\ UNCHANGED <<modeVars, tsEnable, ringVars, flagVars, zioVars, purges,
                 tletSched, pc, caller, cur>>

\* The interrupt line follows TS_BUF_NOTEMPTY (the VIC emulates an edge as long
\* as the line stays up, so an ack never loses a request).
IrqRaise ==
  /\ ~timer /\ pc["irq"] = "idle" /\ hw # <<>>
  /\ Goto("irq", "irq")
  /\ UNCHANGED <<modeVars, hwVars, ringVars, flagVars, zioVars, purges,
                 tletSched, caller, cur>>

----------------------------------------------------------------------------
(* Emptying the hardware fifo: fd_read_hw_fifo() and its two callers.      *)

\* fd_irq_handler(): nothing to read (someone purged it) is only acknowledged.
IrqEnter ==
  /\ pc["irq"] = "irq"
  /\ Goto("irq", IF hw = <<>> THEN "idle" ELSE "hwcheck")
  /\ UNCHANGED <<modeVars, hwVars, ringVars, flagVars, zioVars, purges,
                 tletSched, caller, cur>>

\* The unlocked test of FD_TSBCR_EMPTY at the top of fd_read_hw_fifo(); on
\* -EAGAIN the caller's loop ends.
HwCheck(c) ==
  /\ pc[c] = "hwcheck"
  /\ Goto(c, IF hw # <<>> THEN "hwfetch" ELSE IF c = "irq" THEN "sched" ELSE "test")
  /\ UNCHANGED <<modeVars, hwVars, ringVars, flagVars, zioVars, purges,
                 tletSched, caller, cur>>

\* What the fetch registers hold after FD_TSBR_ADVANCE. A purge between the test
\* and the fetch leaves nothing to fetch, and the registers then hold anything.
Fetched == IF hw # <<>> THEN {hw[1]} ELSE 0..stamped

\* The fifo was full when the sample came; the mutant sees it one sample late.
OverflowLate == head - tail > FifoLen
Overflow     == head - tail >= FifoLen

\* The samples an overflow drops; the mutant drops one more.
DroppedOneMore == FifoLen \div 2 + 1
Dropped        == FifoLen \div 2

\* The locked part of fd_read_hw_fifo(): the slot is written first, and an
\* overflow then drops half the fifo.
HwFetch(c) ==
  /\ pc[c] = "hwfetch"
  /\ \E s \in Fetched :
       /\ fifo' = [fifo EXCEPT ![head % FifoLen] = s]
       /\ log' = Append(log, s)
  /\ hw' = IF hw = <<>> THEN hw ELSE Tail(hw)
  /\ head' = head + 1
  /\ tail' = IF Overflow THEN tail + Dropped ELSE tail
  /\ Goto(c, "hwcheck")
  /\ UNCHANGED <<modeVars, stamped, tsEnable, out, flagVars, zioVars, purges,
                 tletSched, caller, cur>>

\* fd_irq_handler() schedules the tasklet, acks, and returns.
IrqSchedule ==
  /\ pc["irq"] = "sched"
  /\ tletSched' = TRUE
  /\ Goto("irq", "idle")
  /\ UNCHANGED <<modeVars, hwVars, ringVars, flagVars, zioVars, purges, caller, cur>>

----------------------------------------------------------------------------
(* fd_tlet(): the tasklet, or the timer function when there is no interrupt.*)

\* The softirq takes the tasklet off its list before it runs it, so a tasklet
\* scheduled while it runs will run again. The timer expires again and again.
TletRun ==
  /\ pc["tlet"] = "idle" /\ (timer \/ tletSched)
  /\ tletSched' = FALSE
  /\ caller' = "fd_tlet"
  /\ Goto("tlet", IF timer THEN "hwcheck" ELSE "test")
  /\ UNCHANGED <<modeVars, hwVars, ringVars, flagVars, zioVars, purges, cur>>

\* A mutant of TletTest: the tasklet serves the fifo without the test.
TletTestAlways ==
  /\ pc["tlet"] = "test"
  /\ Goto("tlet", "check")
  /\ UNCHANGED <<modeVars, hwVars, ringVars, flagVars, zioVars, purges,
                 tletSched, caller, cur>>

\* Nothing to do unless FD_FLAG_INPUT_READY is set ("FIXME: race condition").
TletTest ==
  /\ pc["tlet"] = "test"
  /\ Goto("tlet", IF inputReady THEN "check" ELSE "idle")
  /\ UNCHANGED <<modeVars, hwVars, ringVars, flagVars, zioVars, purges,
                 tletSched, caller, cur>>

\* A mutant of TletClear: the flag stays set when the block is done.
TletClearNothing ==
  /\ pc["tlet"] = "clear"
  /\ Goto("tlet", "done")
  /\ UNCHANGED <<modeVars, hwVars, ringVars, flagVars, zioVars, purges,
                 tletSched, caller, cur>>

\* The flag is cleared before data_done, which may set it again.
TletClear ==
  /\ pc["tlet"] = "clear"
  /\ inputReady' = FALSE
  /\ Goto("tlet", "done")
  /\ UNCHANGED <<modeVars, hwVars, ringVars, doInput, zioVars, purges,
                 tletSched, caller, cur>>

----------------------------------------------------------------------------
(* fd_read_sw_fifo(), in the tasklet or in a process.                      *)

\* The mutant also gives up when there is no block to fill.
NothingToRead == tail = head \/ ~hasBlock
SwFifoEmpty   == tail = head

\* The unlocked emptiness test; on -EAGAIN fd_tlet() returns and fd_zio_input()
\* goes on to set FD_FLAG_INPUT_READY.
Check(c) ==
  /\ pc[c] = "check"
  /\ Goto(c, IF ~SwFifoEmpty THEN "take"
             ELSE IF CalledByTlet(c) THEN "idle" ELSE "mark")
  /\ UNCHANGED <<modeVars, hwVars, ringVars, flagVars, zioVars, purges,
                 tletSched, caller, cur>>

\* The slot of the oldest sample; the mutant reads it after the increment.
NextSlot == fifo[(tail + 1) % FifoLen]
Slot     == fifo[tail % FifoLen]

\* The locked copy of the oldest sample. Emptiness is not tested again.
Take(c) ==
  /\ pc[c] = "take"
  /\ cur' = [cur EXCEPT ![c] = Slot]
  /\ out' = Append(out, Slot)
  /\ tail' = tail + 1
  /\ Goto(c, "fill")
  /\ UNCHANGED <<modeVars, hwVars, head, fifo, log, flagVars, zioVars, purges,
                 tletSched, caller>>

\* fd_read_sw_fifo() returned 0.
ReadReturns(c) == Goto(c, IF CalledByTlet(c) THEN "clear" ELSE "done")

\* The local copy of the sample; the mutant has none, and reads the slot again.
SampleUnlocked(c) == Slot
Sample(c)         == cur[c]

\* The stamp goes to the trigger and to current_ctrl even with no block to fill;
\* only a raw block gets a payload.
Fill(c) ==
  /\ pc[c] = "fill"
  /\ attrs' = Sample(c)
  /\ IF raw /\ hasBlock THEN data' = <<Sample(c)>> /\ Goto(c, "more")
                        ELSE data' = data /\ ReadReturns(c)
  /\ UNCHANGED <<modeVars, hwVars, ringVars, flagVars, purges,
                 armed, hasBlock, zbuf, tletSched, caller, cur>>

\* The block has room for one more sample; the mutant overruns it by one.
RoomOverrun == Len(data) <= NSamples
RoomInBlock == Len(data) < NSamples

\* Raw mode: each turn of the loop tests and takes under the lock.
More(c) ==
  /\ pc[c] = "more"
  /\ IF RoomInBlock /\ ~SwFifoEmpty
       THEN /\ data' = Append(data, Slot)
            /\ out' = Append(out, Slot)
            /\ tail' = tail + 1
            /\ pc' = pc
       ELSE ReadReturns(c) /\ UNCHANGED <<data, out, tail>>
  /\ UNCHANGED <<modeVars, hwVars, head, fifo, log, flagVars, purges,
                 armed, hasBlock, attrs, zbuf, tletSched, caller, cur>>

----------------------------------------------------------------------------
(* fd_zio_input(), called with the trigger armed.                          *)

\* The first call purges the hardware and enables the stamps.
Enter(c) ==
  /\ pc[c] = "enter"
  /\ IF doInput THEN UNCHANGED <<hw, tsEnable>> ELSE hw' = <<>> /\ tsEnable' = TRUE
  /\ doInput' = TRUE
  /\ caller' = IF c = "tlet" THEN "fd_zio_input" ELSE caller
  /\ Goto(c, "check")
  /\ UNCHANGED <<modeVars, stamped, ringVars, inputReady, zioVars, purges,
                 tletSched, cur>>

\* A mutant of Mark: in the tasklet the flag ends up clear, as it would if
\* fd_tlet() cleared it after data_done instead of before.
MarkThenClear(c) ==
  /\ pc[c] = "mark"
  /\ inputReady' = (c # "tlet")
  /\ Goto(c, "idle")
  /\ UNCHANGED <<modeVars, hwVars, ringVars, doInput, zioVars, purges,
                 tletSched, caller, cur>>

\* The fifo was empty when tested: mark the block ready and return -EAGAIN.
Mark(c) ==
  /\ pc[c] = "mark"
  /\ inputReady' = TRUE
  /\ Goto(c, "idle")
  /\ UNCHANGED <<modeVars, hwVars, ringVars, doInput, zioVars, purges,
                 tletSched, caller, cur>>

----------------------------------------------------------------------------
(* ZIO (external): the trigger and the buffer of the input channel.        *)

\* The input is self-timed: data_done arms the trigger again. With raw_tdc it is
\* not, and either may happen.
AfterDone == IF raw THEN {"rearm", "idle"} ELSE {"rearm"}

\* zio_trigger_data_done(): the block, if there is one, goes to the buffer with
\* a copy of current_ctrl.
DataDone(c) ==
  /\ pc[c] = "done"
  /\ zbuf' = IF hasBlock THEN Append(zbuf, [attrs |-> attrs, data |-> data]) ELSE zbuf
  /\ armed' = FALSE /\ hasBlock' = FALSE /\ data' = <<>>
  /\ \E label \in AfterDone : Goto(c, label)
  /\ UNCHANGED <<modeVars, hwVars, ringVars, flagVars, purges, attrs,
                 tletSched, caller, cur>>

\* zio_arm_trigger(): an armed trigger is busy; else a block is allocated if the
\* buffer has room, and raw_io (fd_zio_input) is called.
ArmTrigger(c) ==
  /\ IF armed
       THEN Goto(c, "idle") /\ UNCHANGED <<armed, hasBlock>>
       ELSE /\ armed' = TRUE
            /\ hasBlock' = (Len(zbuf) < BufLen)
            /\ Goto(c, "enter")
  /\ UNCHANGED <<modeVars, hwVars, ringVars, flagVars, purges, data, attrs, zbuf,
                 tletSched, caller, cur>>

\* After data_done, in the same context.
Rearm(c) == pc[c] = "rearm" /\ ArmTrigger(c)

\* A process reads, or enables the trigger.
ProcArm(c) == pc[c] = "idle" /\ ~armed /\ ArmTrigger(c)

\* A user reads a block.
UserRead ==
  /\ zbuf # <<>>
  /\ zbuf' = Tail(zbuf)
  /\ UNCHANGED <<modeVars, hwVars, ringVars, flagVars, purges, armed, hasBlock,
                 data, attrs, tletSched, pc, caller, cur>>

\* FD_CMD_PURGE_FIFO in fd_zio_conf_set(): one register write purges the
\* hardware fifo and enables the stamps. It takes no lock.
Purge ==
  /\ purges < MaxPurges
  /\ purges' = purges + 1
  /\ hw' = <<>> /\ tsEnable' = TRUE
  /\ UNCHANGED <<modeVars, stamped, ringVars, flagVars, zioVars,
                 tletSched, pc, caller, cur>>

----------------------------------------------------------------------------

ReadHw(c) == HwCheck(c) \/ HwFetch(c)

Serve(c) ==
  \/ Enter(c) \/ Check(c) \/ Take(c) \/ Fill(c) \/ More(c) \/ Mark(c)
  \/ DataDone(c) \/ Rearm(c)

Irq  == IrqRaise \/ IrqEnter \/ ReadHw("irq") \/ IrqSchedule
Tlet == TletRun \/ ReadHw("tlet") \/ TletTest \/ TletClear \/ Serve("tlet")

Next ==
  \/ Pulse \/ UserRead \/ Purge
  \/ Irq \/ Tlet
  \/ \E p \in Procs : ProcArm(p) \/ Serve(p)

Spec == Init /\ [][Next]_vars

\* Interrupts, softirqs and a process inside the driver run to their end; nothing
\* is promised of pulses, of who arms the trigger, or of who reads.
Fairness == WF_vars(Irq) /\ WF_vars(Tlet) /\ \A p \in Procs : WF_vars(Serve(p))
FairSpec == Spec /\ Fairness

----------------------------------------------------------------------------
(* Properties.                                                             *)

\* Every variable has its type; a raw block never outgrows nsamples.
TypeOK ==
  /\ timer \in BOOLEAN /\ raw \in BOOLEAN
  /\ stamped \in Samples /\ hw \in Seq(Samples) /\ tsEnable \in BOOLEAN
  /\ head \in Nat /\ tail \in Nat /\ fifo \in [0..FifoLen-1 -> Samples]
  /\ log \in Seq(Samples) /\ out \in Seq(Samples)
  /\ doInput \in BOOLEAN /\ inputReady \in BOOLEAN
  /\ armed \in BOOLEAN /\ hasBlock \in BOOLEAN
  /\ data \in Seq(Samples) /\ Len(data) <= NSamples
  /\ attrs \in Samples /\ zbuf \in Seq([attrs : Samples, data : Seq(Samples)])
  /\ purges \in 0..MaxPurges
  /\ tletSched \in BOOLEAN
  /\ pc \in [Contexts -> Labels]
  /\ caller \in {"fd_tlet", "fd_zio_input"}
  /\ cur \in [Consumers -> Samples]

IsServing(c) == pc[c] \in Serving

\* At most one context is between the emptiness test of fd_read_sw_fifo() and its
\* end: the test is not repeated under the lock, so a second consumer would take
\* a sample that is not there.
OneConsumer ==
  \A c, d \in Consumers : IsServing(c) /\ IsServing(d) => c = d

\* The software fifo is a window on the stream of samples: tail never passes head
\* (the BUG_ON of fd_read_hw_fifo()), at most FifoLen samples are queued, and the
\* slot of each queued index holds the sample pushed at that index.
Window == tail <= head /\ head - tail <= FifoLen /\ head = Len(log)
SlotsHold == \A k \in tail..head-1 : fifo[k % FifoLen] = log[k + 1]
RingInv == Window /\ SlotsHold

\* An armed trigger nobody is serving has INPUT_READY set, so the next tasklet
\* will serve it; and a flag that is set always belongs to an armed trigger.
ArmedMeansReady ==
  /\ armed /\ (\A c \in Consumers : ~IsServing(c)) => inputReady
  /\ inputReady => armed

\* Who holds the armed trigger. A context serves only an armed trigger; the flag is
\* clear while a process, or fd_zio_input() in the tasklet, serves it, and set
\* while the tasklet reads on its own account.
TletReads == pc["tlet"] \in {"check", "take", "fill", "more", "clear"} /\ caller = "fd_tlet"
Handshake ==
  /\ \A c \in Consumers : IsServing(c) => armed
  /\ inputReady => \A p \in Procs : ~IsServing(p)
  /\ inputReady /\ IsServing("tlet") => TletReads
  /\ TletReads => inputReady
  /\ pc["tlet"] \in {"hwcheck", "hwfetch", "test"} => caller = "fd_tlet"

\* The context about to take a sample has one to take.
TakeHasSample == \A c \in Consumers : pc[c] = "take" => tail < head

\* The inductive invariant of the input path.
IInv == TypeOK /\ OneConsumer /\ ArmedMeansReady /\ Handshake /\ TakeHasSample /\ RingInv

\* Samples leave the fifo in the order of the pulses, none of them twice.
DataInOrder == \A i, j \in DOMAIN out : i < j => out[i] < out[j]

\* A raw block carries in its control the stamp of its first sample, and blocks
\* wait in the buffer in the order of their pulses.
BlocksInOrder ==
  \A i \in DOMAIN zbuf :
    /\ zbuf[i].data # <<>> => zbuf[i].data[1] = zbuf[i].attrs
    /\ \A j \in DOMAIN zbuf : i < j => zbuf[i].attrs < zbuf[j].attrs

\* A sample in the fifo of an armed trigger is eventually taken (or dropped).
Queued(n) == tail < n /\ n <= head
QueuedSampleServed ==
  \A n \in 1..MaxStamps : (Queued(n) /\ armed) ~> (tail >= n)

\* So it is when the driver polls.
PolledSampleServed ==
  \A n \in 1..MaxStamps : (timer /\ Queued(n) /\ armed) ~> (tail >= n)

\* A tasklet that is scheduled while INPUT_READY is set empties the fifo.
WakeupServed ==
  \A n \in 1..MaxStamps : (Queued(n) /\ inputReady /\ tletSched) ~> (tail >= n)

----------------------------------------------------------------------------
(* What the path promises: a stream of samples that may only lose the      *)
(* oldest half of a full fifo.                                             *)

QueuedSamples == [i \in 1..(head - tail) |-> fifo[(tail + i - 1) % FifoLen]] \o hw

Stream == INSTANCE SampleStream
            WITH Capacity <- FifoLen, HwCapacity <- HwLen, queue <- QueuedSamples

\* Every step of the input path is a step of SampleStream, or changes none of
\* its variables.
RefinesStream == Stream!Spec
============================================================================
