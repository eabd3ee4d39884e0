----------------------------- MODULE FdPrograms -----------------------------
(***************************************************************************)
(* The programs that read time stamps, one after another on one board:     *)
(* fdelay_read() and fdelay_fread() with their test programs, fd-raw-input *)
(* and fd-raw-perf on the device itself, the raw programs tdc_raw_dump and *)
(* speed_test, the loggers fdelay-gs and fdelay-dumplog, and fdelay-term,  *)
(* which switches the termination. A program may be killed at any time.    *)
(*                                                                         *)
(* The driver is seen through its control device: samples are numbered as  *)
(* they arrive, in 16 bits, and those that find no room are lost. Blocks   *)
(* of the raw mode hold several samples and name the first; they tell      *)
(* nothing of samples that were lost among theirs.                         *)
(***************************************************************************)
EXTENDS Integers, Sequences, FiniteSets, SequencesExt

CONSTANTS
  Programs,   \* those that are run
  SeqSize,    \* 2^16, the sequence numbers
  BufLen,     \* max-buffer-len: blocks that wait to be read
  BlockLen,   \* post-samples: samples of a raw block
  ReadLen,    \* samples that fdelay-read and fdelay-fread ask for
  Retries,    \* 10, of the White Rabbit lock
  OffsetBits, \* values of input_offset, as sets of bits
  MaxSamples, \* bound: samples in a behaviour
  MaxRuns     \* bound: programs in a behaviour

Library == {"read", "fread"}
Raw     == {"raw-dump", "speed-test"}
Loggers == {"gs", "dumplog"}

ASSUME ProgramsAssumption ==
  /\ Programs \subseteq Library \cup Raw \cup Loggers \cup {"raw-input", "raw-perf", "term"}
  /\ {SeqSize, BufLen, BlockLen, ReadLen} \subseteq Nat \ {0} /\ SeqSize % 2 = 0
  /\ {Retries, MaxSamples, MaxRuns} \subseteq Nat

\* The bits that fdelay_set_config_tdc() lets pass.
ConfigMask == {"INPUT", "TSTAMP", "TERM"}

VARIABLES
  raw,      \* the parameter raw_tdc of the driver
  sent,     \* samples numbered so far
  queue,    \* blocks in the buffer: the first sample of each and their number
  flags,    \* fd->tdc_flags, as a set of bits
  term,     \* the termination itself
  prog,     \* the program that runs
  pc,       \* where it is
  asked,    \* its arguments: the termination wanted, and input_offset
  hwval,    \* its copy of the flags
  tries,    \* writes of flags, tests of the lock or calls still to make
  i,        \* samples taken by this call of fdelay_read()
  base,     \* samples taken by the calls before it, in fdelay_fread()
  dest,     \* the array t[] of the caller; 0 where nothing was written
  expected, \* next, or the sequence number before, of the programs that compare
  lost,     \* what they report
  done,     \* the variable done of handle_readout()
  warm,     \* more than a second has passed since the first sample
  log,      \* the records of the log file: stamps, counted from 1, or one of these two
            \* marks
  got,      \* history: the blocks this program has read, or this burst of them
  ret,      \* history: the value of the library call
  ends,     \* history: samples taken when each call of fdelay_read() returned
  misread,  \* history: the flags this program read were not those in force
  before,   \* history: the termination when this program started
  cold,     \* history: samples read before it was warm
  runs

device  == <<raw, sent, queue>>
board   == <<flags, term>>
config  == <<asked, hwval, tries, misread, before>>
call    == <<i, base, dest, ret, ends>>
compare == <<expected, lost>>
logging == <<done, warm, log, cold>>
vars == <<device, board, prog, pc, config, call, compare, logging, got, runs>>

None == -1
LogStart == 0
LogEnd == -1

\* fdelay_init() has found the board; the program has nothing in its variables yet.
Fresh ==
  /\ hwval' = {} /\ misread' = FALSE
  /\ i' = 0 /\ base' = 0 /\ dest' = [k \in 0..ReadLen-1 |-> 0] /\ ret' = 0 /\ ends' = <<>>
  /\ lost' = <<>> /\ done' = FALSE /\ warm' = FALSE /\ cold' = 0 /\ got' = <<>>

Init ==
  /\ raw \in BOOLEAN /\ sent = 0 /\ queue = <<>> /\ flags = {} /\ term = FALSE
  /\ prog = "none" /\ pc = "over" /\ asked = [term |-> "off", offset |-> {}]
  /\ hwval = {} /\ tries = 0 /\ misread = FALSE /\ before = FALSE
  /\ i = 0 /\ base = 0 /\ dest = [k \in 0..ReadLen-1 |-> 0] /\ ret = 0 /\ ends = <<>>
  /\ expected = None /\ lost = <<>> /\ done = FALSE /\ warm = FALSE /\ log = <<>>
  /\ cold = 0 /\ got = <<>> /\ runs = 0

----------------------------------------------------------------------------
(* The driver, as its control device shows it.                             *)

\* m samples arrive, of which n get into a block, one or more of them in a raw one: the
\* others were lost between the first and the next block, where fifos overflowed. If the
\* buffer is full all are counted and lost.
Arrive(n, m) ==
  /\ sent + m <= MaxSamples /\ (n > 1 => raw)
  /\ sent' = sent + m
  /\ queue' = IF Len(queue) < BufLen THEN Append(queue, [at |-> sent, n |-> n]) ELSE queue
  /\ UNCHANGED <<raw, board, prog, pc, config, call, compare, logging, got, runs>>

Seq16(block) == block.at % SeqSize

\* fdelay_set_config_tdc() and fd_zio_conf_tdc(): flags with other bits are refused; the
\* termination follows a bit that changes.
SetConfig(val) ==
  IF val \subseteq ConfigMask
    THEN /\ flags' = val
         /\ term' = IF ("TERM" \in val) = ("TERM" \in flags) THEN term ELSE "TERM" \in val
    ELSE UNCHANGED board

----------------------------------------------------------------------------
(* Programs start, configure the board and end.                            *)

FirstPc(p) == CASE p \in Library -> "call"
                [] p \in Raw \cup Loggers \cup {"term"} -> "get"
                [] OTHER -> "select"

\* load_config() of the loggers opens the log when it meets the command, and executes the
\* last line of the file twice if a newline ends it: feof() is only true after a read that
\* fails.
Starts(p, last) == IF p \notin Loggers THEN <<>>
                   ELSE IF last THEN <<LogStart, LogStart>> ELSE <<LogStart>>

Start(p, want, offset, last) ==
  /\ pc = "over" /\ runs < MaxRuns
  /\ p # "term" => (p \in Raw <=> raw)
  /\ want = "keep" => p = "term"
  /\ prog' = p /\ pc' = FirstPc(p) /\ runs' = runs + 1
  /\ asked' = [term |-> IF p \in Raw THEN "off" ELSE want,
                offset |-> IF p \in Loggers THEN offset ELSE {}]
  /\ tries' = IF p = "read" THEN 1 ELSE 0
  /\ expected' = IF p \in Raw THEN 0 ELSE None
  /\ log' = Starts(p, last) /\ before' = term
  /\ Fresh
  /\ UNCHANGED <<device, board>>

\* enable_termination() and main() of fdelay-term: the flags are read, the bit changed.
GetConfig ==
  /\ pc = "get"
  /\ hwval' = CASE asked.term = "on"  -> flags \cup {"TERM"}
               [] asked.term = "off" -> flags \ {"TERM"}
               [] OTHER              -> flags
  /\ misread' = (("TERM" \in flags) # term)
  /\ tries' = IF prog = "term" THEN 1 ELSE 3
  /\ pc' = "set"
  /\ UNCHANGED <<device, board, prog, asked, before, call, compare, logging, got, runs>>

Toggled(val) == IF "TERM" \in val THEN val \ {"TERM"} ELSE val \cup {"TERM"}

\* A mutant of AfterToggles: the loop is left one write early.
AfterTogglesEarly(n) == n <= 2
AfterToggles(n)      == n = 1

\* The loggers and the raw programs write the flags three times, switching the bit each
\* time; no result is looked at.
SetTermination ==
  /\ pc = "set"
  /\ SetConfig(hwval)
  /\ hwval' = Toggled(hwval)
  /\ tries' = IF ~AfterToggles(tries) THEN tries - 1
              ELSE IF prog \in Loggers THEN Retries ELSE 0
  /\ pc' = IF ~AfterToggles(tries) THEN "set"
           ELSE CASE prog = "term"     -> "finished"
                  [] prog \in Loggers  -> "lock"
                  [] prog \in Raw      -> "offset"
  /\ UNCHANGED <<device, prog, asked, misread, before, call, compare, logging, got, runs>>

\* enable_wr(): the lock is tested once a second; the last failure ends the program,
\* and the log is left as it is.
WrLocked ==
  /\ pc = "lock" /\ pc' = "offset" /\ tries' = 0
  /\ UNCHANGED <<device, board, prog, asked, hwval, misread, before, call, compare, logging,
                 got, runs>>
WrNotLocked ==
  /\ pc = "lock"
  /\ IF tries = 0 THEN pc' = "failed" /\ UNCHANGED tries
                  ELSE tries' = tries - 1 /\ UNCHANGED pc
  /\ UNCHANGED <<device, board, prog, asked, hwval, misread, before, call, compare, logging,
                 got, runs>>

\* configure_board() writes input_offset, zero in the raw programs, to user-offset, and
\* fd_zio_conf_tdc() leaves it in the flags too.
WriteOffset ==
  /\ pc = "offset"
  /\ flags' = asked.offset
  /\ pc' = "select"
  /\ UNCHANGED <<device, term, prog, config, call, compare, logging, got, runs>>

\* A signal, or the time limit of fd-raw-input. The handler of the loggers ends the log.
Killed ==
  /\ pc \notin {"over", "failed", "finished"}
  /\ pc' = "over"
  /\ log' = IF prog \in Loggers THEN Append(log, LogEnd) ELSE log
  /\ UNCHANGED <<device, board, prog, config, call, compare, done, warm, cold, got, runs>>

\* exit().
Ends ==
  /\ pc \in {"failed", "finished"} /\ pc' = "over"
  /\ UNCHANGED <<device, board, prog, config, call, compare, logging, got, runs>>

----------------------------------------------------------------------------
(* fdelay_read() and fdelay_fread().                                       *)

Take == queue # <<>> /\ queue' = Tail(queue) /\ UNCHANGED <<raw, sent>>

\* The slot that fdelay_read() fills is always the first of the array it is given.
\* A mutant of FreadSlot: fdelay_fread() passes t for t + i.
FreadSlotFirst(b) == 0
FreadSlot(b) == b

\* What fdelay_fread() asks for. A mutant passes n for n - i.
AsksForAll(b) == ReadLen
AsksFor(b)    == ReadLen - b

\* The value goes to the program, or to the loop of fdelay_fread().
Return(value) ==
  IF prog = "fread" /\ value >= 0 /\ base + value < ReadLen
    THEN base' = base + value /\ i' = 0 /\ pc' = "call" /\ UNCHANGED ret
    ELSE ret' = base + value /\ pc' = "returned" /\ UNCHANGED <<i, base>>

\* A block is there.
ReadOne ==
  /\ pc = "call" /\ Take
  /\ got' = Append(got, Head(queue))
  /\ dest' = [dest EXCEPT ![FreadSlot(base)] = Head(queue).at + 1]
  /\ IF i + 1 = AsksFor(base)
       THEN Return(i + 1) /\ ends' = Append(ends, base + i + 1)
       ELSE i' = i + 1 /\ UNCHANGED <<base, pc, ret, ends>>
  /\ UNCHANGED <<board, prog, config, compare, logging, runs>>

\* EAGAIN after samples: the call returns them. At the first one it waits in select(),
\* which is no step.
ReadAgain ==
  /\ pc = "call" /\ queue = <<>> /\ i > 0
  /\ Return(i) /\ ends' = Append(ends, base + i)
  /\ UNCHANGED <<device, board, prog, config, dest, compare, logging, got, runs>>

\* Another error, a signal in select(), or nothing there and O_NONBLOCK: what was taken
\* is dropped.
ReadFails ==
  /\ pc = "call"
  /\ ret' = None /\ pc' = "returned"
  /\ UNCHANGED <<device, board, prog, config, i, base, dest, ends, compare, logging, got,
                 runs>>

\* fdelay-read calls twice, into the same array.
ReadTwice ==
  /\ pc = "returned" /\ tries > 0 /\ ret >= 0
  /\ pc' = "call" /\ tries' = tries - 1
  /\ i' = 0 /\ base' = 0 /\ ret' = 0 /\ ends' = <<>> /\ got' = <<>>
  /\ UNCHANGED <<device, board, prog, asked, hwval, misread, before, dest, compare, logging,
                 runs>>

\* The test programs print and close the board.
CloseBoard ==
  /\ pc = "returned" /\ (tries = 0 \/ ret < 0)
  /\ pc' = "over"
  /\ UNCHANGED <<device, board, prog, config, call, compare, logging, got, runs>>

----------------------------------------------------------------------------
(* The programs that compare sequence numbers.                             *)

\* The numbers between two events, in 16 bits.
LostEvents(seq) == (seq - (expected + 1)) % SeqSize

\* event().
Event(seq) ==
  /\ lost' = IF expected = None THEN lost ELSE Append(lost, LostEvents(seq))
  /\ expected' = seq

\* main() of fd-raw-input: one block for each time select() announces one.
RawInput ==
  /\ pc = "select" /\ prog = "raw-input" /\ Take
  /\ Event(Seq16(Head(queue)))
  /\ got' = Append(got, Head(queue))
  /\ UNCHANGED <<board, prog, pc, config, call, logging, runs>>

\* A difference of numbers as int16_t.
Signed16(x) == IF x % SeqSize >= SeqSize \div 2 THEN (x % SeqSize) - SeqSize ELSE x % SeqSize

\* perf_one().
PerfOne(seq) ==
  /\ lost' = IF got = <<>> THEN lost ELSE Append(lost, Signed16(seq - expected - 1))
  /\ expected' = seq

\* main() of fd-raw-perf.
RawPerf ==
  /\ pc = "select" /\ prog = "raw-perf" /\ Take
  /\ PerfOne(Seq16(Head(queue)))
  /\ got' = Append(got, Head(queue))
  /\ UNCHANGED <<board, prog, pc, config, call, logging, runs>>

\* perf_report_clean(), 300 ms after a burst: the averages divide by one less than its
\* pulses, and a burst of one kills the program.
PerfReport ==
  /\ pc = "select" /\ prog = "raw-perf" /\ queue = <<>> /\ got # <<>>
  /\ pc' = IF Len(got) = 1 THEN "over" ELSE "select"
  /\ got' = <<>> /\ lost' = <<>>
  /\ UNCHANGED <<device, board, prog, config, call, expected, logging, runs>>

\* What a raw program expects after a block: tdc_raw_dump starts again from zero,
\* speed_test wraps. A mutant of it does not.
DumpNext(seq, n)       == IF seq + n > SeqSize - 1 THEN 0 ELSE seq + n
SpeedNextNoWrap(seq, n) == seq + n
SpeedNext(seq, n)      == IF seq + n > SeqSize - 1 THEN (seq + n) % SeqSize ELSE seq + n

\* The main() of both, with their handle_readout(). When the data of a block cannot be read
\* fdelay_read_raw() returns no value: its caller goes on as here, or has not seen the
\* block, like those that Arrive loses.
RawBlock ==
  /\ pc = "select" /\ prog \in Raw /\ Take
  /\ LET b   == Head(queue)
         seq == Seq16(b) IN
       /\ lost' = Append(lost, IF expected = seq THEN 0 ELSE 1)
       /\ expected' = IF prog = "raw-dump" THEN DumpNext(seq, b.n) ELSE SpeedNext(seq, b.n)
       /\ got' = Append(got, b)
  /\ UNCHANGED <<board, prog, pc, config, call, logging, runs>>

----------------------------------------------------------------------------
(* handle_readout() of the loggers.                                        *)

\* Time passes since the first sample, of fdelay-gs.
SecondPasses ==
  /\ prog = "gs" /\ got # <<>> /\ ~warm
  /\ warm' = TRUE /\ cold' = Len(got)
  /\ UNCHANGED <<device, board, prog, pc, config, call, compare, done, log, got, runs>>

\* select() announces a sample to fdelay-gs, whose variable done is not initialised.
\* fdelay-dumplog tries without being told.
EnterReadout ==
  /\ pc = "select" /\ prog \in Loggers /\ queue # <<>>
  /\ done' \in IF prog = "gs" THEN BOOLEAN ELSE {done}
  /\ pc' = "readout"
  /\ UNCHANGED <<device, board, prog, config, call, compare, warm, log, cold, got, runs>>

\* fdelay-gs takes a sample and drops it until done.
GsSample ==
  /\ pc = "readout" /\ prog = "gs" /\ Take
  /\ got' = Append(got, Head(queue))
  /\ done' = (done \/ warm)
  /\ pc' = IF done' THEN "log" ELSE "readout"
  /\ UNCHANGED <<board, prog, config, call, compare, warm, log, cold, runs>>

\* fdelay-dumplog logs all of them.
DumplogSample ==
  /\ pc = "readout" /\ prog = "dumplog" /\ Take
  /\ got' = Append(got, Head(queue))
  /\ pc' = "log"
  /\ UNCHANGED <<board, prog, config, call, compare, logging, runs>>

\* A mutant of LogWrite: the sample after it in the buffer is taken too.
LogWriteLate ==
  /\ pc = "log"
  /\ log' = Append(log, Last(got).at + 1)
  /\ pc' = "readout"
  /\ queue' = IF queue = <<>> THEN queue ELSE Tail(queue)
  /\ got' = IF queue = <<>> THEN got ELSE Append(got, Head(queue))
  /\ UNCHANGED <<raw, sent, board, prog, config, call, compare, done, warm, cold, runs>>

\* log_write().
LogWrite ==
  /\ pc = "log"
  /\ log' = Append(log, Last(got).at + 1)
  /\ pc' = "readout"
  /\ UNCHANGED <<device, board, prog, config, call, compare, done, warm, cold, got, runs>>

\* EAGAIN: back to select().
LeaveReadout ==
  /\ pc = "readout" /\ queue = <<>>
  /\ pc' = "select"
  /\ UNCHANGED <<device, board, prog, config, call, compare, logging, got, runs>>

----------------------------------------------------------------------------
Next ==
  \/ \E n \in 1..BlockLen : \E m \in n..MaxSamples : Arrive(n, m)
  \/ \E p \in Programs, want \in {"on", "off", "keep"}, offset \in OffsetBits, last \in BOOLEAN :
       Start(p, want, offset, last)
  \/ GetConfig \/ SetTermination \/ WrLocked \/ WrNotLocked \/ WriteOffset
  \/ Killed \/ Ends
  \/ ReadOne \/ ReadAgain \/ ReadFails \/ ReadTwice \/ CloseBoard
  \/ RawInput \/ RawPerf \/ PerfReport \/ RawBlock
  \/ SecondPasses \/ EnterReadout \/ GsSample \/ DumplogSample \/ LogWrite \/ LeaveReadout

Spec == Init /\ [][Next]_vars

----------------------------------------------------------------------------
(* Properties.                                                             *)

\* Type invariant.
TypeOK ==
  /\ raw \in BOOLEAN /\ sent \in 0..MaxSamples
  /\ queue \in Seq([at : 0..MaxSamples, n : 1..BlockLen]) /\ Len(queue) <= BufLen
  /\ term \in BOOLEAN /\ prog \in Programs \cup {"none"}
  /\ pc \in {"over", "get", "set", "lock", "offset", "select", "call", "returned",
             "readout", "log", "failed", "finished"}
  /\ i \in 0..ReadLen-1 /\ base \in 0..ReadLen-1 /\ ret \in -1..ReadLen
  /\ dest \in [0..ReadLen-1 -> 0..MaxSamples]
  /\ expected \in -1..SeqSize+BlockLen-1 /\ tries \in 0..Retries+3
  /\ log \in Seq(-1..MaxSamples) /\ done \in BOOLEAN /\ warm \in BOOLEAN

\* fdelay_read() and fdelay_fread() return as many samples as they took from the device,
\* and no inner call of fdelay_fread() writes over what another one left: the first slot of
\* each holds a sample of its own.
Filled(k) == k = 0 \/ (k \in ToSet(ends) /\ k < ret)
EndOfCall(k) == CHOOSE e \in ToSet(ends) : e > k /\ \A f \in ToSet(ends) : f > k => e <= f
CallsApart ==
  pc = "returned" /\ ret >= 0 =>
    /\ Len(got) = ret
    /\ \A k \in 0..ReadLen-1 :
         Filled(k) => \E j \in k+1..EndOfCall(k) : dest[k] = got[j].at + 1

\* What fdelay_read() promises, "like the system call", and fdelay_fread(), "it reads all the
\* samples": those that were read are in the array, in their order, as the test programs
\* print them. It does not hold: fdelay_read() writes every sample over the one before.
ReadFills == pc = "returned" /\ ret >= 0 => \A k \in 0..ret-1 : dest[k] = got[k + 1].at + 1

\* Samples that were lost between a block and the next.
Missing(a, b) == b.at - (a.at + a.n)
\* tdc_raw_dump loses count at a block that crosses the end of the sequence numbers.
Crosses(a) == prog = "raw-dump" /\ Seq16(a) + a.n > SeqSize
Before(k) == IF k = 1 THEN [at |-> 0, n |-> 0] ELSE got[k - 1]

\* What the programs report as lost is what the driver lost between the blocks they read:
\* fd-raw-input up to a multiple of 2^16, fd-raw-perf up to half of it, and the raw
\* programs whether anything was, across the wrap of the numbers.
GapsReported ==
  CASE prog = "raw-input" ->
         /\ Len(lost) = Len(got) - (IF got = <<>> THEN 0 ELSE 1)
         /\ \A k \in 1..Len(lost) : lost[k] = Missing(got[k], got[k + 1]) % SeqSize
    [] prog = "raw-perf" ->
         \A k \in 1..Len(lost) :
           Missing(got[k], got[k + 1]) < SeqSize \div 2 =>
             lost[k] = Missing(got[k], got[k + 1])
    [] prog \in Raw ->
         \A k \in 1..Len(lost) :
           ~Crosses(Before(k)) =>
             (lost[k] = 0 <=> Missing(Before(k), got[k]) % SeqSize = 0)
    [] OTHER -> TRUE

\* Once a program has configured the board, the termination is what it was asked for, or
\* what it was before the program. The loggers and the raw programs get what they asked for
\* whatever the bit of the flags said, by switching it twice. Nothing changes when the flags
\* hold bits that are no flags, which the library refuses without a word to the user, nor
\* when fdelay-term, which writes once, finds flags that do not tell the termination.
Configured == \/ pc \in {"lock", "offset", "select", "readout", "log"}
              \/ pc = "finished"
Heard == /\ hwval \subseteq ConfigMask
         /\ prog = "term" => ~misread /\ asked.term # "keep"
TerminationAsAsked ==
  Configured /\ prog \in Raw \cup Loggers \cup {"term"} =>
    term = IF Heard THEN asked.term = "on" ELSE before

\* The log holds, between its marks, stamps that were read, each once and in order. None
\* is left out but those read in the first second of fdelay-gs and one that was read when
\* the program was killed; the mark at the end is there only when a signal ended it.
Stamped == {k \in DOMAIN log : log[k] > 0}
Stamps  == {log[k] : k \in Stamped}
MustLog == {got[k].at + 1 : k \in
              IF prog = "dumplog" THEN DOMAIN got
              ELSE IF warm THEN cold+1..Len(got) ELSE {}}
LogComplete ==
  prog \in Loggers =>
    /\ \A j, k \in Stamped : j < k => log[j] < log[k]
    /\ Stamps \subseteq {got[k].at + 1 : k \in DOMAIN got}
    /\ MustLog \ Stamps \subseteq
         IF got # <<>> /\ pc \in {"log", "over"} THEN {Last(got).at + 1} ELSE {}
    /\ \A k \in DOMAIN log : log[k] = LogEnd => k = Len(log) /\ pc = "over"
============================================================================
