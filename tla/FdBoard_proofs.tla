--------------------------- MODULE FdBoard_proofs ---------------------------
(***************************************************************************)
(* Theorems about the life of the boards, for any number of boards and of  *)
(* outputs, any contents of the EEPROMs and any hardware.                  *)
(***************************************************************************)
EXTENDS FdBoard, FiniteSetTheorems, TLAPS

Pins    == Outputs \cup {Term}
Latches == (SUBSET Pins) \cup {Unset}
Before  == ReadingEeprom \cup {"data", "check"}
Late    == {"irq", "outputs", "up"}

\* The types: those of TypeOK, what it leaves out, and where a probe or its unwinding may be.
SdbTyped   == /\ module \in {"out", "loaded", "leaving"} /\ list \in {"empty", "fs", "loop"}
              /\ fs \in [data : Boards \cup {NoBoard}, file : Boards \cup {NoBoard}]
              /\ param.load \in {"no", "file", "missing"}
PlaceTyped == /\ pc \in [Boards -> ReadingEeprom \cup
                          {"absent", "data", "check", "init", "irq", "outputs", "up", "undo"}]
              /\ at \in [Boards -> 0..10 \cup 1..Channels]
              /\ \A b \in Boards : /\ pc[b] \in {"init", "undo"} => at[b] \in 1..10
                                   /\ pc[b] = "outputs" => at[b] \in 1..Channels
CalibTyped == /\ DOMAIN calib = Boards
              /\ \A b \in Boards : calib[b].from \in Boards \cup {NoBoard, "file", "default"}
ResTyped   == res \in [Boards -> SUBSET {"fifo", "irq", "fifo_timer", "tasklet", "temp_timer",
                                         "zio"}]
PinsTyped  == /\ olat \in [Boards -> SUBSET Pins] /\ pins \in [Boards -> SUBSET Pins]
              /\ reg \in [Boards -> [user : Latches, probe : Latches]]
              /\ want \in [Boards -> BOOLEAN]
TempTyped  == /\ temp \in [Boards -> {"none", "power-on", "converted", "garbage"}]
              /\ skip \in [Boards -> 0..DeadRuns]
              /\ sensor \in [Boards -> [scratch : {"power-on", "converted"},
                                        converting : BOOLEAN]]
ExcuseTyped == excused \in [Boards -> SUBSET {"overlap", "onewire", "race", "gpio"}]
Typed == SdbTyped /\ PlaceTyped /\ CalibTyped /\ ResTyped /\ PinsTyped /\ TempTyped /\ ExcuseTyped

\* What a board may hold, by the place where its probe, or its unwinding, is: a subsystem
\* is undone at its place or later.
HoldsAt(p, n, r) ==
  /\ p = "absent" => r \subseteq {"tasklet"}
  /\ p \in Before => r = {}
  /\ p = "init" => r \subseteq IF n > 7 THEN {"temp_timer"} ELSE {}
  /\ p = "irq" => r \subseteq {"temp_timer", "zio"}
  /\ p \in {"outputs", "up"} => "fifo" \in r
  /\ p = "undo" => r \subseteq {"tasklet"} \cup (IF n >= 7 THEN {"temp_timer"} ELSE {})
                                         \cup (IF n = 10 THEN {"zio"} ELSE {})
Holds(b) == HoldsAt(pc[b], at[b], res[b])

\* The outputs that are enabled by now.
Enabled(p, n) ==
  CASE p = "up"      -> Outputs
    [] p = "outputs" -> {<<"OUT", c>> : c \in 1..n-1}
    [] OTHER         -> {}

\* Before the device is there no one asks for anything. Then, with nothing to excuse, the
\* shadow is what the pins are, it has what was asked for, and at most one of the two
\* callers holds a copy, which is true.
LatchedAt(p, n, w, g, l, q, fine) ==
  /\ p \in Before \cup {"init"} => ~w /\ g = NoRegs
  /\ p = "init" /\ n > 5 => l = q /\ Term \notin l
  /\ p \in Late /\ fine =>
       /\ l = q /\ Enabled(p, n) \subseteq l
       /\ g.user = Unset \/ g.probe = Unset
       /\ g.user # Unset => g.user = l
       /\ g.probe # Unset => g.probe = l /\ p = "outputs"
       /\ g.user = Unset => (Term \in l <=> w)
Fine(b)    == excused[b] \cap {"race", "gpio"} = {}
Latched(b) == LatchedAt(pc[b], at[b], want[b], reg[b], olat[b], pins[b], Fine(b))

\* A board whose reading of the EEPROM did not overlap another's has its own image set, and
\* what it has read is its own.
ReadAt(b, p, c, overlap, image) ==
  /\ p \in {"data", "create", "open"} => c = NoCalib
  /\ ~overlap =>
       /\ p \in ReadingEeprom => image = b
       /\ p \in {"destroy", "check"} => c = NoCalib \/ c.from = b
       /\ p \in {"init"} \cup Late =>
            \/ c.from = b /\ (c.what = "good" \/ param.load = "missing")
            \/ c = [from |-> "default", what |-> "good"] /\ param.default
            \/ c = [from |-> "file", what |-> "good"] /\ param.load = "file"
Read(b) == ReadAt(b, pc[b], calib[b], "overlap" \in excused[b], fs.data)

\* A module that is not loaded has no board.
NoBoards == module = "out" => \A b \in Boards : pc[b] = "absent"

\* Unless fs was left on the list, at most one board reads, and fs is on the list from
\* sdbfs_dev_create() to sdbfs_dev_destroy().
Reads(b) == pc[b] \in ReadingEeprom
Listed ==
  ~dropped =>
    /\ \A b, o \in Boards : Reads(b) /\ Reads(o) => b = o
    /\ list # "empty" => list = "fs" /\ \E b \in Boards : Reads(b) /\ pc[b] # "create"

\* What the inits that a board is past have found out about it, and how its input is served.
Past(p, n, k) == p \in Late \/ (p = "init" /\ n > k)
TestedAt(p, n, b, h, e, r) ==
  /\ p # "absent" => b \in DOMAIN h
  /\ Past(p, n, 3) => h[b].pll
  /\ Past(p, n, 4) => h[b].sensor
  /\ Past(p, n, 6) => h[b].ddr
  /\ Past(p, n, 7) => h[b].acam /\ h[b].stuck = {} /\ h[b].data # "tested" /\ e
  /\ p \in {"outputs", "up"} /\ h[b].irq => r \cap {"irq", "fifo_timer"} # {}
Tested(b) == TestedAt(pc[b], at[b], b, hw, edge[b], res[b])
HwTyped == /\ \A b \in DOMAIN hw : hw[b].stuck \subseteq 0..3
           /\ DOMAIN edge = Boards

\* A temperature was converted, and once one was read the next conversion is under way and
\* will be over in time, unless the bus failed.
WarmAt(t, s, begun, cold) == \/ cold
                             \/ t \in {"none", "converted"} /\ (begun => s.converting)
Warm(b) == WarmAt(temp[b], sensor[b], started[b], "onewire" \in excused[b])
StartTyped == started \in [Boards -> BOOLEAN]

IInv == /\ Typed /\ HwTyped /\ StartTyped /\ NoBoards /\ Listed
        /\ \A b \in Boards : Holds(b) /\ Latched(b) /\ Read(b) /\ Tested(b) /\ Warm(b)

\* There is an output at least.
LEMMA ChannelsPositive == Channels \in Nat \ {0}
BY BoardAssumption

\* Where the subsystems that matter are in mods[].
LEMMA ModsFacts ==
  /\ Len(Mods) = 10
  /\ \A n \in 1..10 : /\ Mods[n] = "gpio" <=> n = 2
                      /\ Mods[n] = "pll" <=> n = 3
                      /\ Mods[n] = "onewire" <=> n = 4
                      /\ Mods[n] = "gpio-default" <=> n = 5
                      /\ Mods[n] = "reset-again" <=> n = 6
                      /\ Mods[n] = "acam" <=> n = 7
                      /\ Mods[n] = "zio" <=> n = 10
BY DEF Mods

\* No set of pins is the mark of a copy that is not held, and the termination is no output.
LEMMA UnsetFacts == Unset \notin SUBSET Pins /\ Term \notin Outputs
<1>1. <<"UNSET">> # Term
  BY DEF Term
<1>2. \A c : <<"UNSET">> # <<"OUT", c>> /\ Term # <<"OUT", c>>
  <2>1. \A c : Len(<<"OUT", c>>) = 2
    OBVIOUS
  <2>2. Len(<<"UNSET">>) = 1 /\ Len(Term) = 1
    BY DEF Term
  <2> QED BY <2>1, <2>2
<1> QED BY <1>1, <1>2 DEF Unset, Pins, Outputs

\* Typed says at least what TypeOK says.
LEMMA TypedIsTypeOK == Typed => TypeOK
BY ModsFacts DEF Typed, TypeOK, SdbTyped, PlaceTyped, CalibTyped, ResTyped, PinsTyped, TempTyped,
                 Pins

\* The wait for the sensor is a number of runs of the timer, and no longer than that for the
\* byte of a dead bus.
LEMMA RunsBounded ==
  ASSUME NEW cfg \in 0..7
  PROVE  Runs(cfg) \in 0..DeadRuns /\ DeadRuns \in Nat
<1> DEFINE k == 1000 * Period
<1>1. k \in Nat \ {0}
  BY BoardAssumption
<1> HIDE DEF k
<1>2. 12032 \div k \in Nat
  BY <1>1
<1>3. DeadRuns \in Nat
  BY <1>2 DEF DeadRuns, k
<1>4. QED
  BY <1>3 DEF Runs

\* The types hold at first.
LEMMA InitTyped == Init => Typed
<1> SUFFICES ASSUME Init PROVE Typed
  OBVIOUS
<1>1. SdbTyped
  BY BoardAssumption DEF Init, SdbTyped
<1>2. PlaceTyped /\ CalibTyped /\ ResTyped /\ ExcuseTyped
  BY DEF Init, PlaceTyped, CalibTyped, ResTyped, ExcuseTyped, NoCalib
<1>4. TempTyped
  <2>1. 0 \in 0..DeadRuns
    BY RunsBounded
  <2> QED BY <2>1 DEF Init, TempTyped, Sensor
<1>3. PinsTyped
  BY DEF Init, PinsTyped, NoRegs, Latches
<1> QED BY <1>1, <1>2, <1>3, <1>4 DEF Typed

\* The outputs enabled so far are outputs.
LEMMA EnabledOutputs ==
  ASSUME NEW p, NEW n, p = "outputs" => n \in 1..Channels PROVE Enabled(p, n) \subseteq Outputs
<1>1. CASE p = "outputs"
  <2>1. Enabled(p, n) = {<<"OUT", c>> : c \in 1..n-1}
    BY <1>1 DEF Enabled
  <2>2. 1..n-1 \subseteq 1..Channels
    BY <1>1, ChannelsPositive
  <2> QED BY <2>1, <2>2 DEF Outputs
<1>2. CASE p # "outputs"
  BY <1>2 DEF Enabled
<1> QED BY <1>1, <1>2

\* Which steps change the module, fs or its list; the other ones leave them alone.
LEMMA WhoSdb ==
  ASSUME [Next]_vars
  PROVE  \/ Load \/ Unload \/ UnregisterZio
         \/ \E b \in Boards : SetImage(b) \/ Create(b) \/ OpenFile(b) \/ Destroy(b)
         \/ UNCHANGED <<module, static, sdb>>
<1> DEFINE Same == UNCHANGED <<module, static, sdb>>
<1>1. ASSUME NEW b \in Boards,
             Probe(b) \/ ProbeRefused(b) \/ CheckCalib(b) \/ ReadFile(b) PROVE Same
  BY <1>1 DEF Probe, ProbeRefused, CheckCalib, ReadFile, static, sdb
<1>2. ASSUME NEW b \in Boards, NEW late \in BOOLEAN, InitSimple(b, late) PROVE Same
  BY <1>2 DEF InitSimple, static, sdb
<1>3. ASSUME NEW b \in Boards, NEW dead \in Transfers, InitOnewire(b, dead) \/ TimerFires(b, dead)
      PROVE Same
  BY <1>3 DEF InitOnewire, TimerFires, static, sdb
<1>4. ASSUME NEW b \in Boards, NEW dead \in Transfers, NEW delay \in Delays,
             NEW late \in {"no", "I", "G"},
             InitAcam(b, dead, delay, late) PROVE Same
  BY <1>4 DEF InitAcam, static, sdb
<1>5. ASSUME NEW b \in Boards, NEW fails \in BOOLEAN,
             OutputRead(b) \/ UserRead(b) \/ UserWrite(b, fails) \/ OutputWrite(b, fails)
      PROVE Same
  BY <1>5 DEF OutputRead, UserRead, UserWrite, OutputWrite, static, sdb
<1>6. ASSUME NEW b \in Boards,
             InitIrq(b) \/ Interrupt(b) \/ Tasklet(b) \/ Remove(b) \/ Undo(b) PROVE Same
  BY <1>6 DEF InitIrq, Interrupt, Tasklet, Remove, Undo, static, sdb
<1>7. CASE UNCHANGED vars
  BY <1>7 DEF vars, static, sdb
<1> HIDE DEF Same
<1> QED BY <1>1, <1>2, <1>3, <1>4, <1>5, <1>6, <1>7 DEF Next, Same

\* Which steps change the calibration.
LEMMA WhoCalib ==
  ASSUME [Next]_vars
  PROVE  \/ \E b \in Boards : Probe(b) \/ CheckCalib(b) \/ ReadFile(b)
         \/ UNCHANGED calib
<1> DEFINE Same == UNCHANGED calib
<1>1. CASE Load \/ Unload \/ UnregisterZio
  BY <1>1 DEF Load, Unload, UnregisterZio
<1>2. ASSUME NEW b \in Boards,
             ProbeRefused(b) \/ SetImage(b) \/ Create(b) \/ OpenFile(b) \/ Destroy(b) PROVE Same
  BY <1>2 DEF ProbeRefused, SetImage, Create, OpenFile, Destroy
<1>3. ASSUME NEW b \in Boards, NEW late \in BOOLEAN, InitSimple(b, late) PROVE Same
  BY <1>3 DEF InitSimple
<1>4. ASSUME NEW b \in Boards, NEW dead \in Transfers, InitOnewire(b, dead) \/ TimerFires(b, dead)
      PROVE Same
  BY <1>4 DEF InitOnewire, TimerFires
<1>5. ASSUME NEW b \in Boards, NEW dead \in Transfers, NEW delay \in Delays,
             NEW late \in {"no", "I", "G"},
             InitAcam(b, dead, delay, late) PROVE Same
  BY <1>5 DEF InitAcam
<1>6. ASSUME NEW b \in Boards, NEW fails \in BOOLEAN,
             OutputRead(b) \/ UserRead(b) \/ UserWrite(b, fails) \/ OutputWrite(b, fails)
      PROVE Same
  BY <1>6 DEF OutputRead, UserRead, UserWrite, OutputWrite
<1>7. ASSUME NEW b \in Boards,
             InitIrq(b) \/ Interrupt(b) \/ Tasklet(b) \/ Remove(b) \/ Undo(b) PROVE Same
  BY <1>7 DEF InitIrq, Interrupt, Tasklet, Remove, Undo
<1>8. CASE UNCHANGED vars
  BY <1>8 DEF vars
<1> HIDE DEF Same
<1> QED BY <1>1, <1>2, <1>3, <1>4, <1>5, <1>6, <1>7, <1>8 DEF Next, Same

\* Which steps change the place of a probe, or what a board holds.
LEMMA WhoPlace ==
  ASSUME [Next]_vars
  PROVE  \/ \E b \in Boards :
              Probe(b) \/ ProbeRefused(b) \/ CheckCalib(b) \/ ReadFile(b) \/ SetImage(b)
              \/ Create(b) \/ OpenFile(b) \/ Destroy(b)
         \/ \E b \in Boards, late \in BOOLEAN :
              InitSimple(b, late)
         \/ \E b \in Boards, dead \in Transfers :
              InitOnewire(b, dead)
         \/ \E b \in Boards, dead \in Transfers, delay \in Delays, late \in {"no", "I", "G"} :
              InitAcam(b, dead, delay, late)
         \/ \E b \in Boards, fails \in BOOLEAN :
              OutputWrite(b, fails)
         \/ \E b \in Boards :
              InitIrq(b) \/ Interrupt(b) \/ Tasklet(b) \/ Remove(b) \/ Undo(b)
         \/ UNCHANGED <<pc, at, res>>
<1> DEFINE Same == UNCHANGED <<pc, at, res>>
<1>1. CASE Load \/ Unload \/ UnregisterZio
  BY <1>1 DEF Load, Unload, UnregisterZio, place
<1>2. ASSUME NEW b \in Boards, NEW dead \in Transfers, TimerFires(b, dead) PROVE Same
  BY <1>2 DEF TimerFires, place
<1>3. ASSUME NEW b \in Boards, NEW fails \in BOOLEAN,
             OutputRead(b) \/ UserRead(b) \/ UserWrite(b, fails) PROVE Same
  BY <1>3 DEF OutputRead, UserRead, UserWrite, place
<1>4. CASE UNCHANGED vars
  BY <1>4 DEF vars, place
<1> HIDE DEF Same
<1> QED BY <1>1, <1>2, <1>3, <1>4 DEF Next, Same

\* Which steps change what a board holds.
LEMMA WhoRes ==
  ASSUME [Next]_vars
  PROVE  \/ \E b \in Boards, late \in BOOLEAN :
              InitSimple(b, late)
         \/ \E b \in Boards, dead \in Transfers, delay \in Delays, late \in {"no", "I", "G"} :
              InitAcam(b, dead, delay, late)
         \/ \E b \in Boards :
              InitIrq(b) \/ Interrupt(b) \/ Tasklet(b) \/ Remove(b) \/ Undo(b)
         \/ UNCHANGED res
<1> DEFINE Same == UNCHANGED res
<1>1. CASE Load \/ Unload \/ UnregisterZio
  BY <1>1 DEF Load, Unload, UnregisterZio
<1>2. ASSUME NEW b \in Boards,
             Probe(b) \/ ProbeRefused(b) \/ CheckCalib(b) \/ ReadFile(b) \/ SetImage(b)
             \/ Create(b) \/ OpenFile(b) \/ Destroy(b) PROVE Same
  BY <1>2 DEF Probe, ProbeRefused, CheckCalib, ReadFile, SetImage, Create, OpenFile, Destroy
<1>3. ASSUME NEW b \in Boards, NEW dead \in Transfers, InitOnewire(b, dead) \/ TimerFires(b, dead)
      PROVE Same
  BY <1>3 DEF InitOnewire, TimerFires
<1>4. ASSUME NEW b \in Boards, NEW fails \in BOOLEAN,
             OutputRead(b) \/ UserRead(b) \/ UserWrite(b, fails) \/ OutputWrite(b, fails)
      PROVE Same
  BY <1>4 DEF OutputRead, UserRead, UserWrite, OutputWrite
<1>5. CASE UNCHANGED vars
  BY <1>5 DEF vars
<1> HIDE DEF Same
<1> QED BY <1>1, <1>2, <1>3, <1>4, <1>5 DEF Next, Same

\* Which steps change the pins, the shadow or its copies.
LEMMA WhoPins ==
  ASSUME [Next]_vars
  PROVE  \/ \E b \in Boards : Probe(b)
         \/ \E b \in Boards, late \in BOOLEAN :
              InitSimple(b, late)
         \/ \E b \in Boards, dead \in Transfers, delay \in Delays, late \in {"no", "I", "G"} :
              InitAcam(b, dead, delay, late)
         \/ \E b \in Boards, fails \in BOOLEAN :
              OutputRead(b) \/ UserRead(b) \/ UserWrite(b, fails) \/ OutputWrite(b, fails)
         \/ UNCHANGED gpio
<1> DEFINE Same == UNCHANGED gpio
<1>1. CASE Load \/ Unload \/ UnregisterZio
  BY <1>1 DEF Load, Unload, UnregisterZio, gpio
<1>2. ASSUME NEW b \in Boards,
             ProbeRefused(b) \/ CheckCalib(b) \/ ReadFile(b) \/ SetImage(b) \/ Create(b)
             \/ OpenFile(b) \/ Destroy(b) PROVE Same
  BY <1>2 DEF ProbeRefused, CheckCalib, ReadFile, SetImage, Create, OpenFile, Destroy, gpio
<1>3. ASSUME NEW b \in Boards, NEW dead \in Transfers, InitOnewire(b, dead) \/ TimerFires(b, dead)
      PROVE Same
  BY <1>3 DEF InitOnewire, TimerFires, gpio
<1>4. ASSUME NEW b \in Boards,
             InitIrq(b) \/ Interrupt(b) \/ Tasklet(b) \/ Remove(b) \/ Undo(b) PROVE Same
  BY <1>4 DEF InitIrq, Interrupt, Tasklet, Remove, Undo, gpio
<1>5. CASE UNCHANGED vars
  BY <1>5 DEF vars, gpio
<1> HIDE DEF Same
<1> QED BY <1>1, <1>2, <1>3, <1>4, <1>5 DEF Next, Same

\* Which steps change the temperature or its sensor.
LEMMA WhoTemp ==
  ASSUME [Next]_vars
  PROVE  \/ \E b \in Boards : Probe(b)
         \/ \E b \in Boards, dead \in Transfers :
              InitOnewire(b, dead) \/ TimerFires(b, dead)
         \/ \E b \in Boards, dead \in Transfers, delay \in Delays, late \in {"no", "I", "G"} :
              InitAcam(b, dead, delay, late)
         \/ UNCHANGED <<temp, skip, sensor, started>>
<1> DEFINE Same == UNCHANGED <<temp, skip, sensor, started>>
<1>1. CASE Load \/ Unload \/ UnregisterZio
  BY <1>1 DEF Load, Unload, UnregisterZio, onewire
<1>2. ASSUME NEW b \in Boards,
             ProbeRefused(b) \/ CheckCalib(b) \/ ReadFile(b) \/ SetImage(b) \/ Create(b)
             \/ OpenFile(b) \/ Destroy(b) PROVE Same
  BY <1>2 DEF ProbeRefused, CheckCalib, ReadFile, SetImage, Create, OpenFile, Destroy, onewire
<1>3. ASSUME NEW b \in Boards, NEW late \in BOOLEAN, InitSimple(b, late) PROVE Same
  BY <1>3 DEF InitSimple, onewire
<1>4. ASSUME NEW b \in Boards, NEW fails \in BOOLEAN,
             OutputRead(b) \/ UserRead(b) \/ UserWrite(b, fails) \/ OutputWrite(b, fails)
      PROVE Same
  BY <1>4 DEF OutputRead, UserRead, UserWrite, OutputWrite, onewire
<1>5. ASSUME NEW b \in Boards,
             InitIrq(b) \/ Interrupt(b) \/ Tasklet(b) \/ Remove(b) \/ Undo(b) PROVE Same
  BY <1>5 DEF InitIrq, Interrupt, Tasklet, Remove, Undo, onewire
<1>6. CASE UNCHANGED vars
  BY <1>6 DEF vars, onewire
<1> HIDE DEF Same
<1> QED BY <1>1, <1>2, <1>3, <1>4, <1>5, <1>6 DEF Next, Same

\* Which steps record something to excuse.
LEMMA WhoExcused ==
  ASSUME [Next]_vars
  PROVE  \/ \E b \in Boards : Probe(b) \/ SetImage(b)
         \/ \E b \in Boards, dead \in Transfers :
              InitOnewire(b, dead) \/ TimerFires(b, dead)
         \/ \E b \in Boards, dead \in Transfers, delay \in Delays, late \in {"no", "I", "G"} :
              InitAcam(b, dead, delay, late)
         \/ \E b \in Boards, fails \in BOOLEAN :
              OutputRead(b) \/ UserRead(b) \/ UserWrite(b, fails) \/ OutputWrite(b, fails)
         \/ UNCHANGED excused
<1> DEFINE Same == UNCHANGED excused
<1>1. CASE Load \/ Unload \/ UnregisterZio
  BY <1>1 DEF Load, Unload, UnregisterZio
<1>2. ASSUME NEW b \in Boards,
             ProbeRefused(b) \/ CheckCalib(b) \/ ReadFile(b) \/ Create(b) \/ OpenFile(b)
             \/ Destroy(b) PROVE Same
  BY <1>2 DEF ProbeRefused, CheckCalib, ReadFile, Create, OpenFile, Destroy
<1>3. ASSUME NEW b \in Boards, NEW late \in BOOLEAN, InitSimple(b, late) PROVE Same
  BY <1>3 DEF InitSimple
<1>4. ASSUME NEW b \in Boards,
             InitIrq(b) \/ Interrupt(b) \/ Tasklet(b) \/ Remove(b) \/ Undo(b) PROVE Same
  BY <1>4 DEF InitIrq, Interrupt, Tasklet, Remove, Undo
<1>5. CASE UNCHANGED vars
  BY <1>5 DEF vars
<1> HIDE DEF Same
<1> QED BY <1>1, <1>2, <1>3, <1>4, <1>5 DEF Next, Same

\* Every step keeps the types of the module, of fs and of its list.
LEMMA SdbStep == SdbTyped /\ [Next]_vars => SdbTyped'
<1> SUFFICES ASSUME SdbTyped, [Next]_vars PROVE SdbTyped'
  OBVIOUS
<1> USE DEF SdbTyped, static, sdb
<1>1. CASE Load \/ Unload \/ UnregisterZio
  BY <1>1 DEF Load, Unload, UnregisterZio
<1>2. ASSUME NEW b \in Boards, SetImage(b) \/ Create(b) \/ OpenFile(b) \/ Destroy(b)
      PROVE SdbTyped'
  BY <1>2 DEF SetImage, Create, OpenFile, Destroy, ImageFor, Linked, Unlinked
<1>3. CASE UNCHANGED <<module, static, sdb>>
  BY <1>3
<1> QED BY <1>1, <1>2, <1>3, WhoSdb

\* Every step keeps a probe, or its unwinding, at a place there is.
LEMMA PlaceStep == PlaceTyped /\ [Next]_vars => PlaceTyped'
<1> SUFFICES ASSUME PlaceTyped, [Next]_vars PROVE PlaceTyped'
  OBVIOUS
<1> DEFINE Places == ReadingEeprom \cup
                       {"absent", "data", "check", "init", "irq", "outputs", "up", "undo"}
           Goals(b, p, n) == /\ p \in Places /\ n \in 0..10 \cup 1..Channels
                             /\ p \in {"init", "undo"} => n \in 1..10
                             /\ p = "outputs" => n \in 1..Channels
<1>0. ASSUME NEW b \in Boards, NEW p, NEW n, Goals(b, p, n),
             pc' = [pc EXCEPT ![b] = p], at' = [at EXCEPT ![b] = n]
      PROVE  PlaceTyped'
  BY <1>0 DEF PlaceTyped
<1>u. at \in [Boards -> 0..10 \cup 1..Channels] /\ pc \in [Boards -> Places]
  BY DEF PlaceTyped
<1>a. ASSUME NEW b \in Boards, UNCHANGED at PROVE at' = [at EXCEPT ![b] = at[b]]
  BY <1>a, <1>u
<1>b. ASSUME NEW b \in Boards, UNCHANGED pc PROVE pc' = [pc EXCEPT ![b] = pc[b]]
  BY <1>b, <1>u
<1>1. ASSUME NEW b \in Boards, NEW p \in Places \ {"init", "undo", "outputs"}, Goes(b, p),
             UNCHANGED at
      PROVE PlaceTyped'
  BY <1>1, <1>0, <1>a, <1>u DEF Goes
<1>2. ASSUME NEW b \in Boards, NEW n \in 0..10, Undone(b, n) PROVE PlaceTyped'
  <2>1. CASE n = 0
    BY <2>1, <1>2, <1>0 DEF Undone, Goes
  <2>2. CASE n # 0
    BY <2>2, <1>2, <1>0 DEF Undone, Goes
  <2> QED BY <2>1, <2>2
<1>3. ASSUME NEW b \in Boards, pc[b] = "init", Advance(b) PROVE PlaceTyped'
  <2>1. at[b] \in 1..10
    BY <1>3 DEF PlaceTyped
  <2>2. CASE at[b] = 10
    BY <2>2, <1>3, <1>1, ModsFacts DEF Advance
  <2>3. CASE at[b] # 10
    BY <2>1, <2>3, <1>3, <1>0, <1>b, ModsFacts DEF Advance
  <2> QED BY <2>2, <2>3
<1>4. ASSUME NEW b \in Boards, \/ ProbeRefused(b) \/ SetImage(b) \/ Create(b)
                               \/ OpenFile(b) \/ ReadFile(b) \/ Destroy(b)
      PROVE PlaceTyped'
  BY <1>4, <1>1 DEF ProbeRefused, SetImage, Create, OpenFile, ReadFile, Destroy, ReadingEeprom,
                    place
<1>5. ASSUME NEW b \in Boards, Probe(b) \/ CheckCalib(b) PROVE PlaceTyped'
  <2>1. CASE Probe(b)
    <3>1. pc' = [pc EXCEPT ![b] = "data"] /\ at' = [at EXCEPT ![b] = 0] /\ Goals(b, "data", 0)
      BY <2>1 DEF Probe, Goes
    <3> QED BY <3>1, <1>0
  <2>2. CASE CheckCalib(b) /\ HashOk(b) /\ VersionOk(b)
    <3>1. pc' = [pc EXCEPT ![b] = "init"] /\ at' = [at EXCEPT ![b] = 1] /\ Goals(b, "init", 1)
      BY <2>2 DEF CheckCalib, Goes
    <3> QED BY <3>1, <1>0
  <2>3. CASE CheckCalib(b) /\ ~(HashOk(b) /\ VersionOk(b))
    BY <2>3, <1>1 DEF CheckCalib
  <2> QED BY <1>5, <2>1, <2>2, <2>3
<1>6. ASSUME NEW b \in Boards, pc[b] = "init" PROVE UndoFrom(at[b]) \in 0..10
  BY <1>6 DEF PlaceTyped, UndoFrom
<1>7. ASSUME NEW b \in Boards, NEW late \in BOOLEAN, InitSimple(b, late) PROVE PlaceTyped'
  BY <1>7, <1>2, <1>3, <1>6 DEF InitSimple
<1>8. ASSUME NEW b \in Boards, NEW dead \in Transfers, InitOnewire(b, dead) PROVE PlaceTyped'
  BY <1>8, <1>2, <1>3, <1>6 DEF InitOnewire
<1>9. ASSUME NEW b \in Boards, NEW dead \in Transfers, NEW delay \in Delays,
             NEW late \in {"no", "I", "G"}, InitAcam(b, dead, delay, late)
      PROVE PlaceTyped'
  BY <1>9, <1>2, <1>3, <1>6 DEF InitAcam
<1>10. ASSUME NEW b \in Boards, InitIrq(b) PROVE PlaceTyped'
  <2>1. UndoFrom(Len(Mods) + 1) \in 0..10
    BY ModsFacts DEF UndoFrom
  <2>2. CASE param.fifo
    BY <2>2, <1>10, <1>0, ChannelsPositive DEF InitIrq, Goes
  <2>3. CASE ~param.fifo
    BY <2>3, <1>10, <1>2, <2>1 DEF InitIrq
  <2> QED BY <2>2, <2>3
<1>11. ASSUME NEW b \in Boards, NEW fails \in BOOLEAN, OutputWrite(b, fails) PROVE PlaceTyped'
  <2>1. pc[b] = "outputs" /\ at[b] \in 1..Channels
    BY <1>11 DEF OutputWrite, PlaceTyped
  <2>2. CASE at[b] = Channels
    BY <2>2, <1>11, <1>0 DEF OutputWrite, Goes
  <2>3. CASE at[b] # Channels
    <3>1. at' = [at EXCEPT ![b] = at[b] + 1] /\ pc' = [pc EXCEPT ![b] = pc[b]]
      BY <2>3, <1>11, <1>b DEF OutputWrite
    <3>2. Goals(b, pc[b], at[b] + 1)
      BY <2>1, <2>3, ChannelsPositive
    <3> QED BY <3>1, <3>2, <1>0
  <2> QED BY <2>2, <2>3
<1>12. ASSUME NEW b \in Boards, Remove(b) PROVE PlaceTyped'
  BY <1>12, <1>2, ModsFacts DEF Remove
<1>13. ASSUME NEW b \in Boards, Undo(b) PROVE PlaceTyped'
  <2>1. at[b] - 1 \in 0..10
    BY <1>13 DEF Undo, PlaceTyped
  <2> QED BY <2>1, <1>13, <1>2 DEF Undo
<1>14. CASE UNCHANGED place
  BY <1>14 DEF PlaceTyped, place
<1>15. CASE Load \/ Unload \/ UnregisterZio
  BY <1>15, <1>14 DEF Load, Unload, UnregisterZio
<1>16. ASSUME NEW b \in Boards, NEW fails \in BOOLEAN, NEW dead \in Transfers,
              \/ OutputRead(b) \/ UserRead(b) \/ UserWrite(b, fails) \/ TimerFires(b, dead)
              \/ Interrupt(b) \/ Tasklet(b)
       PROVE PlaceTyped'
  BY <1>16, <1>14 DEF OutputRead, UserRead, UserWrite, TimerFires, Interrupt, Tasklet
<1>17. CASE UNCHANGED vars
  BY <1>17, <1>14 DEF vars, place
<1>18. Transfers # {} /\ TRUE \in BOOLEAN
  BY DEF Transfers
<1> QED
  BY <1>4, <1>5, <1>7, <1>8, <1>9, <1>10, <1>11, <1>12, <1>13, <1>15, <1>16, <1>17, <1>18
  DEF Next

\* Every step keeps the owner of a calibration a board, the file or the defaults.
LEMMA CalibStep == SdbTyped /\ CalibTyped /\ [Next]_vars => CalibTyped'
<1> SUFFICES ASSUME SdbTyped, CalibTyped, [Next]_vars PROVE CalibTyped'
  OBVIOUS
<1>0. ASSUME NEW b \in Boards, NEW c, c.from \in Boards \cup {NoBoard, "file", "default"},
             calib' = [calib EXCEPT ![b] = c]
      PROVE  CalibTyped'
  BY <1>0 DEF CalibTyped
<1>1. ASSUME NEW b \in Boards, Probe(b) PROVE CalibTyped'
  BY <1>1, <1>0 DEF Probe, NoCalib
<1>2. ASSUME NEW b \in Boards, ReadFile(b) PROVE CalibTyped'
  <2>1. fs.data \in Boards \cup {NoBoard}
    BY DEF SdbTyped
  <2>2. PICK w : calib' = [calib EXCEPT ![b] = [from |-> fs.data, what |-> w]]
    BY <1>2 DEF ReadFile
  <2> QED BY <1>0, <2>1, <2>2
<1>3. ASSUME NEW b \in Boards, CheckCalib(b) PROVE CalibTyped'
  <2>1. Chosen(b).from \in Boards \cup {NoBoard, "file", "default"}
    BY DEF Chosen, CalibTyped
  <2> QED BY <1>3, <1>0, <2>1 DEF CheckCalib
<1>4. CASE UNCHANGED calib
  BY <1>4 DEF CalibTyped
<1> QED BY <1>1, <1>2, <1>3, <1>4, WhoCalib

\* Every step keeps what a board holds among what there is.
LEMMA ResStep == ResTyped /\ [Next]_vars => ResTyped'
<1> SUFFICES ASSUME ResTyped, [Next]_vars PROVE ResTyped'
  OBVIOUS
<1> DEFINE All == {"fifo", "irq", "fifo_timer", "tasklet", "temp_timer", "zio"}
<1>0. ASSUME NEW b \in Boards, NEW r \in SUBSET All, res' = [res EXCEPT ![b] = r] PROVE ResTyped'
  BY <1>0 DEF ResTyped
<1>u. ASSUME NEW b \in Boards PROVE res[b] \in SUBSET All
  BY DEF ResTyped
<1>1. CASE UNCHANGED res
  BY <1>1 DEF ResTyped
<1>2. ASSUME NEW b \in Boards, NEW late \in BOOLEAN, InitSimple(b, late) PROVE ResTyped'
  BY <1>2, <1>0, <1>1, <1>u DEF InitSimple
<1>3. ASSUME NEW b \in Boards, NEW dead \in Transfers, NEW delay \in Delays,
             NEW late \in {"no", "I", "G"}, InitAcam(b, dead, delay, late)
      PROVE ResTyped'
  BY <1>3, <1>0, <1>1, <1>u DEF InitAcam
<1>4. ASSUME NEW b \in Boards, InitIrq(b) PROVE ResTyped'
  BY <1>4, <1>0, <1>1, <1>u DEF InitIrq
<1>5. ASSUME NEW b \in Boards, Interrupt(b) \/ Tasklet(b) \/ Remove(b) \/ Undo(b)
      PROVE ResTyped'
  BY <1>5, <1>0, <1>u DEF Interrupt, Tasklet, Remove, Undo
<1> QED BY <1>1, <1>2, <1>3, <1>4, <1>5, WhoRes

\* Every step keeps the pins, the shadow and its copies sets of pins.
LEMMA PinsStep == PlaceTyped /\ PinsTyped /\ [Next]_vars => PinsTyped'
<1> SUFFICES ASSUME PlaceTyped, PinsTyped, [Next]_vars PROVE PinsTyped'
  OBVIOUS
<1>1. ASSUME NEW b \in Boards, NEW s \in SUBSET Pins, NEW p \in SUBSET Pins,
             olat' = [olat EXCEPT ![b] = s], pins' = [pins EXCEPT ![b] = p],
             reg' \in [Boards -> [user : Latches, probe : Latches]], UNCHANGED want
      PROVE  PinsTyped'
  BY <1>1 DEF PinsTyped
<1>2. CASE UNCHANGED gpio
  BY <1>2 DEF gpio, PinsTyped
<1>3. ASSUME NEW b \in Boards PROVE olat[b] \in SUBSET Pins /\ pins[b] \in SUBSET Pins
  BY DEF PinsTyped
<1>4. reg \in [Boards -> [user : Latches, probe : Latches]]
  BY DEF PinsTyped
<1>5. ASSUME NEW b \in Boards, Probe(b) PROVE PinsTyped'
  <2>1. NoRegs \in [user : Latches, probe : Latches]
    BY DEF NoRegs, Latches
  <2> QED BY <1>5, <2>1 DEF Probe, PinsTyped
<1>6. ASSUME NEW b \in Boards, NEW late \in BOOLEAN, InitSimple(b, late) PROVE PinsTyped'
  <2>1. PICK s \in {{}, Outputs, olat[b]} :
           \/ olat' = [olat EXCEPT ![b] = s] /\ pins' = [pins EXCEPT ![b] = s]
           \/ UNCHANGED <<olat, pins>>
    BY <1>6 DEF InitSimple
  <2>2. UNCHANGED <<reg, want>>
    BY <1>6 DEF InitSimple
  <2>3. s \in SUBSET Pins
    BY <1>3 DEF Pins
  <2> QED BY <1>1, <1>2, <1>4, <2>1, <2>2, <2>3 DEF gpio
<1>7. ASSUME NEW b \in Boards, NEW dead \in Transfers, NEW delay \in Delays,
             NEW late \in {"no", "I", "G"}, InitAcam(b, dead, delay, late)
      PROVE PinsTyped'
  <2>1. \/ /\ olat' = [olat EXCEPT ![b] = olat[b] \ Outputs]
           /\ pins' = [pins EXCEPT ![b] = pins[b] \ Outputs]
        \/ UNCHANGED <<olat, pins>>
    BY <1>7 DEF InitAcam
  <2>2. UNCHANGED <<reg, want>>
    BY <1>7 DEF InitAcam
  <2>3. olat[b] \ Outputs \in SUBSET Pins /\ pins[b] \ Outputs \in SUBSET Pins
    BY <1>3
  <2> QED BY <1>1, <1>2, <1>4, <2>1, <2>2, <2>3 DEF gpio
<1>8. ASSUME NEW b \in Boards, NEW who \in {"user", "probe"}, ReadLatch(b, who)
      PROVE reg' \in [Boards -> [user : Latches, probe : Latches]]
  BY <1>8, <1>3, <1>4 DEF ReadLatch, Latches
<1>9. ASSUME NEW b \in Boards, OutputRead(b) \/ UserRead(b) PROVE PinsTyped'
  BY <1>9, <1>8 DEF OutputRead, UserRead, PinsTyped
<1>10. ASSUME NEW b \in Boards, NEW who \in {"user", "probe"}, NEW mask \in SUBSET Pins, NEW set,
              NEW fails \in BOOLEAN, WriteLatch(b, who, mask, set, fails), reg[b][who] # Unset,
              UNCHANGED want
       PROVE  PinsTyped'
  <2>1. Latch(reg[b][who], mask, set) \in SUBSET Pins
    <3>1. reg[b][who] \in SUBSET Pins
      BY <1>4, <1>10 DEF Latches
    <3> QED BY <3>1 DEF Latch
  <2>2. olat' = [olat EXCEPT ![b] = Latch(reg[b][who], mask, set)]
    BY <1>10 DEF WriteLatch
  <2>3. reg' \in [Boards -> [user : Latches, probe : Latches]]
    BY <1>10, <1>4 DEF WriteLatch, Latches
  <2>4. olat'[b] = Latch(reg[b][who], mask, set)
    BY <2>2 DEF PinsTyped
  <2>5. \E p \in SUBSET Pins : pins' = [pins EXCEPT ![b] = p]
    <3>1. CASE fails
      <4>1. pins' = [pins EXCEPT ![b] = pins[b]]
        BY <3>1, <1>10 DEF WriteLatch, PinsTyped
      <4> QED BY <4>1, <1>3
    <3>2. CASE ~fails
      BY <3>2, <1>10, <2>1, <2>4 DEF WriteLatch
    <3> QED BY <3>1, <3>2
  <2> QED BY <1>1, <1>10, <2>1, <2>2, <2>3, <2>5
<1>11. ASSUME NEW b \in Boards, NEW fails \in BOOLEAN, UserWrite(b, fails) PROVE PinsTyped'
  BY <1>11, <1>10 DEF UserWrite, Pins
<1>12. ASSUME NEW b \in Boards, NEW fails \in BOOLEAN, OutputWrite(b, fails) PROVE PinsTyped'
  <2>1. {<<"OUT", at[b]>>} \in SUBSET Pins
    BY <1>12 DEF OutputWrite, PlaceTyped, Pins, Outputs
  <2> QED BY <1>12, <1>10, <2>1 DEF OutputWrite
<1> QED BY <1>2, <1>5, <1>6, <1>7, <1>9, <1>11, <1>12, WhoPins

\* Every step keeps the temperature, its wait and its sensor typed.
LEMMA TempStep == TempTyped /\ [Next]_vars => TempTyped'
<1> SUFFICES ASSUME TempTyped, [Next]_vars PROVE TempTyped'
  OBVIOUS
<1> DEFINE S == [scratch : {"power-on", "converted"}, converting : BOOLEAN]
           T == {"none", "power-on", "converted", "garbage"}
<1>1. ASSUME NEW b \in Boards, NEW t \in T, NEW n \in 0..DeadRuns, NEW s \in S,
             temp' = [temp EXCEPT ![b] = t], skip' = [skip EXCEPT ![b] = n],
             sensor' = [sensor EXCEPT ![b] = s]
      PROVE  TempTyped'
  BY <1>1 DEF TempTyped
<1>2. ASSUME NEW b \in Boards PROVE temp[b] \in T /\ skip[b] \in 0..DeadRuns /\ sensor[b] \in S
  BY DEF TempTyped
<1>3. CASE UNCHANGED <<temp, skip, sensor>>
  BY <1>3 DEF TempTyped
<1>4. ASSUME NEW s \in S, NEW cfg, NEW answers PROVE Command(s, cfg, answers) \in S
  <2>1. ASSUME NEW x \in BOOLEAN PROVE [s EXCEPT !.converting = x] \in S
    OBVIOUS
  <2>2. LongEnough(cfg) \in BOOLEAN
    BY DEF LongEnough
  <2> QED BY <2>1, <2>2 DEF Command
<1>5. ASSUME NEW s \in S PROVE Converted(s) \in S
  BY DEF Converted
<1>6. ASSUME NEW b \in Boards, NEW dead, ReadTemp(b, dead) PROVE TempTyped'
  <2> DEFINE first == IF started[b] THEN sensor[b]
                      ELSE Command(sensor[b], FirstConfig, "first" \notin dead)
             ready == Converted(first)
             cfg   == IF "read" \in dead THEN 7 ELSE Resolution
  <2>1. ready \in S
    BY <1>2, <1>4, <1>5
  <2>2. Command(ready, cfg, "command" \notin dead) \in S
    BY <2>1, <1>4
  <2>3. (IF "read" \in dead THEN "garbage" ELSE ready.scratch) \in T
    BY <2>1
  <2>4. Runs(cfg) \in 0..DeadRuns
    <3>1. cfg \in 0..7
      BY BoardAssumption
    <3> HIDE DEF cfg
    <3> QED BY <3>1, RunsBounded
  <2>5. /\ temp' = [temp EXCEPT ![b] = IF "read" \in dead THEN "garbage" ELSE ready.scratch]
        /\ sensor' = [sensor EXCEPT ![b] = Command(ready, cfg, "command" \notin dead)]
        /\ skip' = [skip EXCEPT ![b] = Runs(cfg)]
    BY <1>6 DEF ReadTemp
  <2> HIDE DEF ready, cfg
  <2> QED BY <1>1, <2>2, <2>3, <2>4, <2>5
<1>7. ASSUME NEW b \in Boards, Probe(b) PROVE TempTyped'
  <2>1. Sensor \in S
    BY DEF Sensor
  <2>2. "none" \in T /\ 0 \in 0..DeadRuns
    BY RunsBounded
  <2>3. /\ temp' = [temp EXCEPT ![b] = "none"] /\ skip' = [skip EXCEPT ![b] = 0]
        /\ sensor' = [sensor EXCEPT ![b] = Sensor]
    BY <1>7 DEF Probe
  <2> HIDE DEF S, T
  <2> QED BY <1>1, <2>1, <2>2, <2>3
<1>8. ASSUME NEW b \in Boards, NEW dead \in Transfers,
             InitOnewire(b, dead) \/ TimerFires(b, dead)
      PROVE TempTyped'
  <2>1. CASE skip[b] > 0 /\ skip' = [skip EXCEPT ![b] = @ - 1] /\ UNCHANGED <<temp, sensor>>
    <3>1. DeadRuns \in Nat
      BY RunsBounded
    <3>2. skip[b] - 1 \in 0..DeadRuns
      BY <1>2, <2>1, <3>1
    <3> QED BY <2>1, <3>2 DEF TempTyped
  <2> QED BY <1>8, <1>3, <1>6, <2>1 DEF InitOnewire, TimerFires, onewire
<1>9. ASSUME NEW b \in Boards, NEW dead \in Transfers, NEW delay \in Delays,
             NEW late \in {"no", "I", "G"}, InitAcam(b, dead, delay, late)
      PROVE TempTyped'
  BY <1>9, <1>3, <1>6 DEF InitAcam, onewire
<1> QED BY <1>3, <1>7, <1>8, <1>9, WhoTemp

\* Every step keeps what is excused among what there is.
LEMMA ExcuseStep == ExcuseTyped /\ [Next]_vars => ExcuseTyped'
<1> SUFFICES ASSUME ExcuseTyped, [Next]_vars PROVE ExcuseTyped'
  OBVIOUS
<1>1. ASSUME NEW b \in Boards, NEW what \in {"onewire", "race", "gpio"}, NEW is,
             Excuse(b, what, is)
      PROVE  ExcuseTyped'
  BY <1>1 DEF Excuse, ExcuseTyped
<1>2. CASE UNCHANGED excused
  BY <1>2 DEF ExcuseTyped
<1>3. ASSUME NEW b \in Boards, Probe(b) PROVE ExcuseTyped'
  BY <1>3 DEF Probe, ExcuseTyped
<1>4. ASSUME NEW b \in Boards, SetImage(b) PROVE ExcuseTyped'
  BY <1>4 DEF SetImage, ExcuseTyped
<1>5. ASSUME NEW b \in Boards, NEW dead \in Transfers,
             InitOnewire(b, dead) \/ TimerFires(b, dead)
      PROVE ExcuseTyped'
  BY <1>5, <1>1 DEF InitOnewire, TimerFires
<1>6. ASSUME NEW b \in Boards, NEW dead \in Transfers, NEW delay \in Delays,
             NEW late \in {"no", "I", "G"}, InitAcam(b, dead, delay, late)
      PROVE ExcuseTyped'
  BY <1>6, <1>1 DEF InitAcam
<1>7. ASSUME NEW b \in Boards, NEW fails \in BOOLEAN,
             \/ OutputRead(b) \/ UserRead(b) \/ UserWrite(b, fails) \/ OutputWrite(b, fails)
      PROVE ExcuseTyped'
  BY <1>7, <1>1 DEF OutputRead, UserRead, UserWrite, OutputWrite, ReadLatch, WriteLatch
<1> QED BY <1>2, <1>3, <1>4, <1>5, <1>6, <1>7, WhoExcused

\* Every step keeps the types.
LEMMA TypedStep == Typed /\ [Next]_vars => Typed'
BY SdbStep, PlaceStep, CalibStep, ResStep, PinsStep, TempStep, ExcuseStep DEF Typed

\* Every step keeps what a board holds in line with its place.
LEMMA HoldsStep ==
  Typed /\ (\A b \in Boards : Holds(b)) /\ [Next]_vars => \A b \in Boards : Holds(b)'
<1> SUFFICES ASSUME Typed, \A b \in Boards : Holds(b), [Next]_vars
             PROVE  \A b \in Boards : Holds(b)'
  OBVIOUS
<1> DEFINE All == \A b \in Boards : Holds(b)'
<1>0. ASSUME NEW b \in Boards, NEW p, NEW n, NEW r, HoldsAt(p, n, r), Goes(b, p),
             at' = [at EXCEPT ![b] = n], res' = [res EXCEPT ![b] = r]
      PROVE  All
  BY <1>0 DEF Goes, Holds, Typed, PlaceTyped, ResTyped
<1>u. ASSUME NEW b \in Boards
      PROVE  /\ HoldsAt(pc[b], at[b], res[b])
             /\ UNCHANGED pc => Goes(b, pc[b])
             /\ UNCHANGED at => at' = [at EXCEPT ![b] = at[b]]
             /\ UNCHANGED res => res' = [res EXCEPT ![b] = res[b]]
  BY DEF Goes, Holds, Typed, PlaceTyped, ResTyped
<1>1. CASE UNCHANGED <<pc, at, res>>
  BY <1>1 DEF Holds
<1>2. ASSUME NEW b \in Boards, \/ SetImage(b) \/ Create(b) \/ OpenFile(b) \/ ReadFile(b)
                               \/ Destroy(b) \/ ProbeRefused(b)
      PROVE All
  <2>1. PICK p \in Before \cup {"absent"} : Goes(b, p)
    BY <1>2 DEF SetImage, Create, OpenFile, ReadFile, Destroy, ProbeRefused, Before, ReadingEeprom
  <2>2. UNCHANGED <<at, res>>
    BY <1>2 DEF SetImage, Create, OpenFile, ReadFile, Destroy, ProbeRefused
  <2>3. pc[b] \in Before \/ (pc[b] = "init" /\ at[b] = 1)
    BY <1>2 DEF SetImage, Create, OpenFile, ReadFile, Destroy, ProbeRefused, Before, ReadingEeprom
  <2>4. HoldsAt(p, at[b], res[b])
    BY <2>3, <1>u DEF HoldsAt, Before, ReadingEeprom
  <2> QED BY <1>0, <1>u, <2>1, <2>2, <2>4
<1>3. ASSUME NEW b \in Boards, Probe(b) PROVE All
  <2>1. Goes(b, "data") /\ at' = [at EXCEPT ![b] = 0] /\ UNCHANGED res
    BY <1>3 DEF Probe
  <2>2. res[b] = {}
    <3>1. pc[b] = "absent" /\ "tasklet" \notin res[b]
      BY <1>3 DEF Probe
    <3>2. res[b] \subseteq {"tasklet"}
      BY <1>u, <3>1 DEF HoldsAt
    <3> QED BY <3>1, <3>2
  <2>3. HoldsAt("data", 0, res[b])
    BY <2>2 DEF HoldsAt, Before, ReadingEeprom
  <2> QED BY <1>0, <1>u, <2>1, <2>3
<1>4. ASSUME NEW b \in Boards, CheckCalib(b) PROVE All
  <2>1. res[b] = {} /\ UNCHANGED res
    BY <1>4, <1>u DEF CheckCalib, HoldsAt, Before
  <2>2. HoldsAt("init", 1, res[b]) /\ HoldsAt("absent", at[b], res[b])
    BY <2>1 DEF HoldsAt, Before, ReadingEeprom
  <2>3. \/ Goes(b, "init") /\ at' = [at EXCEPT ![b] = 1]
        \/ Goes(b, "absent") /\ UNCHANGED at
    BY <1>4 DEF CheckCalib
  <2> QED BY <1>0, <1>u, <2>1, <2>2, <2>3
<1>5. ASSUME NEW b \in Boards, NEW n \in 0..10, Undone(b, n), NEW r,
             res' = [res EXCEPT ![b] = r],
             r \subseteq {"tasklet"} \cup (IF n >= 7 THEN {"temp_timer"} ELSE {})
                                     \cup (IF n = 10 THEN {"zio"} ELSE {})
      PROVE All
  <2>1. CASE n = 0
    <3>1. HoldsAt("absent", 0, r)
      BY <2>1, <1>5 DEF HoldsAt, Before, ReadingEeprom
    <3> QED BY <1>0, <2>1, <1>5, <3>1 DEF Undone
  <2>2. CASE n # 0
    <3>1. HoldsAt("undo", n, r)
      BY <2>2, <1>5 DEF HoldsAt, Before, ReadingEeprom
    <3> QED BY <1>0, <2>2, <1>5, <3>1 DEF Undone
  <2> QED BY <2>1, <2>2
<1>6. ASSUME NEW b \in Boards, pc[b] = "init"
      PROVE  /\ at[b] \in 1..10 /\ UndoFrom(at[b]) = at[b] - 1 /\ at[b] - 1 \in 0..10
             /\ res[b] \subseteq IF at[b] > 7 THEN {"temp_timer"} ELSE {}
  BY <1>6, <1>u DEF HoldsAt, Typed, PlaceTyped, UndoFrom
<1>7. ASSUME NEW b \in Boards, pc[b] = "init", Undone(b, UndoFrom(at[b])), UNCHANGED res
      PROVE  All
  <2>1. res' = [res EXCEPT ![b] = res[b]]
    BY <1>7, <1>u
  <2>2. res[b] \subseteq {"tasklet"} \cup (IF at[b] - 1 >= 7 THEN {"temp_timer"} ELSE {})
                                     \cup (IF at[b] - 1 = 10 THEN {"zio"} ELSE {})
    BY <1>6, <1>7
  <2>3. at[b] - 1 \in 0..10 /\ Undone(b, at[b] - 1)
    BY <1>6, <1>7
  <2> QED BY <1>5, <2>1, <2>2, <2>3
<1>8. ASSUME NEW b \in Boards, pc[b] = "init", Advance(b), NEW r,
             res' = [res EXCEPT ![b] = r],
             r \subseteq res[b] \cup (IF at[b] = 7 THEN {"temp_timer"} ELSE {})
                                \cup (IF at[b] = 10 THEN {"zio"} ELSE {})
      PROVE  All
  <2>1. CASE at[b] = 10
    <3>1. HoldsAt("irq", 10, r)
      BY <2>1, <1>6, <1>8 DEF HoldsAt, Before, ReadingEeprom
    <3>2. Goes(b, "irq") /\ UNCHANGED at
      BY <2>1, <1>8, ModsFacts DEF Advance
    <3>3. at' = [at EXCEPT ![b] = 10]
      BY <2>1, <3>2, <1>u
    <3> QED BY <1>0, <1>8, <3>1, <3>2, <3>3
  <2>2. CASE at[b] # 10
    <3>1. HoldsAt("init", at[b] + 1, r)
      BY <2>2, <1>6, <1>8 DEF HoldsAt, Before, ReadingEeprom
    <3>2. Goes(b, "init") /\ at' = [at EXCEPT ![b] = at[b] + 1]
      BY <2>2, <1>8, <1>u, ModsFacts DEF Advance
    <3> QED BY <1>0, <1>8, <3>1, <3>2
  <2> QED BY <2>1, <2>2
<1>9. ASSUME NEW b \in Boards, NEW late \in BOOLEAN, InitSimple(b, late) PROVE All
  <2>1. pc[b] = "init" /\ (Mods[at[b]] = "zio" <=> at[b] = 10)
    BY <1>9, <1>6, ModsFacts DEF InitSimple
  <2>2. CASE ~Works(b, late)
    BY <2>1, <2>2, <1>7, <1>9 DEF InitSimple
  <2>3. CASE Works(b, late) /\ at[b] = 10
    <3>1. Advance(b) /\ res' = [res EXCEPT ![b] = res[b] \cup {"zio"}]
      BY <2>1, <2>3, <1>9 DEF InitSimple
    <3>2. res[b] \cup {"zio"} \subseteq res[b] \cup (IF at[b] = 7 THEN {"temp_timer"} ELSE {})
                                               \cup (IF at[b] = 10 THEN {"zio"} ELSE {})
      BY <2>3
    <3> QED BY <2>1, <1>8, <3>1, <3>2
  <2>4. CASE Works(b, late) /\ at[b] # 10
    <3>1. Advance(b) /\ res' = [res EXCEPT ![b] = res[b]]
      BY <2>1, <2>4, <1>9, <1>u DEF InitSimple
    <3> QED BY <2>1, <1>8, <3>1
  <2> QED BY <2>2, <2>3, <2>4
<1>10. ASSUME NEW b \in Boards, NEW dead \in Transfers, InitOnewire(b, dead) PROVE All
  <2>1. pc[b] = "init" /\ UNCHANGED res /\ (Undone(b, UndoFrom(at[b])) \/ Advance(b))
    BY <1>10 DEF InitOnewire
  <2>2. res' = [res EXCEPT ![b] = res[b]]
    BY <2>1, <1>u
  <2> QED BY <2>1, <2>2, <1>7, <1>8
<1>11. ASSUME NEW b \in Boards, NEW dead \in Transfers, NEW delay \in Delays,
              NEW late \in {"no", "I", "G"}, InitAcam(b, dead, delay, late)
       PROVE  All
  <2>1. pc[b] = "init" /\ at[b] = 7
    BY <1>11, <1>6, ModsFacts DEF InitAcam
  <2>2. \/ Undone(b, UndoFrom(at[b])) /\ UNCHANGED res
        \/ Advance(b) /\ UNCHANGED res
        \/ Advance(b) /\ res' = [res EXCEPT ![b] = res[b] \cup {"temp_timer"}]
    BY <1>11 DEF InitAcam
  <2>3. res[b] \cup {"temp_timer"}
           \subseteq res[b] \cup (IF at[b] = 7 THEN {"temp_timer"} ELSE {})
                            \cup (IF at[b] = 10 THEN {"zio"} ELSE {})
    BY <2>1
  <2> QED BY <2>1, <2>2, <2>3, <1>7, <1>8, <1>u
<1>12. ASSUME NEW b \in Boards, InitIrq(b) PROVE All
  <2>1. pc[b] = "irq" /\ res[b] \subseteq {"temp_timer", "zio"}
    BY <1>12, <1>u DEF InitIrq, HoldsAt
  <2>2. CASE ~param.fifo
    <3>1. UndoFrom(Len(Mods) + 1) = 10
      BY ModsFacts DEF UndoFrom
    <3>2. Undone(b, UndoFrom(Len(Mods) + 1)) /\ res' = [res EXCEPT ![b] = res[b]]
      BY <2>2, <1>12, <1>u DEF InitIrq
    <3>3. res[b] \subseteq {"tasklet"} \cup (IF 10 >= 7 THEN {"temp_timer"} ELSE {})
                                       \cup (IF 10 = 10 THEN {"zio"} ELSE {})
      BY <2>1
    <3>4. 10 \in 0..10
      OBVIOUS
    <3> QED BY <1>5, <3>1, <3>2, <3>3, <3>4
  <2>3. CASE param.fifo
    <3> DEFINE r == res[b] \cup {"fifo"} \cup IF param.polled THEN {"fifo_timer"}
                                             ELSE IF hw[b].irq THEN {"irq"} ELSE {}
    <3>1. /\ res' = [res EXCEPT ![b] = r]
          /\ Goes(b, "outputs") /\ at' = [at EXCEPT ![b] = 1]
      BY <2>3, <1>12 DEF InitIrq
    <3>2. HoldsAt("outputs", 1, r)
      BY DEF HoldsAt, Before, ReadingEeprom
    <3> HIDE DEF r
    <3> QED BY <1>0, <3>1, <3>2
  <2> QED BY <2>2, <2>3
<1>13. ASSUME NEW b \in Boards, NEW fails \in BOOLEAN, OutputWrite(b, fails) PROVE All
  <2>1. "fifo" \in res[b] /\ UNCHANGED res
    BY <1>13, <1>u DEF OutputWrite, HoldsAt
  <2>2. PICK p, n : p \in {"up", "outputs"} /\ Goes(b, p) /\ at' = [at EXCEPT ![b] = n]
    BY <1>13, <1>u DEF OutputWrite
  <2>3. HoldsAt(p, n, res[b])
    BY <2>1, <2>2 DEF HoldsAt, Before, ReadingEeprom
  <2> QED BY <1>0, <1>u, <2>1, <2>2, <2>3
<1>14. ASSUME NEW b \in Boards, Interrupt(b) \/ Tasklet(b) PROVE All
  <2>1. UNCHANGED <<pc, at>>
    BY <1>14 DEF Interrupt, Tasklet, place
  <2>2. CASE Interrupt(b)
    <3>1. "irq" \in res[b] /\ res' = [res EXCEPT ![b] = res[b] \cup {"tasklet"}]
      BY <2>2 DEF Interrupt
    <3>2. pc[b] \in {"outputs", "up"} /\ "fifo" \in res[b]
      <4>1. \/ pc[b] \in Before \cup {"outputs", "up"}
            \/ pc[b] = "absent" \/ pc[b] = "init" \/ pc[b] = "irq" \/ pc[b] = "undo"
        BY DEF Typed, PlaceTyped, Before
      <4>2. "irq" \notin {"tasklet"} /\ "irq" \notin {"temp_timer", "zio"}
        OBVIOUS
      <4>3. ASSUME NEW n PROVE /\ "irq" \notin IF n > 7 THEN {"temp_timer"} ELSE {}
                               /\ "irq" \notin IF n >= 7 THEN {"temp_timer"} ELSE {}
                               /\ "irq" \notin IF n = 10 THEN {"zio"} ELSE {}
        OBVIOUS
      <4> QED BY <3>1, <4>1, <4>2, <4>3, <1>u DEF HoldsAt
    <3>3. HoldsAt(pc[b], at[b], res[b] \cup {"tasklet"})
      BY <3>2 DEF HoldsAt, Before, ReadingEeprom
    <3> QED BY <1>0, <1>u, <2>1, <3>1, <3>3
  <2>3. CASE Tasklet(b)
    <3>1. res' = [res EXCEPT ![b] = res[b] \ {"tasklet"}]
      BY <2>3 DEF Tasklet
    <3>2. HoldsAt(pc[b], at[b], res[b] \ {"tasklet"})
      BY <1>u DEF HoldsAt, Before, ReadingEeprom
    <3> QED BY <1>0, <1>u, <2>1, <3>1, <3>2
  <2> QED BY <1>14, <2>2, <2>3
<1>15. ASSUME NEW b \in Boards, Remove(b) PROVE All
  <2>1. Undone(b, 10) /\ res' = [res EXCEPT ![b] = res[b] \ {"irq", "fifo_timer", "fifo"}]
    BY <1>15, ModsFacts DEF Remove
  <2>2. res[b] \ {"irq", "fifo_timer", "fifo"}
           \subseteq {"tasklet"} \cup (IF 10 >= 7 THEN {"temp_timer"} ELSE {})
                                \cup (IF 10 = 10 THEN {"zio"} ELSE {})
    BY DEF Typed, ResTyped
  <2>3. 10 \in 0..10
    OBVIOUS
  <2> QED BY <1>5, <2>1, <2>2, <2>3
<1>16. ASSUME NEW b \in Boards, Undo(b) PROVE All
  <2> DEFINE gone == CASE Mods[at[b]] = "zio"  -> {"zio"}
                       [] Mods[at[b]] = "acam" -> {"temp_timer"}
                       [] OTHER                -> {}
  <2>1. Undone(b, at[b] - 1) /\ res' = [res EXCEPT ![b] = res[b] \ gone]
    BY <1>16 DEF Undo
  <2>2. at[b] \in 1..10 /\ at[b] - 1 \in 0..10
    BY <1>16 DEF Undo, Typed, PlaceTyped
  <2>3. /\ Mods[at[b]] = "zio" <=> at[b] = 10
        /\ Mods[at[b]] = "acam" <=> at[b] = 7
    BY <2>2, ModsFacts
  <2>4. res[b] \subseteq {"tasklet"} \cup (IF at[b] >= 7 THEN {"temp_timer"} ELSE {})
                                     \cup (IF at[b] = 10 THEN {"zio"} ELSE {})
    BY <1>16, <1>u DEF Undo, HoldsAt
  <2>5. res[b] \ gone \subseteq {"tasklet"} \cup (IF at[b] - 1 >= 7 THEN {"temp_timer"} ELSE {})
                                            \cup (IF at[b] - 1 = 10 THEN {"zio"} ELSE {})
    BY <2>2, <2>3, <2>4
  <2> QED BY <1>5, <2>1, <2>2, <2>5
<1> QED
  BY <1>1, <1>2, <1>3, <1>4, <1>9, <1>10, <1>11, <1>12, <1>13, <1>14, <1>15, <1>16,
     WhoPlace

\* Every step keeps the pins, the shadow and its copies in line.
LEMMA LatchedStep ==
  Typed /\ (\A b \in Boards : Holds(b) /\ Latched(b)) /\ [Next]_vars
    => \A b \in Boards : Latched(b)'
<1> SUFFICES ASSUME Typed, \A b \in Boards : Holds(b) /\ Latched(b), [Next]_vars
             PROVE  \A b \in Boards : Latched(b)'
  OBVIOUS
<1> DEFINE All == \A b \in Boards : Latched(b)'
           Same(o) == /\ pc'[o] = pc[o] /\ at'[o] = at[o] /\ want'[o] = want[o]
                      /\ reg'[o] = reg[o] /\ olat'[o] = olat[o] /\ pins'[o] = pins[o]
                      /\ Fine(o)' = Fine(o)
           Others(b) == \A o \in Boards \ {b} : Same(o)
<1>0. ASSUME NEW b \in Boards, Others(b),
             LatchedAt(pc'[b], at'[b], want'[b], reg'[b], olat'[b], pins'[b], Fine(b)')
      PROVE  All
  <2>1. ASSUME NEW o \in Boards \ {b} PROVE Latched(o)'
    BY <1>0 DEF Latched
  <2> QED BY <1>0, <2>1 DEF Latched
<1>t. /\ pc \in [Boards -> Before \cup Late \cup {"absent", "init", "undo"}]
      /\ DOMAIN at = Boards /\ DOMAIN want = Boards /\ DOMAIN reg = Boards
      /\ DOMAIN olat = Boards /\ DOMAIN pins = Boards /\ DOMAIN excused = Boards
  BY DEF Typed, PlaceTyped, PinsTyped, ExcuseTyped, Before, Late
<1>u. ASSUME NEW b \in Boards
      PROVE  LatchedAt(pc[b], at[b], want[b], reg[b], olat[b], pins[b], Fine(b))
  BY DEF Latched
<1>v. ASSUME NEW b \in Boards, pc'[b] \in {"absent", "undo"}, Others(b) PROVE All
  <2>1. LatchedAt(pc'[b], at'[b], want'[b], reg'[b], olat'[b], pins'[b], Fine(b)')
    BY <1>v DEF LatchedAt, Before, ReadingEeprom, Late
  <2> QED BY <2>1, <1>v, <1>0
<1>w. ASSUME NEW b \in Boards, NEW n, Undone(b, n) PROVE pc'[b] \in {"absent", "undo"}
  BY <1>w, <1>t DEF Undone, Goes
<1>x. ASSUME NEW b \in Boards, NEW what, NEW is, Excuse(b, what, is),
             what \notin {"race", "gpio"}
      PROVE  \A o \in Boards : Fine(o)' = Fine(o)
  BY <1>x, <1>t DEF Excuse, Fine
<1>1. CASE UNCHANGED <<pc, at, gpio>> /\ \A o \in Boards : Fine(o)' = Fine(o)
  BY <1>1 DEF gpio, Latched
<1>2. CASE Load \/ Unload \/ UnregisterZio \/ UNCHANGED vars
  BY <1>2, <1>1 DEF Load, Unload, UnregisterZio, vars, gpio, place, Fine
<1>3. ASSUME NEW b \in Boards, Probe(b) PROVE All
  <2>1. Others(b)
    BY <1>3, <1>t DEF Probe, Goes, Fine
  <2>2. pc'[b] = "data" /\ ~want'[b] /\ reg'[b] = NoRegs
    BY <1>3, <1>t DEF Probe, Goes
  <2>3. LatchedAt(pc'[b], at'[b], want'[b], reg'[b], olat'[b], pins'[b], Fine(b)')
    BY <2>2 DEF LatchedAt, Late
  <2> QED BY <1>0, <2>1, <2>3
<1>4. ASSUME NEW b \in Boards, \/ SetImage(b) \/ Create(b) \/ OpenFile(b) \/ ReadFile(b)
                               \/ Destroy(b) \/ ProbeRefused(b) \/ CheckCalib(b)
      PROVE All
  <2> USE DEF SetImage, Create, OpenFile, ReadFile, Destroy, ProbeRefused, CheckCalib, Goes
  <2>1. ASSUME NEW o \in Boards PROVE Fine(o)' = Fine(o)
    <3>1. excused'[o] = excused[o] \/ excused'[o] = excused[o] \cup {"overlap"}
      BY <1>4, <1>t
    <3>2. (excused[o] \cup {"overlap"}) \cap {"race", "gpio"} = excused[o] \cap {"race", "gpio"}
      OBVIOUS
    <3> QED BY <3>1, <3>2 DEF Fine
  <2>2. UNCHANGED gpio /\ pc[b] \in Before \cup {"init"}
    BY <1>4 DEF Before, ReadingEeprom
  <2>3. pc'[b] \in Before \cup {"absent"} \/ (pc'[b] = "init" /\ at'[b] = 1)
    BY <1>4, <1>t DEF Before, ReadingEeprom
  <2>4. Others(b)
    BY <1>4, <1>t, <2>1, <2>2 DEF gpio
  <2>5. ~want'[b] /\ reg'[b] = NoRegs
    BY <2>2, <1>u DEF LatchedAt, gpio
  <2>6. LatchedAt(pc'[b], at'[b], want'[b], reg'[b], olat'[b], pins'[b], Fine(b)')
    BY <2>3, <2>5 DEF LatchedAt, Late, Before, ReadingEeprom
  <2> QED BY <1>0, <2>4, <2>6
<1>5. ASSUME NEW b \in Boards, pc[b] = "init"
      PROVE  at[b] \in 1..10 /\ want[b] = FALSE /\ reg[b] = NoRegs
  BY <1>5, <1>u DEF Typed, PlaceTyped, PinsTyped, LatchedAt
<1>6. ASSUME NEW b \in Boards, pc[b] = "init", Advance(b), UNCHANGED <<want, reg>>, Others(b),
             at[b] >= 5 => olat'[b] = pins'[b] /\ Term \notin olat'[b]
      PROVE  All
  <2>1. ~want'[b] /\ reg'[b] = NoRegs
    BY <1>5, <1>6
  <2>2. CASE at[b] = 10
    <3>1. pc'[b] = "irq"
      BY <2>2, <1>6, <1>t, ModsFacts DEF Advance, Goes
    <3>2. LatchedAt(pc'[b], at'[b], want'[b], reg'[b], olat'[b], pins'[b], Fine(b)')
      BY <3>1, <2>1, <2>2, <1>6 DEF LatchedAt, Enabled, NoRegs, Before, ReadingEeprom
    <3> QED BY <1>0, <1>6, <3>2
  <2>3. CASE at[b] # 10
    <3>1. pc'[b] = "init" /\ at'[b] = at[b] + 1
      BY <2>3, <1>6, <1>t, ModsFacts DEF Advance
    <3>2. at'[b] > 5 => at[b] >= 5
      <4>1. at[b] \in 1..10
        BY <1>5, <1>6
      <4>2. at[b] + 1 > 5 => at[b] >= 5
        BY <4>1
      <4> QED BY <3>1, <4>2
    <3>3. LatchedAt(pc'[b], at'[b], want'[b], reg'[b], olat'[b], pins'[b], Fine(b)')
      BY <3>1, <3>2, <2>1, <1>6 DEF LatchedAt, Late
    <3> QED BY <1>0, <1>6, <3>3
  <2> QED BY <2>2, <2>3
<1>7. ASSUME NEW b \in Boards, NEW late \in BOOLEAN, InitSimple(b, late) PROVE All
  <2>1. pc[b] = "init" /\ UNCHANGED <<want, reg>> /\ UNCHANGED excused
    BY <1>7 DEF InitSimple
  <2>2. Others(b)
    BY <1>7, <2>1, <1>t DEF InitSimple, Undone, Advance, Goes, Fine
  <2>3. CASE ~Works(b, late)
    BY <2>2, <2>3, <1>7, <1>v, <1>w DEF InitSimple
  <2>4. CASE Works(b, late)
    <3>1. PICK set : /\ olat' = [olat EXCEPT ![b] = set] /\ pins' = [pins EXCEPT ![b] = set]
                     /\ set = CASE Mods[at[b]] = "gpio"         -> {}
                                [] Mods[at[b]] = "gpio-default" -> Outputs
                                [] OTHER                        -> olat[b]
      BY <2>4, <1>7 DEF InitSimple
    <3>2. Advance(b)
      BY <2>4, <1>7 DEF InitSimple
    <3>3. olat'[b] = set /\ pins'[b] = set
      BY <3>1, <1>t
    <3>4. at[b] > 5 => Term \notin olat[b]
      BY <2>1, <1>u DEF LatchedAt
    <3>5. at[b] >= 5 => Term \notin set
      <4>1. at[b] \in 1..10
        BY <2>1, <1>5
      <4>2. CASE at[b] = 5
        BY <4>2, <4>1, <3>1, ModsFacts, UnsetFacts
      <4>3. CASE at[b] > 5
        BY <4>3, <4>1, <3>1, <3>4, ModsFacts
      <4> QED BY <4>1, <4>2, <4>3
    <3> QED BY <1>6, <2>1, <2>2, <3>2, <3>3, <3>5
  <2> QED BY <2>3, <2>4
<1>8. ASSUME NEW b \in Boards, NEW dead \in Transfers, InitOnewire(b, dead) PROVE All
  <2>1. pc[b] = "init" /\ at[b] = 4 /\ UNCHANGED gpio
    BY <1>8, <1>5, ModsFacts DEF InitOnewire
  <2>2. Others(b)
    BY <1>8, <2>1, <1>x, <1>t DEF InitOnewire, Undone, Advance, Goes, gpio
  <2> QED BY <1>8, <2>1, <2>2, <1>6, <1>v, <1>w DEF InitOnewire, gpio
<1>9. ASSUME NEW b \in Boards, NEW dead \in Transfers, NEW delay \in Delays,
             NEW late \in {"no", "I", "G"}, InitAcam(b, dead, delay, late)
      PROVE  All
  <2>1. pc[b] = "init" /\ at[b] = 7 /\ UNCHANGED <<want, reg>>
    BY <1>9, <1>5, ModsFacts DEF InitAcam, gpio
  <2>2. \A o \in Boards : Fine(o)' = Fine(o)
    BY <1>9, <1>x DEF InitAcam
  <2>3. Undone(b, UndoFrom(at[b])) \/ Advance(b)
    BY <1>9 DEF InitAcam
  <2>4. \/ UNCHANGED <<olat, pins>>
        \/ /\ olat' = [olat EXCEPT ![b] = olat[b] \ Outputs]
           /\ pins' = [pins EXCEPT ![b] = pins[b] \ Outputs]
    BY <1>9 DEF InitAcam
  <2>5. Others(b)
    BY <2>1, <2>2, <2>3, <2>4, <1>t DEF Undone, Advance, Goes
  <2>6. olat[b] = pins[b] /\ Term \notin olat[b]
    BY <2>1, <1>u DEF LatchedAt
  <2>7. olat'[b] = pins'[b] /\ Term \notin olat'[b]
    BY <2>4, <2>6, <1>t
  <2> QED BY <2>1, <2>3, <2>5, <2>7, <1>6, <1>v, <1>w
<1>10. ASSUME NEW b \in Boards, InitIrq(b) PROVE All
  <2>1. pc[b] = "irq" /\ UNCHANGED gpio /\ UNCHANGED excused
    BY <1>10 DEF InitIrq
  <2>2. Others(b)
    BY <1>10, <2>1, <1>t DEF InitIrq, Undone, Goes, gpio, Fine
  <2>3. CASE ~param.fifo
    BY <2>2, <2>3, <1>10, <1>v, <1>w DEF InitIrq
  <2>4. CASE param.fifo
    <3>1. pc'[b] = "outputs" /\ at'[b] = 1 /\ Fine(b)' = Fine(b)
      BY <2>1, <2>4, <1>10, <1>t DEF InitIrq, Goes, Fine
    <3>2. Enabled("outputs", 1) = {}
      BY DEF Enabled
    <3>3. LatchedAt("outputs", 1, want[b], reg[b], olat[b], pins[b], Fine(b))
      BY <2>1, <3>2, <1>u DEF LatchedAt, Late, Before, ReadingEeprom
    <3> QED BY <2>1, <2>2, <3>1, <3>3, <1>0 DEF gpio
  <2> QED BY <2>3, <2>4
<1>11. ASSUME NEW b \in Boards, NEW dead \in Transfers, TimerFires(b, dead) PROVE All
  BY <1>11, <1>1, <1>x DEF TimerFires, place
<1>12. ASSUME NEW b \in Boards, Interrupt(b) \/ Tasklet(b) PROVE All
  BY <1>12, <1>1 DEF Interrupt, Tasklet, place, Fine
<1>13. ASSUME NEW b \in Boards, Remove(b) \/ Undo(b) PROVE All
  <2>1. PICK n : Undone(b, n)
    BY <1>13 DEF Remove, Undo
  <2>2. Others(b)
    BY <1>13, <2>1, <1>t DEF Remove, Undo, Undone, Goes, gpio, Fine
  <2> QED BY <2>1, <2>2, <1>v, <1>w

<1>14. ASSUME NEW b \in Boards
       PROVE  /\ reg[b] \in [user : Latches, probe : Latches]
              /\ olat[b] \in SUBSET Pins /\ olat[b] # Unset
              /\ Unset \in Latches
  BY UnsetFacts DEF Typed, PinsTyped, Latches
<1>15. ASSUME NEW b \in Boards, OutputRead(b) PROVE All
  <2>1. /\ pc[b] = "outputs" /\ reg[b].probe = Unset
        /\ UNCHANGED <<pc, at, olat, pins, want>>
        /\ reg' = [reg EXCEPT ![b]["probe"] = olat[b]]
        /\ Excuse(b, "race", \E o \in {"user"} : reg[b][o] # Unset)
    BY <1>15 DEF OutputRead, ReadLatch, place
  <2>2. Others(b)
    BY <2>1, <1>t DEF Excuse, Fine
  <2>3. reg'[b].probe = olat[b] /\ reg'[b].user = reg[b].user
    BY <2>1, <1>t, <1>14
  <2>4. Fine(b)' => Fine(b) /\ reg[b].user = Unset
    BY <2>1, <1>t DEF Excuse, Fine
  <2>5. LatchedAt(pc[b], at[b], want[b], reg'[b], olat[b], pins[b], Fine(b)')
    BY <2>1, <2>3, <2>4, <1>u DEF LatchedAt, Before, ReadingEeprom
  <2> QED BY <2>1, <2>2, <2>5, <1>0
<1>16. ASSUME NEW b \in Boards, UserRead(b) PROVE All
  <2>1. /\ "zio" \in res[b] /\ reg[b].user = Unset
        /\ UNCHANGED <<pc, at, olat, pins>> /\ want' = [want EXCEPT ![b] = ~want[b]]
        /\ reg' = [reg EXCEPT ![b]["user"] = olat[b]]
        /\ Excuse(b, "race", \E o \in {"probe"} : reg[b][o] # Unset)
    BY <1>16 DEF UserRead, ReadLatch, place
  <2>2. Others(b)
    BY <2>1, <1>t DEF Excuse, Fine
  <2>3. reg'[b].user = olat[b] /\ reg'[b].probe = reg[b].probe /\ reg'[b].user # Unset
    BY <2>1, <1>t, <1>14
  <2>4. Fine(b)' => Fine(b) /\ reg[b].probe = Unset
    BY <2>1, <1>t DEF Excuse, Fine
  <2>5. pc[b] \notin Before \cup {"init"}
    <3>1. pc[b] \in Before => res[b] = {}
      BY DEF Holds, HoldsAt
    <3>2. pc[b] = "init" => res[b] \subseteq {"temp_timer"}
      BY DEF Holds, HoldsAt
    <3> QED BY <2>1, <3>1, <3>2
  <2>6. LatchedAt(pc[b], at[b], want'[b], reg'[b], olat[b], pins[b], Fine(b)')
    BY <2>3, <2>4, <2>5, <1>u DEF LatchedAt
  <2> QED BY <2>1, <2>2, <2>6, <1>0
<1>17. ASSUME NEW b \in Boards, NEW fails \in BOOLEAN, UserWrite(b, fails) PROVE All
  <2>1. /\ reg[b].user # Unset /\ UNCHANGED <<pc, at, want>>
        /\ olat' = [olat EXCEPT ![b] = Latch(reg[b]["user"], {Term}, want[b])]
        /\ pins' = IF fails THEN pins ELSE [pins EXCEPT ![b] = olat'[b]]
        /\ reg' = [reg EXCEPT ![b]["user"] = Unset]
        /\ Excuse(b, "gpio", fails)
    BY <1>17 DEF UserWrite, WriteLatch, place
  <2>2. Others(b)
    BY <2>1, <1>t DEF Excuse, Fine
  <2>3. reg'[b].user = Unset /\ reg'[b].probe = reg[b].probe
    BY <2>1, <1>t, <1>14
  <2>4. Fine(b)' => Fine(b) /\ ~fails
    BY <2>1, <1>t DEF Excuse, Fine
  <2>5. olat'[b] = Latch(reg[b].user, {Term}, want[b])
    BY <2>1, <1>t
  <2>6. ~fails => pins'[b] = olat'[b]
    BY <2>1, <1>t
  <2>7. reg[b] # NoRegs
    BY <2>1 DEF NoRegs
  <2>8. ASSUME pc[b] \in Late, Fine(b)'
        PROVE  /\ olat'[b] = pins'[b] /\ Enabled(pc[b], at[b]) \subseteq olat'[b]
               /\ reg[b].probe = Unset /\ (Term \in olat'[b] <=> want[b])
    <3>1. reg[b].user = olat[b] /\ reg[b].probe = Unset
      BY <2>1, <2>4, <2>8, <1>u DEF LatchedAt
    <3>2. Enabled(pc[b], at[b]) \subseteq olat[b]
      BY <2>4, <2>8, <1>u DEF LatchedAt
    <3>3. Term \notin Enabled(pc[b], at[b])
      <4>1. pc[b] = "outputs" => at[b] \in 1..Channels
        BY DEF Typed, PlaceTyped
      <4> QED BY <4>1, UnsetFacts, EnabledOutputs
    <3>4. /\ want[b] => olat'[b] = olat[b] \cup {Term}
          /\ ~want[b] => olat'[b] = olat[b] \ {Term}
      BY <2>5, <3>1 DEF Latch
    <3> QED BY <2>4, <2>6, <2>8, <3>1, <3>2, <3>3, <3>4
  <2>9. LatchedAt(pc[b], at[b], want[b], reg'[b], olat'[b], pins'[b], Fine(b)')
    BY <2>3, <2>7, <2>8, <1>u DEF LatchedAt, Before, ReadingEeprom, Late
  <2> QED BY <2>1, <2>2, <2>9, <1>0
<1>18. ASSUME NEW b \in Boards, NEW fails \in BOOLEAN, OutputWrite(b, fails) PROVE All
  <2> DEFINE mask == {<<"OUT", at[b]>>}
  <2>1. /\ pc[b] = "outputs" /\ reg[b].probe # Unset /\ UNCHANGED want
        /\ olat' = [olat EXCEPT ![b] = Latch(reg[b]["probe"], mask, TRUE)]
        /\ pins' = IF fails THEN pins ELSE [pins EXCEPT ![b] = olat'[b]]
        /\ reg' = [reg EXCEPT ![b]["probe"] = Unset]
        /\ Excuse(b, "gpio", fails)
    BY <1>18 DEF OutputWrite, WriteLatch
  <2>2. \/ at[b] = Channels /\ Goes(b, "up") /\ at' = [at EXCEPT ![b] = 0]
        \/ at[b] # Channels /\ UNCHANGED pc /\ at' = [at EXCEPT ![b] = at[b] + 1]
    BY <1>18 DEF OutputWrite
  <2>3. Others(b)
    BY <2>1, <2>2, <1>t DEF Excuse, Fine, Goes
  <2>4. reg'[b].probe = Unset /\ reg'[b].user = reg[b].user
    BY <2>1, <1>t, <1>14
  <2>5. Fine(b)' => Fine(b) /\ ~fails
    BY <2>1, <1>t DEF Excuse, Fine
  <2>6. ~fails => pins'[b] = olat'[b]
    BY <2>1, <1>t
  <2>7. at[b] \in 1..Channels
    BY <2>1 DEF Typed, PlaceTyped
  <2>8. /\ pc'[b] \in {"up", "outputs"}
        /\ Enabled(pc'[b], at'[b]) = Enabled(pc[b], at[b]) \cup mask
    <3>1. CASE at[b] = Channels
      <4>1. pc'[b] = "up"
        BY <3>1, <2>2, <1>t DEF Goes
      <4>2. Outputs = {<<"OUT", c>> : c \in 1..at[b]-1} \cup mask
        BY <3>1, <2>7, ChannelsPositive DEF Outputs
      <4> QED BY <4>1, <4>2, <2>1 DEF Enabled
    <3>2. CASE at[b] # Channels
      <4>1. pc'[b] = "outputs" /\ at'[b] = at[b] + 1
        BY <3>2, <2>1, <2>2, <1>t
      <4>2. {<<"OUT", c>> : c \in 1..at'[b]-1} = {<<"OUT", c>> : c \in 1..at[b]-1} \cup mask
        BY <4>1, <2>7, ChannelsPositive
      <4> QED BY <4>1, <4>2, <2>1 DEF Enabled
    <3> QED BY <3>1, <3>2
  <2>9. ASSUME Fine(b)'
        PROVE  /\ olat'[b] = pins'[b] /\ Enabled(pc'[b], at'[b]) \subseteq olat'[b]
               /\ reg[b].user = Unset /\ (Term \in olat'[b] <=> want[b])
    <3>1. /\ reg[b].probe = olat[b] /\ reg[b].user = Unset
          /\ Enabled(pc[b], at[b]) \subseteq olat[b] /\ (Term \in olat[b] <=> want[b])
      BY <2>1, <2>5, <2>9, <1>u DEF LatchedAt, Late
    <3>2. olat'[b] = olat[b] \cup mask
      BY <2>1, <3>1, <1>t DEF Latch
    <3>3. Term \notin mask
      BY <2>7, UnsetFacts DEF Outputs
    <3> QED BY <2>5, <2>6, <2>8, <2>9, <3>1, <3>2, <3>3
  <2>10. LatchedAt(pc'[b], at'[b], want'[b], reg'[b], olat'[b], pins'[b], Fine(b)')
    BY <2>1, <2>4, <2>8, <2>9 DEF LatchedAt, Before, ReadingEeprom
  <2> QED BY <2>3, <2>10, <1>0
<1>19. Transfers # {}
  BY DEF Transfers
<1> QED
  BY <1>2, <1>3, <1>4, <1>7, <1>8, <1>9, <1>10, <1>11, <1>12, <1>13, <1>15, <1>16, <1>17,
     <1>18 DEF Next

\* Every step keeps what has been read in line with whose EEPROM it is.
LEMMA ReadStep ==
  Typed /\ NoBoards /\ (\A b \in Boards : Read(b)) /\ [Next]_vars => \A b \in Boards : Read(b)'
<1> SUFFICES ASSUME Typed, NoBoards, \A b \in Boards : Read(b), [Next]_vars
             PROVE  \A b \in Boards : Read(b)'
  OBVIOUS
<1> DEFINE All == \A b \in Boards : Read(b)'
           Over(o) == "overlap" \in excused[o]
           Same(o) == pc'[o] = pc[o] /\ calib'[o] = calib[o] /\ Over(o)' = Over(o)
           Others(b) == \A o \in Boards \ {b} : Same(o)
           Now(b) == ReadAt(b, pc'[b], calib'[b], Over(b)', fs.data)
<1>p. param' = param
  BY WhoSdb DEF Load, Unload, UnregisterZio, SetImage, Create, OpenFile, Destroy, static
<1>0. ASSUME NEW b \in Boards, Others(b), Now(b), fs'.data = fs.data PROVE All
  <2>1. ASSUME NEW o \in Boards \ {b} PROVE ReadAt(o, pc'[o], calib'[o], Over(o)', fs'.data)
    BY <1>0 DEF Read
  <2>2. ASSUME NEW o \in Boards PROVE ReadAt(o, pc'[o], calib'[o], Over(o)', fs'.data)
    BY <1>0, <2>1
  <2> QED BY <2>2, <1>p DEF Read, ReadAt
<1>t. /\ pc \in [Boards -> Before \cup Late \cup {"absent", "init", "undo"}]
      /\ DOMAIN calib = Boards /\ DOMAIN excused = Boards
  BY DEF Typed, PlaceTyped, CalibTyped, ExcuseTyped, Before, Late
<1>u. ASSUME NEW b \in Boards PROVE ReadAt(b, pc[b], calib[b], Over(b), fs.data)
  BY DEF Read
<1>v. ASSUME NEW b \in Boards, pc'[b] \in {"absent", "undo"}, Others(b), UNCHANGED fs PROVE All
  BY <1>v, <1>0 DEF ReadAt, ReadingEeprom, Late
<1>w. ASSUME NEW b \in Boards, NEW n, Undone(b, n) PROVE pc'[b] \in {"absent", "undo"}
  BY <1>w, <1>t DEF Undone, Goes
<1>x. ASSUME NEW b \in Boards, NEW what, NEW is, Excuse(b, what, is), what # "overlap"
      PROVE  \A o \in Boards : Over(o)' = Over(o)
  BY <1>x, <1>t DEF Excuse
<1>y. ASSUME NEW b \in Boards, pc[b] \in {"init"} \cup Late, pc'[b] \in {"init"} \cup Late,
             \A o \in Boards : Over(o)' = Over(o), Others(b), UNCHANGED <<fs, calib>>
      PROVE  All
  <2>1. Now(b)
    BY <1>y, <1>u DEF ReadAt, ReadingEeprom, Late
  <2> QED BY <2>1, <1>y, <1>0
<1>1. CASE UNCHANGED <<pc, calib, fs>> /\ \A o \in Boards : Over(o)' = Over(o)
  BY <1>1, <1>p DEF Read, ReadAt
<1>2. CASE Load
  <2>1. \A b \in Boards : pc[b] = "absent" /\ pc'[b] = "absent"
    BY <1>2 DEF Load, NoBoards, place
  <2> QED BY <2>1 DEF Read, ReadAt, ReadingEeprom, Late
<1>3. CASE Unload \/ UnregisterZio \/ UNCHANGED vars
  BY <1>3, <1>1 DEF Unload, UnregisterZio, vars, place, sdb
<1>4. ASSUME NEW b \in Boards, Probe(b) PROVE All
  <2>1. Others(b) /\ pc'[b] = "data" /\ calib'[b] = NoCalib /\ UNCHANGED fs
    BY <1>4, <1>t DEF Probe, Goes, sdb
  <2>2. Now(b)
    BY <2>1 DEF ReadAt, ReadingEeprom, Late
  <2> QED BY <2>1, <2>2, <1>0
<1>5. ASSUME NEW b \in Boards, ProbeRefused(b) PROVE All
  BY <1>5, <1>v, <1>t DEF ProbeRefused, Goes, sdb

<1>6. ASSUME NEW b \in Boards, SetImage(b) PROVE All
  <2> DEFINE others == {o \in Boards \ {b} : pc[o] \in ReadingEeprom}
  <2>1. /\ pc[b] = "data" /\ pc'[b] = "create" /\ fs'.data = b /\ UNCHANGED calib
        /\ \A o \in Boards \ {b} : pc'[o] = pc[o]
    BY <1>6, <1>t DEF SetImage, Goes, ImageFor, Typed, SdbTyped
  <2>2. \A o \in Boards : Over(o)' <=> Over(o) \/ (others # {} /\ o \in others \cup {b})
    BY <1>6, <1>t DEF SetImage
  <2>3. ReadAt(b, pc'[b], calib'[b], Over(b)', fs'.data)
    BY <2>1, <1>u DEF ReadAt, ReadingEeprom, Late
  <2>4. ASSUME NEW o \in Boards \ {b} PROVE ReadAt(o, pc'[o], calib'[o], Over(o)', fs'.data)
    <3>1. CASE pc[o] \in ReadingEeprom
      BY <3>1, <2>1, <2>2, <1>u DEF ReadAt
    <3>2. CASE pc[o] \notin ReadingEeprom
      BY <3>2, <2>1, <2>2, <1>u DEF ReadAt
    <3> QED BY <3>1, <3>2
  <2>5. ASSUME NEW o \in Boards PROVE ReadAt(o, pc'[o], calib'[o], Over(o)', fs'.data)
    BY <2>3, <2>4
  <2> QED BY <2>5, <1>p DEF Read, ReadAt
<1>7. ASSUME NEW b \in Boards, Create(b) PROVE All
  <2>1. /\ Others(b) /\ pc[b] = "create" /\ pc'[b] \in {"open", "check"}
        /\ UNCHANGED <<fs, calib, excused>>
    BY <1>7, <1>t DEF Create, Goes
  <2>2. Now(b)
    BY <2>1, <1>u DEF ReadAt, ReadingEeprom, Late
  <2> QED BY <2>1, <2>2, <1>0
<1>8. ASSUME NEW b \in Boards, OpenFile(b) PROVE All
  <2>1. /\ Others(b) /\ pc[b] = "open" /\ pc'[b] \in {"read", "check"}
        /\ UNCHANGED <<calib, excused>>
    BY <1>8, <1>t DEF OpenFile, Goes
  <2>2. fs'.data = fs.data
    BY <1>8 DEF OpenFile, Typed, SdbTyped
  <2>3. Now(b)
    BY <2>1, <1>u DEF ReadAt, ReadingEeprom, Late
  <2> QED BY <2>1, <2>2, <2>3, <1>0
<1>9. ASSUME NEW b \in Boards, ReadFile(b) PROVE All
  <2>1. PICK w : calib' = [calib EXCEPT ![b] = [from |-> fs.data, what |-> w]]
    BY <1>9 DEF ReadFile
  <2>2. pc[b] = "read" /\ Goes(b, "destroy") /\ UNCHANGED <<fs, excused>>
    BY <1>9 DEF ReadFile, sdb
  <2>3. Others(b) /\ pc'[b] = "destroy" /\ calib'[b].from = fs.data
    BY <2>1, <2>2, <1>t DEF Goes
  <2>4. Now(b)
    BY <2>2, <2>3, <1>u DEF ReadAt, ReadingEeprom, Late
  <2> QED BY <2>2, <2>3, <2>4, <1>0
<1>10. ASSUME NEW b \in Boards, Destroy(b) PROVE All
  <2>1. /\ Others(b) /\ pc[b] = "destroy" /\ pc'[b] = "check"
        /\ UNCHANGED <<fs, calib, excused>>
    BY <1>10, <1>t DEF Destroy, Goes
  <2>2. Now(b)
    BY <2>1, <1>u DEF ReadAt, ReadingEeprom, Late
  <2> QED BY <2>1, <2>2, <1>0
<1>11. ASSUME NEW b \in Boards, CheckCalib(b) PROVE All
  <2>1. /\ pc[b] = "check" /\ calib'[b] = Chosen(b) /\ UNCHANGED <<fs, excused>>
        /\ Others(b)
    BY <1>11, <1>t DEF CheckCalib, Goes, sdb
  <2>2. CASE ~(HashOk(b) /\ VersionOk(b))
    BY <2>1, <2>2, <1>11, <1>v, <1>t DEF CheckCalib, Goes
  <2>3. CASE HashOk(b) /\ VersionOk(b)
    <3>1. pc'[b] = "init"
      BY <2>3, <1>11, <1>t DEF CheckCalib, Goes
    <3>2. CASE param.default
      BY <3>1, <3>2, <2>1, <1>0 DEF ReadAt, Chosen, ReadingEeprom, Late
    <3>3. CASE ~param.default /\ param.load = "file"
      BY <3>1, <3>3, <2>1, <1>0 DEF ReadAt, Chosen, ReadingEeprom, Late
    <3>4. CASE ~param.default /\ param.load # "file"
      <4>1. calib'[b] = calib[b] /\ calib[b].what \notin {"old", "zero"}
        BY <2>1, <2>3, <3>4 DEF Chosen, VersionOk
      <4>2. calib[b].what = "good" \/ param.load = "missing"
        BY <2>3, <3>4, <4>1 DEF HashOk, Typed, SdbTyped
      <4>3. calib[b] # NoCalib
        BY <4>1 DEF NoCalib
      <4>4. ~Over(b) => calib[b].from = b
        BY <2>1, <4>3, <1>u DEF ReadAt
      <4>5. Now(b)
        BY <2>1, <3>1, <4>1, <4>2, <4>4 DEF ReadAt, ReadingEeprom, Late
      <4> QED BY <2>1, <4>5, <1>0
    <3> QED BY <3>2, <3>3, <3>4
  <2> QED BY <2>2, <2>3
<1>12. ASSUME NEW b \in Boards, pc[b] = "init", Advance(b)
       PROVE  pc'[b] \in {"init"} \cup Late /\ \A o \in Boards \ {b} : pc'[o] = pc[o]
  BY <1>12, <1>t DEF Advance, Goes, Late
<1>13. ASSUME NEW b \in Boards, NEW n, Undone(b, n) PROVE \A o \in Boards \ {b} : pc'[o] = pc[o]
  BY <1>13, <1>t DEF Undone, Goes
<1>14. ASSUME NEW b \in Boards, pc[b] = "init", Advance(b) \/ Undone(b, UndoFrom(at[b])),
              \A o \in Boards : Over(o)' = Over(o), UNCHANGED <<fs, calib>>
       PROVE  All
  <2>1. Others(b)
    BY <1>12, <1>13, <1>14
  <2> QED BY <2>1, <1>12, <1>14, <1>v, <1>w, <1>y
<1>15. ASSUME NEW b \in Boards, NEW late \in BOOLEAN, InitSimple(b, late) PROVE All
  <2>1. /\ pc[b] = "init" /\ (Advance(b) \/ Undone(b, UndoFrom(at[b])))
        /\ UNCHANGED <<fs, calib, excused>>
    BY <1>15 DEF InitSimple, sdb
  <2> QED BY <2>1, <1>14
<1>16. ASSUME NEW b \in Boards, NEW dead \in Transfers, InitOnewire(b, dead) PROVE All
  <2>1. /\ pc[b] = "init" /\ (Advance(b) \/ Undone(b, UndoFrom(at[b])))
        /\ UNCHANGED <<fs, calib>>
    BY <1>16 DEF InitOnewire, sdb
  <2> QED BY <2>1, <1>14, <1>16, <1>x DEF InitOnewire
<1>17. ASSUME NEW b \in Boards, NEW dead \in Transfers, NEW delay \in Delays,
              NEW late \in {"no", "I", "G"}, InitAcam(b, dead, delay, late)
       PROVE  All
  <2>1. /\ pc[b] = "init" /\ (Advance(b) \/ Undone(b, UndoFrom(at[b])))
        /\ UNCHANGED <<fs, calib>>
    BY <1>17 DEF InitAcam, sdb
  <2> QED BY <2>1, <1>14, <1>17, <1>x DEF InitAcam
<1>18. ASSUME NEW b \in Boards, InitIrq(b) PROVE All
  <2>1. pc[b] = "irq" /\ UNCHANGED <<fs, calib, excused>>
    BY <1>18 DEF InitIrq, sdb
  <2>2. CASE ~param.fifo
    <3>1. Undone(b, UndoFrom(Len(Mods) + 1))
      BY <2>2, <1>18 DEF InitIrq
    <3> QED BY <2>1, <3>1, <1>13, <1>v, <1>w
  <2>3. CASE param.fifo
    BY <2>1, <2>3, <1>18, <1>t, <1>y DEF InitIrq, Goes, Late
  <2> QED BY <2>2, <2>3
<1>19. ASSUME NEW b \in Boards, NEW fails \in BOOLEAN, OutputWrite(b, fails) PROVE All
  <2>1. /\ pc[b] = "outputs" /\ pc'[b] \in {"outputs", "up"} /\ UNCHANGED <<fs, calib>>
        /\ \A o \in Boards \ {b} : pc'[o] = pc[o]
    BY <1>19, <1>t DEF OutputWrite, Goes, sdb
  <2>2. \A o \in Boards : Over(o)' = Over(o)
    BY <1>19, <1>x DEF OutputWrite, WriteLatch
  <2> QED BY <2>1, <2>2, <1>y DEF Late
<1>20. ASSUME NEW b \in Boards, NEW fails \in BOOLEAN,
              OutputRead(b) \/ UserRead(b) \/ UserWrite(b, fails)
       PROVE  All
  <2>1. \A o \in Boards : Over(o)' = Over(o)
    BY <1>20, <1>x DEF OutputRead, UserRead, UserWrite, ReadLatch, WriteLatch
  <2> QED BY <2>1, <1>20, <1>1 DEF OutputRead, UserRead, UserWrite, place, sdb
<1>21. ASSUME NEW b \in Boards, NEW dead \in Transfers, TimerFires(b, dead) PROVE All
  BY <1>21, <1>1, <1>x DEF TimerFires, place, sdb
<1>22. ASSUME NEW b \in Boards, Interrupt(b) \/ Tasklet(b) PROVE All
  BY <1>22, <1>1 DEF Interrupt, Tasklet, place, sdb
<1>23. ASSUME NEW b \in Boards, Remove(b) \/ Undo(b) PROVE All
  <2>1. UNCHANGED <<fs, calib, excused>> /\ \E n : Undone(b, n)
    BY <1>23 DEF Remove, Undo, sdb
  <2> QED BY <2>1, <1>13, <1>v, <1>w
<1> QED
  BY <1>2, <1>3, <1>4, <1>5, <1>6, <1>7, <1>8, <1>9, <1>10, <1>11, <1>15, <1>16, <1>17, <1>18,
     <1>19, <1>20, <1>21, <1>22, <1>23 DEF Next

\* Boards move while the module is there.
LEMMA NoBoardsStep == Typed /\ NoBoards /\ [Next]_vars => NoBoards'
<1> SUFFICES ASSUME Typed, NoBoards, [Next]_vars PROVE NoBoards'
  OBVIOUS
<1>1. CASE module' # "out"
  BY <1>1 DEF NoBoards
<1>2. CASE module' = "out"
  <2>1. CASE Load \/ Unload
    BY <1>2, <2>1 DEF Load, Unload
  <2>2. CASE UnregisterZio
    BY <2>2 DEF UnregisterZio, place, NoBoards
  <2>3. CASE UNCHANGED <<module, pc>>
    BY <2>3 DEF NoBoards
  <2>4. ASSUME module = "out", NEW b \in Boards, NEW p, pc[b] = p, p # "absent" PROVE FALSE
    BY <2>4 DEF NoBoards
  <2>5. CASE UNCHANGED <<module, static, sdb>> /\ module = "out"
    <3>1. ASSUME NEW b \in Boards PROVE ~Probe(b)
      BY <2>5 DEF Probe
    <3>2. ASSUME NEW b \in Boards
          PROVE  ~(ProbeRefused(b) \/ ReadFile(b) \/ CheckCalib(b) \/ InitIrq(b))
      BY <2>5, <2>4 DEF ProbeRefused, ReadFile, CheckCalib, InitIrq
    <3>3. ASSUME NEW b \in Boards, NEW late \in BOOLEAN PROVE ~InitSimple(b, late)
      BY <2>5, <2>4 DEF InitSimple
    <3>4. ASSUME NEW b \in Boards, NEW dead \in Transfers PROVE ~InitOnewire(b, dead)
      BY <2>5, <2>4 DEF InitOnewire
    <3>5. ASSUME NEW b \in Boards, NEW dead \in Transfers, NEW delay \in Delays,
                 NEW late \in {"no", "I", "G"}
          PROVE  ~InitAcam(b, dead, delay, late)
      BY <2>5, <2>4 DEF InitAcam
    <3>6. ASSUME NEW b \in Boards, NEW fails \in BOOLEAN PROVE ~OutputWrite(b, fails)
      BY <2>5, <2>4 DEF OutputWrite
    <3>7. ASSUME NEW b \in Boards PROVE ~(Remove(b) \/ Undo(b))
      BY <2>5, <2>4 DEF Remove, Undo
    <3>8. ASSUME NEW b \in Boards PROVE ~(SetImage(b) \/ Create(b) \/ OpenFile(b) \/ Destroy(b))
      BY <2>5, <2>4 DEF SetImage, Create, OpenFile, Destroy
    <3>9. ASSUME NEW b \in Boards, Interrupt(b) \/ Tasklet(b) PROVE UNCHANGED pc
      BY <3>9 DEF Interrupt, Tasklet, place
    <3>10. UNCHANGED pc
      BY <3>1, <3>2, <3>3, <3>4, <3>5, <3>6, <3>7, <3>8, <3>9, WhoPlace
    <3> QED BY <3>10, <2>3, <2>5
  <2>6. ASSUME NEW b \in Boards, SetImage(b) \/ Create(b) \/ OpenFile(b) \/ Destroy(b)
        PROVE  FALSE
    <3>1. module = "out" /\ pc[b] # "absent"
      BY <1>2, <2>6 DEF SetImage, Create, OpenFile, Destroy
    <3> QED BY <3>1, <2>4
  <2>7. UNCHANGED <<module, static, sdb>> => module = "out"
    BY <1>2
  <2> QED BY <2>1, <2>2, <2>5, <2>6, <2>7, WhoSdb
<1> QED BY <1>1, <1>2

\* fs is on the list while a board reads.
LEMMA ListedStep == Typed /\ NoBoards /\ Listed /\ [Next]_vars => Listed'
<1> SUFFICES ASSUME Typed, NoBoards, Listed, [Next]_vars PROVE Listed'
  OBVIOUS
<1> USE DEF ReadingEeprom
<1>t. DOMAIN pc = Boards
  BY DEF Typed, PlaceTyped
<1>1. CASE Load
  <2>1. \A b \in Boards : pc'[b] = "absent" /\ list' = "empty"
    BY <1>1 DEF Load, NoBoards, place
  <2> QED BY <1>1, <2>1 DEF Load, Listed, Reads
<1>2. CASE UNCHANGED <<pc, list, dropped>>
  BY <1>2 DEF Listed, Reads
<1>3. CASE Unload \/ UnregisterZio \/ UNCHANGED vars
  BY <1>3, <1>2 DEF Unload, UnregisterZio, vars, place, sdb
<1>4. ASSUME NEW b \in Boards, NEW p, p \notin ReadingEeprom, Goes(b, p), ~Reads(b),
             UNCHANGED <<list, dropped>>
      PROVE  Listed'
  <2>1. \A o \in Boards : /\ Reads(o)' <=> Reads(o)
                          /\ Reads(o) => pc'[o] = pc[o]
    BY <1>4, <1>t DEF Goes, Reads
  <2> QED BY <1>4, <2>1 DEF Listed
<1>5. ASSUME NEW b \in Boards, SetImage(b) PROVE Listed'
  <2>1. ~dropped' => ~dropped /\ \A o \in Boards : ~Reads(o)
    BY <1>5 DEF SetImage, Reads
  <2>2. pc' = [pc EXCEPT ![b] = "create"] /\ UNCHANGED list
    BY <1>5 DEF SetImage, Goes
  <2>3. \A o \in Boards \ {b} : Reads(o)' <=> Reads(o)
    BY <2>2, <1>t DEF Reads
  <2> QED BY <2>1, <2>2, <2>3 DEF Listed
<1>6. ASSUME NEW b \in Boards, Create(b), ~dropped' PROVE Listed'
  <2>1. pc[b] = "create" /\ Reads(b) /\ UNCHANGED dropped
    BY <1>6 DEF Create, Reads
  <2>2. \A o \in Boards : Reads(o) => o = b
    BY <1>6, <2>1 DEF Listed
  <2>3. list = "empty"
    BY <1>6, <2>1, <2>2 DEF Listed
  <2>4. \/ list' = "fs" /\ Goes(b, "open")
        \/ list' = "empty" /\ Goes(b, "check")
    BY <1>6, <2>3 DEF Create, Linked
  <2>5. \A o \in Boards \ {b} : ~Reads(o)'
    BY <2>2, <2>4, <1>t DEF Goes, Reads
  <2>6. list' # "empty" => list' = "fs" /\ pc'[b] = "open"
    BY <2>4, <1>t DEF Goes
  <2> QED BY <2>5, <2>6 DEF Listed, Reads
<1>7. ASSUME NEW b \in Boards, NEW p, Reads(b), pc[b] # "create", ~dropped, Goes(b, p),
             \/ p \in {"read", "destroy"} /\ UNCHANGED list
             \/ p \notin ReadingEeprom /\ list' = Unlinked(list)
      PROVE  Listed'
  <2>1. \A o \in Boards : Reads(o) => o = b
    BY <1>7 DEF Listed
  <2>2. \A o \in Boards \ {b} : ~Reads(o)'
    BY <1>7, <2>1, <1>t DEF Goes, Reads
  <2>3. pc'[b] = p
    BY <1>7, <1>t DEF Goes
  <2>4. list \in {"empty", "fs"}
    BY <1>7 DEF Listed
  <2>5. p \notin ReadingEeprom => list' = "empty"
    BY <1>7, <2>4 DEF Unlinked
  <2>6. p \in {"read", "destroy"} => /\ list' # "empty" => list' = "fs"
                                     /\ Reads(b)' /\ pc'[b] # "create"
    BY <1>7, <2>3, <2>4 DEF Reads
  <2>7. list' # "empty" => list' = "fs" /\ Reads(b)' /\ pc'[b] # "create"
    BY <1>7, <2>5, <2>6
  <2> QED BY <2>2, <2>7 DEF Listed
<1>8. ASSUME NEW b \in Boards, OpenFile(b) \/ ReadFile(b) \/ Destroy(b), ~dropped' PROVE Listed'
  <2>1. Reads(b) /\ pc[b] # "create"
    BY <1>8 DEF OpenFile, ReadFile, Destroy, Reads
  <2>2. \/ Goes(b, "read") /\ UNCHANGED list
        \/ Goes(b, "destroy") /\ UNCHANGED list
        \/ Goes(b, "check") /\ list' = Unlinked(list)
    BY <1>8 DEF OpenFile, ReadFile, Destroy, sdb
  <2>3. UNCHANGED dropped \/ dropped' = TRUE
    BY <1>8 DEF OpenFile, ReadFile, Destroy, sdb
  <2>4. ~dropped
    BY <2>3, <1>8
  <2> QED BY <2>1, <2>2, <2>4, <1>7
<1>9. CASE dropped'
  BY <1>9 DEF Listed

<1>10. ASSUME NEW b \in Boards, Probe(b) \/ ProbeRefused(b) \/ CheckCalib(b) PROVE Listed'
  <2>1. PICK p \in {"data", "absent", "init"} : Goes(b, p)
    BY <1>10 DEF Probe, ProbeRefused, CheckCalib
  <2>2. ~Reads(b) /\ UNCHANGED <<list, dropped>>
    BY <1>10 DEF Probe, ProbeRefused, CheckCalib, Reads, sdb
  <2> QED BY <2>1, <2>2, <1>4
<1>11. ASSUME NEW b \in Boards, ~Reads(b), UNCHANGED <<list, dropped>>,
              Advance(b) \/ (\E n : Undone(b, n))
       PROVE  Listed'
  <2>1. UNCHANGED pc \/ Goes(b, "irq") \/ Goes(b, "absent") \/ Goes(b, "undo")
    BY <1>11 DEF Advance, Undone
  <2> QED BY <2>1, <1>11, <1>2, <1>4
<1>12. ASSUME NEW b \in Boards, NEW late \in BOOLEAN, InitSimple(b, late) PROVE Listed'
  <2>1. /\ ~Reads(b) /\ UNCHANGED <<list, dropped>>
        /\ Advance(b) \/ \E n : Undone(b, n)
    BY <1>12 DEF InitSimple, Reads, sdb
  <2> QED BY <2>1, <1>11
<1>13. ASSUME NEW b \in Boards, NEW dead \in Transfers, InitOnewire(b, dead) PROVE Listed'
  <2>1. /\ ~Reads(b) /\ UNCHANGED <<list, dropped>>
        /\ Advance(b) \/ \E n : Undone(b, n)
    BY <1>13 DEF InitOnewire, Reads, sdb
  <2> QED BY <2>1, <1>11
<1>14. ASSUME NEW b \in Boards, NEW dead \in Transfers, NEW delay \in Delays,
              NEW late \in {"no", "I", "G"}, InitAcam(b, dead, delay, late)
       PROVE  Listed'
  <2>1. /\ ~Reads(b) /\ UNCHANGED <<list, dropped>>
        /\ Advance(b) \/ \E n : Undone(b, n)
    BY <1>14 DEF InitAcam, Reads, sdb
  <2> QED BY <2>1, <1>11
<1>15. ASSUME NEW b \in Boards, InitIrq(b) \/ Remove(b) \/ Undo(b) PROVE Listed'
  <2>1. /\ ~Reads(b) /\ UNCHANGED <<list, dropped>>
        /\ Goes(b, "outputs") \/ \E n : Undone(b, n)
    BY <1>15 DEF InitIrq, Remove, Undo, Reads, sdb
  <2> QED BY <2>1, <1>11, <1>4
<1>16. ASSUME NEW b \in Boards, NEW fails \in BOOLEAN, OutputWrite(b, fails) PROVE Listed'
  <2>1. /\ ~Reads(b) /\ UNCHANGED <<list, dropped>>
        /\ Goes(b, "up") \/ UNCHANGED pc
    BY <1>16 DEF OutputWrite, Reads, sdb
  <2> QED BY <2>1, <1>2, <1>4
<1>17. ASSUME NEW b \in Boards, Interrupt(b) \/ Tasklet(b) PROVE Listed'
  BY <1>17, <1>2 DEF Interrupt, Tasklet, place, sdb
<1>18. ASSUME NEW b \in Boards, NEW fails \in BOOLEAN,
              OutputRead(b) \/ UserRead(b) \/ UserWrite(b, fails)
       PROVE  Listed'
  BY <1>18, <1>2 DEF OutputRead, UserRead, UserWrite, place, sdb
<1>19. ASSUME NEW b \in Boards, NEW dead \in Transfers, TimerFires(b, dead) PROVE Listed'
  BY <1>19, <1>2 DEF TimerFires, place, sdb
<1> QED
  BY <1>1, <1>3, <1>5, <1>6, <1>8, <1>9, <1>10, <1>12, <1>13, <1>14, <1>15, <1>16, <1>17, <1>18,
     <1>19 DEF Next

\* A non-empty set of bounded numbers has a smallest one: the interval below it contains
\* that of no other one.
LEMMA Least ==
  ASSUME NEW N \in Nat, NEW T, T \subseteq 0..N, T # {}
  PROVE  \E x \in T : \A y \in T : x <= y
<1> DEFINE Below(n) == 1..n
           R == StrictSubsetOrdering(1..N)
           I == {Below(n) : n \in T}
<1>1. IsWellFoundedOn(R, SUBSET (1..N))
  <2>1. IsFiniteSet(1..N)
    BY FS_Interval
  <2>2. FiniteSubsetsOf(1..N) = SUBSET (1..N)
    BY <2>1, FS_FiniteSubsetsOfFinite
  <2>3. IsWellFoundedOn(StrictSubsetOrdering(1..N), FiniteSubsetsOf(1..N))
    BY FS_StrictSubsetOrderingWellFounded
  <2> QED BY <2>2, <2>3
<1>2. I \subseteq SUBSET (1..N) /\ I # {}
  <2>1. ASSUME NEW n \in T PROVE Below(n) \subseteq 1..N
    BY n \in 0..N
  <2> QED BY <2>1
<1>3. \E x \in I : \A y \in I : ~ (<<y, x>> \in R)
  <2> HIDE DEF R, I
  <2> QED BY <1>1, <1>2, WFMin
<1>4. PICK n \in T : \A m \in T : ~ (<<Below(m), Below(n)>> \in R)
  BY <1>3
<1>5. ASSUME NEW m \in T, m < n PROVE FALSE
  <2>1. Below(m) \subseteq Below(n) /\ n \in Below(n) /\ n \notin Below(m)
    BY <1>5
  <2>2. Below(m) \in SUBSET (1..N) /\ Below(n) \in SUBSET (1..N)
    OBVIOUS
  <2> HIDE DEF Below
  <2>3. <<Below(m), Below(n)>> \in R
    BY <2>1, <2>2 DEF StrictSubsetOrdering
  <2> QED BY <2>3, <1>4
<1> QED BY <1>5

\* The equation of the bisection, and the function that solves it if the delays increase: the
\* last tap whose delay is below 8 ns, kept between the ends.
Taps == 0..NumTaps-1
Spans == Taps \X Taps
Halved(delay, f, l, r) ==
  LET mid == (l + r) \div 2 IN
  IF r - l <= 1 THEN l ELSE f[IF delay[mid] - delay[0] < 1 THEN <<mid, r>> ELSE <<l, mid>>]
Bisects(delay, f) == f = [span \in Spans |-> Halved(delay, f, span[1], span[2])]
Kept(c, l, r) == IF r - l <= 1 \/ c < l THEN l ELSE IF c >= r THEN r - 1 ELSE c

\* The middle of two taps that are not neighbours is between them.
LEMMA MidBetween ==
  ASSUME NEW l \in Int, NEW r \in Int, r - l >= 2
  PROVE  /\ (l + r) \div 2 \in Int /\ l < (l + r) \div 2 /\ (l + r) \div 2 < r
OBVIOUS

\* What Bisected is.
LEMMA BisectedEq == \A delay : Bisected(delay) = (CHOOSE f : Bisects(delay, f))[<<0, NumTaps - 1>>]
BY DEF Bisected, Bisects, Taps, Spans, Halved

\* Either half keeps the same tap as the whole.
LEMMA KeptMid ==
  ASSUME NEW c \in Int, NEW l \in Int, NEW r \in Int, NEW m \in Int, l < m, m < r
  PROVE  /\ m <= c => Kept(c, l, r) = Kept(c, m, r)
         /\ m > c => Kept(c, l, r) = Kept(c, l, m)
BY DEF Kept

\* The taps below 8 ns are the first ones.
LEMMA LastTap ==
  ASSUME NEW d \in Delays
  PROVE  \E c \in Taps : \A i \in Taps : d[i] - d[0] < 1 <=> i <= c
<1> DEFINE T == {i \in Taps : ~(d[i] - d[0] < 1)} \cup {NumTaps}
<1>1. /\ NumTaps \in Nat /\ NumTaps > 0 /\ d \in [Taps -> Nat]
      /\ \A i, j \in Taps : i <= j => d[i] <= d[j]
  BY BoardAssumption DEF Taps
<1>2. PICK n \in T : \A m \in T : n <= m
  <2>1. T \subseteq 0..NumTaps /\ T # {}
    BY <1>1 DEF Taps
  <2> HIDE DEF T
  <2> QED BY <1>1, <2>1, Least
<1>3. 0 \in Taps /\ 0 \notin T
  BY <1>1 DEF Taps
<1>4. n - 1 \in Taps /\ n \in Int
  BY <1>1, <1>3, <1>2 DEF Taps
<1>5. ASSUME NEW i \in Taps PROVE d[i] - d[0] < 1 <=> i <= n - 1
  <2>1. i \in Int
    BY DEF Taps
  <2>2. CASE i < n
    <3>1. i \notin T
      BY <2>1, <2>2, <1>2, <1>4
    <3> QED BY <3>1, <2>1, <2>2, <1>4
  <2>3. CASE i >= n
    <3>1. n \in Taps
      BY <2>3, <2>1, <1>1, <1>4 DEF Taps
    <3>2. ~(d[n] - d[0] < 1)
      BY <3>1, <1>1 DEF Taps
    <3>3. d[n] <= d[i] /\ d[n] \in Int /\ d[i] \in Int /\ d[0] \in Int
      BY <3>1, <1>1, <1>3, <1>4, <2>1, <2>3
    <3> QED BY <3>2, <3>3, <2>1, <2>3, <1>4
  <2> QED BY <2>1, <2>2, <2>3, <1>4
<1> QED BY <1>4, <1>5

\* The equation has a solution: the bisection ends.
LEMMA BisectionEnds == \A d \in Delays : \E f : Bisects(d, f)
<1> SUFFICES ASSUME NEW d \in Delays PROVE \E f : Bisects(d, f)
  OBVIOUS
<1>0. NumTaps \in Nat
  BY BoardAssumption
<1>1. PICK c \in Taps : \A i \in Taps : d[i] - d[0] < 1 <=> i <= c
  BY LastTap
<1> DEFINE g == [span \in Spans |-> Kept(c, span[1], span[2])]
<1>2. ASSUME NEW l \in Taps, NEW r \in Taps PROVE Halved(d, g, l, r) = Kept(c, l, r)
  <2>1. l \in Int /\ r \in Int /\ c \in Int
    BY DEF Taps
  <2>2. CASE r - l <= 1
    BY <2>2 DEF Halved, Kept
  <2>3. CASE ~(r - l <= 1)
    <3> DEFINE m == (l + r) \div 2
    <3>1. m \in Int /\ l < m /\ m < r
      BY <2>1, <2>3, MidBetween
    <3> HIDE DEF m
    <3>2. m \in Taps
      BY <3>1, <2>1, <1>0 DEF Taps
    <3>3. Halved(d, g, l, r) = IF d[m] - d[0] < 1 THEN g[<<m, r>>] ELSE g[<<l, m>>]
      BY <2>3 DEF Halved, m
    <3>4. d[m] - d[0] < 1 <=> m <= c
      BY <3>2, <1>1
    <3>5. g[<<m, r>>] = Kept(c, m, r) /\ g[<<l, m>>] = Kept(c, l, m)
      BY <3>2 DEF Spans
    <3> HIDE DEF g
    <3> QED BY <3>1, <3>3, <3>4, <3>5, <2>1, KeptMid
  <2> QED BY <2>2, <2>3
<1>3. Bisects(d, g)
  BY <1>2 DEF Bisects, Spans
<1> QED BY <1>3

\* Whatever it solves: of two neighbours that are below and not below 8 ns, or at the end,
\* the bisection returns one.
Sure(d, l, r) == /\ l \in Taps /\ r \in Taps /\ l <= r
                 /\ r - l = 0 => NumTaps = 1
                 /\ l > 0 => d[l] - d[0] < 1
                 /\ r < NumTaps - 1 => d[r] - d[0] >= 1

\* A bisection that starts from limits known to be right ends at the last tap below 8 ns.
LEMMA BisectionFinds ==
  ASSUME NEW d \in Delays, NEW f, Bisects(d, f), NEW l, NEW r, Sure(d, l, r)
  PROVE  LastBelow(d, f[<<l, r>>])
<1> DEFINE Bad(x, y) == Sure(d, x, y) /\ ~LastBelow(d, f[<<x, y>>])
           T == {w \in 0..NumTaps : \E x, y \in Taps : Bad(x, y) /\ w = y - x}
<1>0. NumTaps \in Nat /\ NumTaps > 0 /\ d \in [Taps -> Nat]
  BY BoardAssumption DEF Taps
<1>1. ASSUME NEW x \in Taps, NEW y \in Taps, Bad(x, y)
      PROVE  \E v, w \in Taps : Bad(v, w) /\ w - v < y - x
  <2>1. x \in Int /\ y \in Int /\ x <= y /\ Sure(d, x, y)
    BY <1>1 DEF Sure, Taps
  <2>2. f[<<x, y>>] = Halved(d, f, x, y)
    BY DEF Bisects, Spans
  <2>3. CASE y - x <= 1
    <3>1. f[<<x, y>>] = x
      BY <2>2, <2>3 DEF Halved
    <3>2. x < NumTaps - 2 => y = x + 1
      <4>1. y - x = 0 => NumTaps = 1
        BY <2>1 DEF Sure
      <4>2. x \in Int /\ y \in Int /\ x <= y /\ NumTaps \in Int /\ x >= 0
        BY <2>1, <1>0 DEF Taps
      <4>3. y = x \/ y = x + 1
        BY <4>2, <2>3
      <4>4. y = x => y - x = 0
        BY <4>2
      <4>5. NumTaps = 1 => ~(x < NumTaps - 2)
        BY <4>2
      <4> QED BY <4>1, <4>3, <4>4, <4>5
    <3>3. LastBelow(d, x)
      BY <2>1, <3>2, <1>0 DEF Sure, LastBelow
    <3> QED BY <1>1, <3>1, <3>3
  <2>4. CASE ~(y - x <= 1)
    <3> DEFINE m == (x + y) \div 2
    <3>1. m \in Int /\ x < m /\ m < y
      BY <2>1, <2>4, MidBetween
    <3> HIDE DEF m
    <3>2. m \in Taps
      BY <3>1, <2>1, <1>0 DEF Taps
    <3>3. f[<<x, y>>] = IF d[m] - d[0] < 1 THEN f[<<m, y>>] ELSE f[<<x, m>>]
      BY <2>2, <2>4 DEF Halved, m
    <3>4. d[m] \in Int /\ d[0] \in Int
      BY <3>2, <1>0 DEF Taps
    <3>5. CASE d[m] - d[0] < 1
      <4>1. Sure(d, m, y)
        BY <2>1, <3>1, <3>2, <3>5 DEF Sure
      <4> QED BY <4>1, <1>1, <2>1, <3>1, <3>2, <3>3, <3>5
    <3>6. CASE ~(d[m] - d[0] < 1)
      <4>1. Sure(d, x, m)
        BY <2>1, <3>1, <3>2, <3>4, <3>6 DEF Sure
      <4> QED BY <4>1, <1>1, <2>1, <3>1, <3>2, <3>3, <3>6
    <3> QED BY <3>5, <3>6
  <2> QED BY <2>3, <2>4
<1>2. ASSUME NEW x \in Taps, NEW y \in Taps, Bad(x, y) PROVE y - x \in T
  <2>1. x \in Int /\ y \in Int /\ 0 <= x /\ x <= y /\ y <= NumTaps
    BY <1>2, <1>0 DEF Sure, Taps
  <2>2. y - x \in 0..NumTaps
    BY <2>1, <1>0
  <2> QED BY <1>2, <2>2
<1>3. T = {}
  <2> SUFFICES ASSUME T # {} PROVE FALSE
    OBVIOUS
  <2>1. PICK w \in T : \A v \in T : w <= v
    <3>1. T \subseteq 0..NumTaps
      OBVIOUS
    <3> HIDE DEF T
    <3> QED BY <3>1, <1>0, Least
  <2>2. PICK x \in Taps, y \in Taps : Bad(x, y) /\ w = y - x
    BY <2>1
  <2>3. PICK p \in Taps, q \in Taps : Bad(p, q) /\ q - p < y - x
    BY <1>1, <2>2
  <2>4. q - p \in T
    BY <1>2, <2>3
  <2> QED BY <2>1, <2>2, <2>3, <2>4 DEF Taps
<1>4. l \in Taps /\ r \in Taps
  BY DEF Sure
<1> QED BY <1>2, <1>3, <1>4

\* fd_find_8ns_tap() finds the last tap below 8 ns.
LEMMA BisectedLastBelow == \A d \in Delays : LastBelow(d, Bisected(d))
<1> SUFFICES ASSUME NEW d \in Delays PROVE LastBelow(d, Bisected(d))
  OBVIOUS
<1> DEFINE f == CHOOSE h : Bisects(d, h)
<1>1. Bisects(d, f)
  BY BisectionEnds
<1>2. Bisected(d) = f[<<0, NumTaps - 1>>]
  BY BisectedEq
<1>3. Sure(d, 0, NumTaps - 1)
  BY BoardAssumption DEF Sure, Taps
<1> HIDE DEF f
<1> QED BY <1>1, <1>2, <1>3, BisectionFinds

\* The test of the bus finds a stuck address line, and the data lines that it uses.
LEMMA BusTested ==
  ASSUME NEW b, TestBus(b), hw[b].stuck \subseteq 0..3
  PROVE  hw[b].stuck = {} /\ hw[b].data # "tested"
<1> DEFINE stuck == hw[b].stuck
<1>1. ASSUME NEW bits, NEW i, <<bits, i>> \in TestedPairs PROVE i \notin stuck
  <2>1. bits \ stuck # (bits \cup {i}) \ stuck
    <3>1. Address(<<bits, i>>[1], stuck) # Address(<<bits, i>>[1] \cup {<<bits, i>>[2]}, stuck)
      BY <1>1 DEF TestBus
    <3> QED BY <3>1 DEF Address
  <2> QED BY <2>1
<1>2. /\ <<{}, 0>> \in TestedPairs /\ <<{0}, 1>> \in TestedPairs
      /\ <<{}, 2>> \in TestedPairs /\ <<{0, 1}, 3>> \in TestedPairs
  BY DEF TestedPairs
<1>3. 0 \notin stuck /\ 1 \notin stuck /\ 2 \notin stuck /\ 3 \notin stuck
  BY <1>1, <1>2
<1>4. \A i \in stuck : i = 0 \/ i = 1 \/ i = 2 \/ i = 3
  OBVIOUS
<1>5. stuck = {}
  BY <1>3, <1>4
<1> QED BY <1>5 DEF TestBus

\* What is found on a board stays, and its taps are set by one init.
LEMMA WhoEdge ==
  ASSUME [Next]_vars
  PROVE  /\ UNCHANGED hw
         /\ \/ \E b \in Boards : Probe(b)
            \/ \E b \in Boards, dead \in Transfers, delay \in Delays,
                  late \in {"no", "I", "G"} : InitAcam(b, dead, delay, late)
            \/ UNCHANGED edge
<1>1. UNCHANGED hw
  <2>1. CASE Load \/ Unload \/ UnregisterZio
    BY <2>1 DEF Load, Unload, UnregisterZio, static
  <2>2. ASSUME NEW b \in Boards, SetImage(b) \/ Create(b) \/ OpenFile(b) \/ Destroy(b)
        PROVE  UNCHANGED hw
    BY <2>2 DEF SetImage, Create, OpenFile, Destroy, static
  <2>3. CASE UNCHANGED <<module, static, sdb>>
    BY <2>3 DEF static
  <2> QED BY <2>1, <2>2, <2>3, WhoSdb
<1> DEFINE Same == UNCHANGED edge
<1>2. ASSUME Load \/ Unload \/ UnregisterZio PROVE Same
  BY <1>2 DEF Load, Unload, UnregisterZio, onewire
<1>3. ASSUME NEW b \in Boards,
             ProbeRefused(b) \/ CheckCalib(b) \/ ReadFile(b) \/ SetImage(b) \/ Create(b)
             \/ OpenFile(b) \/ Destroy(b) PROVE Same
  BY <1>3 DEF ProbeRefused, CheckCalib, ReadFile, SetImage, Create, OpenFile, Destroy, onewire
<1>4. ASSUME NEW b \in Boards, NEW late \in BOOLEAN, InitSimple(b, late) PROVE Same
  BY <1>4 DEF InitSimple, onewire
<1>5. ASSUME NEW b \in Boards, NEW dead \in Transfers, InitOnewire(b, dead) \/ TimerFires(b, dead)
      PROVE Same
  BY <1>5 DEF InitOnewire, TimerFires, onewire
<1>6. ASSUME NEW b \in Boards, NEW fails \in BOOLEAN,
             OutputRead(b) \/ UserRead(b) \/ UserWrite(b, fails) \/ OutputWrite(b, fails)
      PROVE Same
  BY <1>6 DEF OutputRead, UserRead, UserWrite, OutputWrite, onewire
<1>7. ASSUME NEW b \in Boards,
             InitIrq(b) \/ Interrupt(b) \/ Tasklet(b) \/ Remove(b) \/ Undo(b) PROVE Same
  BY <1>7 DEF InitIrq, Interrupt, Tasklet, Remove, Undo, onewire
<1>8. ASSUME UNCHANGED vars PROVE Same
  BY <1>8 DEF vars, onewire
<1> HIDE DEF Same
<1>9. \/ \E b \in Boards : Probe(b)
      \/ \E b \in Boards, dead \in Transfers, delay \in Delays, late \in {"no", "I", "G"} :
           InitAcam(b, dead, delay, late)
      \/ Same
  BY <1>2, <1>3, <1>4, <1>5, <1>6, <1>7, <1>8 DEF Next
<1> QED BY <1>1, <1>9 DEF Same

\* The hardware keeps its types.
LEMMA HwStep == HwTyped /\ [Next]_vars => HwTyped'
<1> SUFFICES ASSUME HwTyped, [Next]_vars PROVE HwTyped'
  OBVIOUS
<1>1. ASSUME NEW b \in Boards, Probe(b) PROVE DOMAIN edge' = DOMAIN edge
  BY <1>1 DEF Probe
<1>2. ASSUME NEW b \in Boards, NEW dead \in Transfers, NEW delay \in Delays,
             NEW late \in {"no", "I", "G"}, InitAcam(b, dead, delay, late)
      PROVE  DOMAIN edge' = DOMAIN edge
  BY <1>2 DEF InitAcam, onewire
<1>3. DOMAIN edge' = DOMAIN edge
  BY <1>1, <1>2, WhoEdge
<1> QED BY <1>3, WhoEdge DEF HwTyped

\* Every step keeps what is known of a board in line with its place.
LEMMA TestedStep ==
  Typed /\ HwTyped /\ (\A b \in Boards : Tested(b)) /\ [Next]_vars
    => \A b \in Boards : Tested(b)'
<1> SUFFICES ASSUME Typed, HwTyped, \A b \in Boards : Tested(b), [Next]_vars
             PROVE  \A b \in Boards : Tested(b)'
  OBVIOUS
<1> DEFINE All == \A b \in Boards : Tested(b)'
           At(b, p, n, r) == TestedAt(p, n, b, hw, edge[b], r)
<1>w. UNCHANGED hw
  BY WhoEdge
<1>0. ASSUME NEW b \in Boards, NEW p, NEW n, NEW r, TestedAt(p, n, b, hw, edge'[b], r),
             Goes(b, p), at' = [at EXCEPT ![b] = n], res' = [res EXCEPT ![b] = r],
             \A o \in Boards \ {b} : edge'[o] = edge[o]
      PROVE  All
  <2>1. Tested(b)'
    BY <1>0, <1>w DEF Goes, Tested, Typed, PlaceTyped, ResTyped
  <2>2. ASSUME NEW o \in Boards \ {b} PROVE Tested(o)'
    <3>1. /\ pc'[o] = pc[o] /\ at'[o] = at[o] /\ res'[o] = res[o] /\ edge'[o] = edge[o]
      BY <1>0 DEF Goes, Typed, PlaceTyped, ResTyped
    <3> QED BY <3>1, <1>w DEF Tested
  <2> QED BY <2>1, <2>2
<1>u. ASSUME NEW b \in Boards
      PROVE  /\ At(b, pc[b], at[b], res[b])
             /\ UNCHANGED pc => Goes(b, pc[b])
             /\ UNCHANGED at => at' = [at EXCEPT ![b] = at[b]]
             /\ UNCHANGED res => res' = [res EXCEPT ![b] = res[b]]
  BY DEF Goes, Tested, Typed, PlaceTyped, ResTyped
<1>e. ASSUME NEW b \in Boards, NEW p, NEW n, NEW r, At(b, p, n, r), UNCHANGED edge,
             Goes(b, p), at' = [at EXCEPT ![b] = n], res' = [res EXCEPT ![b] = r]
      PROVE  All
  BY <1>0, <1>e
<1>p. ASSUME NEW b \in Boards PROVE pc[b] # "absent" => b \in DOMAIN hw
  BY <1>u DEF TestedAt
<1>1. CASE UNCHANGED <<pc, at, res, edge>>
  BY <1>1, <1>w DEF Tested
<1>2. ASSUME NEW b \in Boards, \/ SetImage(b) \/ Create(b) \/ OpenFile(b) \/ ReadFile(b)
                               \/ Destroy(b) \/ ProbeRefused(b)
      PROVE All
  <2>1. PICK p \in Before \cup {"absent"} : Goes(b, p)
    BY <1>2 DEF SetImage, Create, OpenFile, ReadFile, Destroy, ProbeRefused, Before, ReadingEeprom
  <2>2. UNCHANGED <<at, res, edge>>
    BY <1>2 DEF SetImage, Create, OpenFile, ReadFile, Destroy, ProbeRefused, onewire
  <2>3. pc[b] # "absent"
    BY <1>2 DEF SetImage, Create, OpenFile, ReadFile, Destroy, ProbeRefused
  <2>4. At(b, p, at[b], res[b])
    BY <2>3, <1>p DEF TestedAt, Past, Before, ReadingEeprom, Late
  <2> QED BY <1>e, <1>u, <2>1, <2>2, <2>4
<1>3. ASSUME NEW b \in Boards, Probe(b) PROVE All
  <2>1. /\ Goes(b, "data") /\ at' = [at EXCEPT ![b] = 0] /\ UNCHANGED res
        /\ b \in DOMAIN hw /\ \A o \in Boards \ {b} : edge'[o] = edge[o]
    BY <1>3 DEF Probe, HwTyped
  <2>2. TestedAt("data", 0, b, hw, edge'[b], res[b])
    BY <2>1 DEF TestedAt, Past, Late
  <2> QED BY <1>0, <1>u, <2>1, <2>2
<1>4. ASSUME NEW b \in Boards, CheckCalib(b) PROVE All
  <2>1. UNCHANGED <<res, edge>> /\ b \in DOMAIN hw
    BY <1>4, <1>p DEF CheckCalib, onewire
  <2>2. At(b, "init", 1, res[b]) /\ At(b, "absent", at[b], res[b])
    BY <2>1 DEF TestedAt, Past, Late
  <2>3. \/ Goes(b, "init") /\ at' = [at EXCEPT ![b] = 1]
        \/ Goes(b, "absent") /\ UNCHANGED at
    BY <1>4 DEF CheckCalib
  <2> QED BY <1>e, <1>u, <2>1, <2>2, <2>3
<1>5. ASSUME NEW b \in Boards, NEW n, Undone(b, n), NEW r, res' = [res EXCEPT ![b] = r],
             pc[b] # "absent", \A o \in Boards \ {b} : edge'[o] = edge[o]
      PROVE All
  <2>1. PICK p \in {"absent", "undo"} : Goes(b, p) /\ at' = [at EXCEPT ![b] = n]
    BY <1>5 DEF Undone
  <2>2. TestedAt(p, n, b, hw, edge'[b], r)
    BY <1>5, <1>p DEF TestedAt, Past, Late
  <2> QED BY <1>0, <1>5, <2>1, <2>2
<1>6. ASSUME NEW b \in Boards, pc[b] = "init" PROVE at[b] \in 1..10
  BY <1>6 DEF Typed, PlaceTyped
\* The init of the subsystem where the probe is tells what the next one relies on.
<1>7. ASSUME NEW b \in Boards, pc[b] = "init", Advance(b), NEW r,
             res' = [res EXCEPT ![b] = r], \A o \in Boards \ {b} : edge'[o] = edge[o],
             at[b] = 3 => hw[b].pll, at[b] = 4 => hw[b].sensor, at[b] = 6 => hw[b].ddr,
             at[b] = 7 => /\ hw[b].acam /\ hw[b].stuck = {} /\ hw[b].data # "tested"
                          /\ edge'[b],
             at[b] # 7 => UNCHANGED edge
      PROVE  All
  <2>1. /\ b \in DOMAIN hw /\ at[b] \in 1..10
        /\ at[b] > 3 => hw[b].pll
        /\ at[b] > 4 => hw[b].sensor
        /\ at[b] > 6 => hw[b].ddr
        /\ at[b] > 7 => /\ hw[b].acam /\ hw[b].stuck = {} /\ hw[b].data # "tested"
                        /\ edge[b]
    BY <1>7, <1>u, <1>6 DEF TestedAt, Past
  <2>2. /\ at[b] >= 3 => hw[b].pll
        /\ at[b] >= 4 => hw[b].sensor
        /\ at[b] >= 6 => hw[b].ddr
        /\ at[b] >= 7 => /\ hw[b].acam /\ hw[b].stuck = {} /\ hw[b].data # "tested"
                         /\ edge'[b]
    BY <2>1, <1>7
  <2>3. CASE at[b] = 10
    <3>1. TestedAt("irq", 10, b, hw, edge'[b], r)
      BY <2>1, <2>2, <2>3 DEF TestedAt, Past, Late
    <3>2. Goes(b, "irq") /\ UNCHANGED at
      BY <2>3, <1>7, ModsFacts DEF Advance
    <3>3. at' = [at EXCEPT ![b] = 10]
      BY <2>3, <3>2, <1>u
    <3> QED BY <1>0, <1>7, <3>1, <3>2, <3>3
  <2>4. CASE at[b] # 10
    <3>1. TestedAt("init", at[b] + 1, b, hw, edge'[b], r)
      BY <2>1, <2>2 DEF TestedAt, Past, Late
    <3>2. Goes(b, "init") /\ at' = [at EXCEPT ![b] = at[b] + 1]
      <4>1. UNCHANGED pc /\ at' = [at EXCEPT ![b] = at[b] + 1]
        BY <2>4, <1>7, ModsFacts DEF Advance
      <4> QED BY <4>1, <1>7, <1>u DEF Goes
    <3> QED BY <1>0, <1>7, <3>1, <3>2
  <2> QED BY <2>3, <2>4
<1>8. ASSUME NEW b \in Boards, NEW late \in BOOLEAN, InitSimple(b, late) PROVE All
  <2>1. /\ pc[b] = "init" /\ UNCHANGED edge /\ Mods[at[b]] \in Simple
        /\ at[b] \in 1..10
    BY <1>8, <1>6 DEF InitSimple, onewire
  <2>2. CASE ~Works(b, late)
    BY <2>1, <2>2, <1>5, <1>8, <1>u DEF InitSimple
  <2>3. CASE Works(b, late)
    <3>1. at[b] # 4 /\ at[b] # 7
      BY <2>1, ModsFacts DEF Simple
    <3>2. ASSUME at[b] = 3 PROVE hw[b].pll
      <4>1. PllLocks(b, late)
        BY <2>3, <3>2 DEF Works, Mods
      <4>2. RegCount % 2 # 1
        BY BoardAssumption
      <4> QED BY <4>1, <4>2 DEF PllLocks, TableEnd
    <3>3. ASSUME at[b] = 6 PROVE hw[b].ddr
      BY <2>3, <3>3 DEF Works, Mods
    <3>4. Advance(b) /\ \E r : res' = [res EXCEPT ![b] = r]
      BY <2>3, <1>8, <1>u DEF InitSimple
    <3> QED BY <2>1, <3>1, <3>2, <3>3, <3>4, <1>7
  <2> QED BY <2>2, <2>3
<1>9. ASSUME NEW b \in Boards, NEW dead \in Transfers, InitOnewire(b, dead) PROVE All
  <2>1. pc[b] = "init" /\ UNCHANGED <<res, edge>> /\ at[b] = 4
    BY <1>9, <1>6, ModsFacts DEF InitOnewire, onewire
  <2>2. Undone(b, UndoFrom(at[b])) \/ (hw[b].sensor /\ Advance(b))
    BY <1>9 DEF InitOnewire
  <2> QED BY <2>1, <2>2, <1>5, <1>7, <1>u
<1>10. ASSUME NEW b \in Boards, NEW dead \in Transfers, NEW delay \in Delays,
              NEW late \in {"no", "I", "G"}, InitAcam(b, dead, delay, late)
       PROVE  All
  <2>1. pc[b] = "init" /\ at[b] = 7 /\ b \in DOMAIN hw
    BY <1>10, <1>6, <1>p, ModsFacts DEF InitAcam
  <2>2. \E r : res' = [res EXCEPT ![b] = r]
    BY <1>10, <1>u DEF InitAcam
  <2>3. \A o \in Boards \ {b} : edge'[o] = edge[o]
    BY <1>10 DEF InitAcam, onewire, HwTyped
  <2>4. CASE Undone(b, UndoFrom(at[b]))
    BY <2>1, <2>2, <2>3, <2>4, <1>5
  <2>5. CASE ~Undone(b, UndoFrom(at[b]))
    <3>1. /\ TestBus(b) /\ hw[b].acam /\ Advance(b)
          /\ edge' = [edge EXCEPT ![b] = LastBelow(delay, Bisected(delay))]
      BY <2>5, <1>10 DEF InitAcam
    <3>2. edge'[b]
      BY <3>1, BisectedLastBelow DEF HwTyped
    <3>3. hw[b].stuck = {} /\ hw[b].data # "tested"
      BY <2>1, <3>1, BusTested DEF HwTyped
    <3>4. /\ at[b] = 3 => hw[b].pll
          /\ at[b] = 4 => hw[b].sensor
          /\ at[b] = 6 => hw[b].ddr
          /\ at[b] # 7 => UNCHANGED edge
      BY <2>1
    <3>5. at[b] = 7 => hw[b].acam /\ hw[b].stuck = {} /\ hw[b].data # "tested" /\ edge'[b]
      BY <3>1, <3>2, <3>3
    <3>6. pc[b] = "init" /\ Advance(b)
      BY <2>1, <3>1
    <3> HIDE DEF All
    <3> QED BY <2>2, <2>3, <3>4, <3>5, <3>6, <1>7, Zenon
  <2> QED BY <2>4, <2>5
<1>11. ASSUME NEW b \in Boards, InitIrq(b) PROVE All
  <2>1. pc[b] = "irq" /\ UNCHANGED edge
    BY <1>11 DEF InitIrq, onewire
  <2>2. CASE ~param.fifo
    BY <2>1, <2>2, <1>5, <1>11, <1>u DEF InitIrq
  <2>3. CASE param.fifo
    <3> DEFINE r == res[b] \cup {"fifo"} \cup IF param.polled THEN {"fifo_timer"}
                                             ELSE IF hw[b].irq THEN {"irq"} ELSE {}
    <3>1. /\ res' = [res EXCEPT ![b] = r]
          /\ Goes(b, "outputs") /\ at' = [at EXCEPT ![b] = 1]
      BY <2>3, <1>11 DEF InitIrq
    <3>2. hw[b].irq => r \cap {"irq", "fifo_timer"} # {}
      OBVIOUS
    <3> HIDE DEF r
    <3>3. At(b, "outputs", 1, r)
      BY <2>1, <3>2, <1>u DEF TestedAt, Past, Late
    <3> QED BY <1>e, <2>1, <3>1, <3>3
  <2> QED BY <2>2, <2>3
<1>12. ASSUME NEW b \in Boards, NEW fails \in BOOLEAN, OutputWrite(b, fails) PROVE All
  <2>1. pc[b] = "outputs" /\ UNCHANGED <<res, edge>>
    BY <1>12 DEF OutputWrite, onewire
  <2>2. PICK p, n : p \in {"up", "outputs"} /\ Goes(b, p) /\ at' = [at EXCEPT ![b] = n]
    BY <1>12, <1>u DEF OutputWrite
  <2>3. At(b, p, n, res[b])
    BY <2>1, <2>2, <1>u DEF TestedAt, Past, Late
  <2> QED BY <1>e, <1>u, <2>1, <2>2, <2>3
<1>13. ASSUME NEW b \in Boards, Interrupt(b) \/ Tasklet(b) PROVE All
  <2>1. UNCHANGED <<pc, at, edge>>
    BY <1>13 DEF Interrupt, Tasklet, place, onewire
  <2>2. PICK r : /\ res' = [res EXCEPT ![b] = r]
                 /\ res[b] \cap {"irq", "fifo_timer"} \subseteq r
    <3>1. \/ res' = [res EXCEPT ![b] = res[b] \cup {"tasklet"}]
          \/ res' = [res EXCEPT ![b] = res[b] \ {"tasklet"}]
      BY <1>13 DEF Interrupt, Tasklet
    <3> QED BY <3>1
  <2>3. At(b, pc[b], at[b], r)
    BY <2>2, <1>u DEF TestedAt
  <2> QED BY <1>e, <1>u, <2>1, <2>2, <2>3
<1>14. ASSUME NEW b \in Boards, Remove(b) \/ Undo(b) PROVE All
  <2>1. pc[b] # "absent" /\ UNCHANGED edge /\ \E n : Undone(b, n)
    BY <1>14 DEF Remove, Undo, onewire
  <2>2. \E r : res' = [res EXCEPT ![b] = r]
    BY <1>14 DEF Remove, Undo
  <2> QED BY <2>1, <2>2, <1>5
<1> HIDE DEF All
<1> QED
  BY <1>1, <1>2, <1>3, <1>4, <1>8, <1>9, <1>10, <1>11, <1>12, <1>13, <1>14,
     WhoPlace, WhoEdge DEF All

\* What there is to excuse is forgotten only when a board is probed again.
LEMMA ExcusedGrows ==
  ASSUME ExcuseTyped, [Next]_vars, NEW o \in Boards, ~Probe(o)
  PROVE  excused[o] \subseteq excused'[o]
<1> DEFINE Grows == excused[o] \subseteq excused'[o]
<1>1. ASSUME NEW b \in Boards, NEW what, NEW is, Excuse(b, what, is) PROVE Grows
  BY <1>1 DEF Excuse, ExcuseTyped
<1>2. ASSUME NEW b \in Boards, Probe(b) PROVE Grows
  BY <1>2 DEF Probe, ExcuseTyped
<1>3. ASSUME NEW b \in Boards, SetImage(b) PROVE Grows
  BY <1>3 DEF SetImage, ExcuseTyped
<1>4. ASSUME NEW b \in Boards, NEW dead \in Transfers,
             InitOnewire(b, dead) \/ TimerFires(b, dead)
      PROVE  Grows
  BY <1>4, <1>1 DEF InitOnewire, TimerFires
<1>5. ASSUME NEW b \in Boards, NEW dead \in Transfers, NEW delay \in Delays,
             NEW late \in {"no", "I", "G"}, InitAcam(b, dead, delay, late)
      PROVE  Grows
  BY <1>5, <1>1 DEF InitAcam
<1>6. ASSUME NEW b \in Boards, NEW fails \in BOOLEAN,
             \/ OutputRead(b) \/ UserRead(b) \/ UserWrite(b, fails) \/ OutputWrite(b, fails)
      PROVE  Grows
  BY <1>6, <1>1 DEF OutputRead, UserRead, UserWrite, OutputWrite, ReadLatch, WriteLatch
<1>7. CASE UNCHANGED excused
  BY <1>7
<1> HIDE DEF Grows
<1> QED BY <1>2, <1>3, <1>4, <1>5, <1>6, <1>7, WhoExcused DEF Grows

\* A reading whose transfers are all answered gives a converted temperature: the wait is long
\* enough for the conversion that was begun.
LEMMA ReadConverts ==
  ASSUME TempTyped, StartTyped, NEW b \in Boards, ReadTemp(b, {}),
         started[b] => sensor[b].converting
  PROVE  temp'[b] = "converted" /\ sensor'[b].converting
<1> DEFINE S == [scratch : {"power-on", "converted"}, converting : BOOLEAN]
           first == IF started[b] THEN sensor[b]
                    ELSE Command(sensor[b], FirstConfig, "first" \notin {})
           ready == Converted(first)
           next  == Command(ready, Resolution, "command" \notin {})
<1>1. Resolution \in 0..3
  BY BoardAssumption
<1>2. LongEnough(FirstConfig) = TRUE /\ LongEnough(Resolution) = TRUE
  BY <1>1 DEF LongEnough, FirstConfig
<1>3. sensor[b] \in S
  BY DEF TempTyped
<1>4. ASSUME NEW s \in S, NEW cfg, LongEnough(cfg) = TRUE
      PROVE  /\ Command(s, cfg, "first" \notin {}).converting
             /\ Command(s, cfg, "command" \notin {}).converting
  BY <1>4 DEF Command
<1>5. first.converting
  BY <1>2, <1>3, <1>4
<1>6. ready = [scratch |-> "converted", converting |-> FALSE]
  <2> HIDE DEF first
  <2> QED BY <1>5 DEF Converted
<1> HIDE DEF ready
<1>7. ready \in S /\ ready.scratch = "converted"
  BY <1>6
<1>8. next.converting
  BY <1>2, <1>4, <1>7
<1>9. temp' = [temp EXCEPT ![b] = ready.scratch] /\ sensor' = [sensor EXCEPT ![b] = next]
  BY DEF ReadTemp, ready
<1> HIDE DEF next
<1> QED BY <1>7, <1>8, <1>9 DEF TempTyped

\* A reading concerns one board, which has then been read once.
LEMMA ReadAlone ==
  ASSUME TempTyped, StartTyped, NEW b \in Boards, NEW dead, ReadTemp(b, dead)
  PROVE  /\ StartTyped'
         /\ \A o \in Boards \ {b} : /\ temp'[o] = temp[o] /\ sensor'[o] = sensor[o]
                                    /\ started'[o] = started[o]
<1>1. \E t, s, n : /\ temp' = [temp EXCEPT ![b] = t] /\ sensor' = [sensor EXCEPT ![b] = s]
                   /\ started' = [started EXCEPT ![b] = TRUE]
  BY DEF ReadTemp
<1> QED BY <1>1 DEF TempTyped, StartTyped

\* Every step keeps temperatures converted and conversions under way.
LEMMA WarmStep ==
  TempTyped /\ ExcuseTyped /\ StartTyped /\ (\A b \in Boards : Warm(b)) /\ [Next]_vars
    => StartTyped' /\ \A b \in Boards : Warm(b)'
<1> SUFFICES ASSUME TempTyped, ExcuseTyped, StartTyped, \A b \in Boards : Warm(b), [Next]_vars
             PROVE  StartTyped' /\ \A b \in Boards : Warm(b)'
  OBVIOUS
<1> DEFINE All == StartTyped' /\ \A b \in Boards : Warm(b)'
<1>1. ASSUME NEW o \in Boards, temp'[o] = temp[o], sensor'[o] = sensor[o],
             started'[o] = started[o], ~Probe(o)
      PROVE  Warm(o)'
  <2>1. Warm(o) /\ excused[o] \subseteq excused'[o]
    BY <1>1, ExcusedGrows
  <2> QED BY <1>1, <2>1 DEF Warm, WarmAt
<1>2. ASSUME NEW b \in Boards, Probe(b) PROVE All
  <2>1. /\ temp' = [temp EXCEPT ![b] = "none"] /\ started' = [started EXCEPT ![b] = FALSE]
        /\ sensor' = [sensor EXCEPT ![b] = Sensor] /\ excused' = [excused EXCEPT ![b] = {}]
    BY <1>2 DEF Probe
  <2>2. temp'[b] = "none" /\ started'[b] = FALSE /\ StartTyped'
    BY <2>1 DEF TempTyped, StartTyped
  <2>3. Warm(b)'
    BY <2>2 DEF Warm, WarmAt
  <2>4. ASSUME NEW o \in Boards \ {b} PROVE Warm(o)'
    <3>1. /\ temp'[o] = temp[o] /\ sensor'[o] = sensor[o] /\ started'[o] = started[o]
          /\ excused'[o] = excused[o]
      BY <2>1 DEF TempTyped, StartTyped, ExcuseTyped
    <3> QED BY <3>1 DEF Warm
  <2> QED BY <2>2, <2>3, <2>4
<1>3. ASSUME \A b \in Boards : ~Probe(b), UNCHANGED <<temp, sensor, started>> PROVE All
  BY <1>1, <1>3 DEF StartTyped
<1>4. ASSUME \A b \in Boards : ~Probe(b), NEW b \in Boards, NEW dead, ReadTemp(b, dead),
             Excuse(b, "onewire", dead # {})
      PROVE  All
  <2>1. ASSUME NEW o \in Boards \ {b} PROVE Warm(o)'
    BY <1>1, <1>4, ReadAlone
  <2>2. CASE dead = {}
    <3>1. CASE "onewire" \in excused[b]
      <4>1. "onewire" \in excused'[b]
        BY <1>4, <3>1, ExcusedGrows
      <4> QED BY <1>4, <2>1, <4>1, ReadAlone DEF Warm, WarmAt
    <3>2. CASE "onewire" \notin excused[b]
      <4>1. started[b] => sensor[b].converting
        BY <3>2 DEF Warm, WarmAt
      <4>2. temp'[b] = "converted" /\ sensor'[b].converting
        BY <1>4, <2>2, <4>1, ReadConverts
      <4> QED BY <1>4, <2>1, <4>2, ReadAlone DEF Warm, WarmAt
    <3> QED BY <3>1, <3>2
  <2>3. CASE dead # {}
    <3>1. "onewire" \in excused'[b]
      BY <1>4, <2>3 DEF Excuse, ExcuseTyped
    <3> QED BY <1>4, <2>1, <3>1, ReadAlone DEF Warm, WarmAt
  <2> QED BY <2>2, <2>3
<1>5. ASSUME \A b \in Boards : ~Probe(b), NEW b \in Boards, NEW dead \in Transfers,
             InitOnewire(b, dead) \/ TimerFires(b, dead)
      PROVE  All
  <2>1. \/ UNCHANGED <<temp, sensor, started>>
        \/ ReadTemp(b, dead) /\ Excuse(b, "onewire", dead # {})
    BY <1>5 DEF InitOnewire, TimerFires, onewire
  <2> QED BY <2>1, <1>3, <1>4, <1>5
<1>6. ASSUME \A b \in Boards : ~Probe(b), NEW b \in Boards, NEW dead \in Transfers,
             NEW delay \in Delays, NEW late \in {"no", "I", "G"},
             InitAcam(b, dead, delay, late)
      PROVE  All
  <2>1. \/ UNCHANGED <<temp, sensor, started>>
        \/ ReadTemp(b, dead) /\ Excuse(b, "onewire", dead # {})
    BY <1>6 DEF InitAcam, onewire
  <2> QED BY <2>1, <1>3, <1>4, <1>6
<1> HIDE DEF All
<1> QED BY <1>2, <1>3, <1>5, <1>6, WhoTemp DEF All

\* The invariant holds at first.
LEMMA InitIInv == Init => IInv
<1> SUFFICES ASSUME Init PROVE IInv
  OBVIOUS
<1>1. Typed
  BY InitTyped
<1>2. ASSUME NEW b \in Boards PROVE pc[b] = "absent" /\ res[b] = {}
  BY DEF Init
<1>3. NoBoards
  BY <1>2 DEF NoBoards
<1>4. Listed
  BY <1>2 DEF Init, Listed, Reads, ReadingEeprom
<1>5. ASSUME NEW b \in Boards PROVE Holds(b)
  BY <1>2 DEF Holds, HoldsAt, Before, ReadingEeprom
<1>6. ASSUME NEW b \in Boards PROVE Latched(b) /\ Read(b)
  BY <1>2 DEF Latched, LatchedAt, Read, ReadAt, Before, ReadingEeprom, Late
<1>7. HwTyped
  <2>1. PICK s \in Sites : hw = [b \in s.plugged |-> s.hw[b]]
    BY DEF Init
  <2>2. /\ s.plugged \subseteq Boards
        /\ s.hw \in [Boards -> [pll : BOOLEAN, ddr : BOOLEAN, acam : BOOLEAN, irq : BOOLEAN,
                                sensor : BOOLEAN, stuck : SUBSET (0..3),
                                data : {"good", "tested", "other"}]]
    BY BoardAssumption
  <2>3. \A b \in s.plugged : s.hw[b].stuck \subseteq 0..3
    BY <2>2
  <2> QED BY <2>1, <2>3 DEF Init, HwTyped
<1>8. ASSUME NEW b \in Boards PROVE Tested(b)
  BY <1>2 DEF Tested, TestedAt, Past, Late
<1>9. StartTyped /\ \A b \in Boards : Warm(b)
  BY DEF Init, StartTyped, Warm, WarmAt
<1> QED BY <1>1, <1>3, <1>4, <1>5, <1>6, <1>7, <1>8, <1>9 DEF IInv

\* The invariant is inductive.
LEMMA IInvStep == IInv /\ [Next]_vars => IInv'
BY TypedStep, HoldsStep, LatchedStep, ReadStep, NoBoardsStep, ListedStep, HwStep,
   TestedStep, WarmStep DEF IInv, Typed

\* The invariant holds always.
LEMMA Inductive == Spec => []IInv
BY InitIInv, IInvStep, PTL DEF Spec

\* Type correctness of the life of the boards.
THEOREM BoardTyped == Spec => []TypeOK
<1>1. IInv => TypeOK
  BY TypedIsTypeOK DEF IInv
<1> QED BY <1>1, Inductive, PTL

\* However a probe fails or a board is removed, and at whatever subsystem, no timer, interrupt
\* or device is left, and nothing runs on a fifo that was freed.
THEOREM NothingLeftHolds == Spec => []NothingLeft
<1>1. IInv => NothingLeft
  <2> SUFFICES ASSUME IInv, NEW b \in Boards
               PROVE  /\ pc[b] = "absent" => res[b] \subseteq {"tasklet"}
                      /\ res[b] \cap {"irq", "fifo_timer"} # {}
                            => "fifo" \in res[b] /\ pc[b] # "undo"
    BY DEF NothingLeft
  <2>1. HoldsAt(pc[b], at[b], res[b])
    BY DEF IInv, Holds
  <2>2. \/ pc[b] \in Before \cup {"outputs", "up"}
        \/ pc[b] = "absent" \/ pc[b] = "init" \/ pc[b] = "irq" \/ pc[b] = "undo"
    BY DEF IInv, Typed, PlaceTyped, Before
  <2>3. ASSUME NEW n
        PROVE  /\ {"irq", "fifo_timer"} \cap (IF n > 7 THEN {"temp_timer"} ELSE {}) = {}
               /\ {"irq", "fifo_timer"} \cap (IF n >= 7 THEN {"temp_timer"} ELSE {}) = {}
               /\ {"irq", "fifo_timer"} \cap (IF n = 10 THEN {"zio"} ELSE {}) = {}
    OBVIOUS
  <2>4. CASE pc[b] \in {"outputs", "up"}
    BY <2>1, <2>4 DEF HoldsAt
  <2>5. CASE pc[b] \in Before \cup {"absent"}
    BY <2>1, <2>5 DEF HoldsAt, Before, ReadingEeprom
  <2>6. CASE pc[b] \in {"init", "irq"}
    BY <2>1, <2>3, <2>6 DEF HoldsAt
  <2>7. CASE pc[b] = "undo"
    BY <2>1, <2>3, <2>7 DEF HoldsAt
  <2> QED BY <2>2, <2>4, <2>5, <2>6, <2>7
<1> QED BY <1>1, Inductive, PTL

\* The expander of a board that is up shows what the probe and the user asked for, if no two
\* writes overlapped and every transfer ended.
THEOREM PinsHold == Spec => []PinsAsAsked
<1>1. IInv => PinsAsAsked
  <2> SUFFICES ASSUME IInv, NEW b \in Boards, pc[b] = "up", reg[b] = NoRegs, Fine(b)
               PROVE  pins[b] = Outputs \cup (IF want[b] THEN {Term} ELSE {})
    BY DEF PinsAsAsked, Fine
  <2>1. /\ olat[b] = pins[b] /\ Outputs \subseteq olat[b]
        /\ Term \in olat[b] <=> want[b]
    BY DEF IInv, Latched, LatchedAt, Late, Enabled, NoRegs
  <2>2. olat[b] \subseteq Outputs \cup {Term}
    BY DEF IInv, Typed, PinsTyped, Pins
  <2> QED BY <2>1, <2>2
<1> QED BY <1>1, Inductive, PTL

\* A board works with its own calibration, or with what was asked for in its place, whoever
\* else was probed before it; the shared structure leaves the list with its reader.
THEOREM CalibrationHolds == Spec => []OwnCalibration
<1>1. IInv => OwnCalibration
  <2> SUFFICES ASSUME IInv PROVE OwnCalibration
    OBVIOUS
  <2>1. ASSUME NEW b \in Boards, InUse(b), "overlap" \notin excused[b]
        PROVE  \/ calib[b].from = b /\ (calib[b].what = "good" \/ param.load = "missing")
               \/ calib[b] = [from |-> "default", what |-> "good"] /\ param.default
               \/ calib[b] = [from |-> "file", what |-> "good"] /\ param.load = "file"
    BY <2>1 DEF IInv, Read, ReadAt, InUse, Late
  <2>2. list # "empty" /\ ~dropped => \E b \in Boards : pc[b] \in ReadingEeprom
    BY DEF IInv, Listed, Reads
  <2> QED BY <2>1, <2>2 DEF OwnCalibration
<1> QED BY <1>1, Inductive, PTL

\* Every board that comes up has passed the tests that its inits mean to make, whatever the
\* clock does; its delay lines are at the last tap below 8 ns, and its input is served.
THEOREM UpHolds == Spec => []UpMeansTested
<1>1. IInv => UpMeansTested
  <2> SUFFICES ASSUME IInv, NEW b \in Boards, pc[b] \in {"outputs", "up"}
               PROVE  /\ hw[b].pll /\ hw[b].ddr /\ hw[b].acam /\ hw[b].sensor
                      /\ hw[b].stuck = {} /\ hw[b].data # "tested" /\ edge[b]
                      /\ "fifo" \in res[b]
                      /\ hw[b].irq => res[b] \cap {"irq", "fifo_timer"} # {}
    BY DEF UpMeansTested
  <2>1. "fifo" \in res[b]
    BY DEF IInv, Holds, HoldsAt
  <2>2. TestedAt(pc[b], at[b], b, hw, edge[b], res[b]) /\ pc[b] \in Late
    BY DEF IInv, Tested, Late
  <2> QED BY <2>1, <2>2 DEF TestedAt, Past
<1> QED BY <1>1, Inductive, PTL

\* The first half of TempConverted: every temperature the driver has was converted, unless the
\* one-wire bus failed.
THEOREM ConvertedHolds ==
  Spec => \A b \in Boards : [](temp[b] \in {"none", "converted"} \/ "onewire" \in excused[b])
<1>1. ASSUME NEW b \in Boards
      PROVE  Spec => [](temp[b] \in {"none", "converted"} \/ "onewire" \in excused[b])
  <2>1. IInv => temp[b] \in {"none", "converted"} \/ "onewire" \in excused[b]
    BY DEF IInv, Warm, WarmAt
  <2> QED BY <2>1, Inductive, PTL
<1> QED BY <1>1

=============================================================================
