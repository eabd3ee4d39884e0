--------------------------- MODULE FdInput_proofs ---------------------------
(***************************************************************************)
(* Theorems about the input path, for every number of processes and every  *)
(* size of the fifos, the buffer and the blocks.                           *)
(***************************************************************************)
EXTENDS FdInput, SequenceTheorems, TLAPS

----------------------------------------------------------------------------
(* Arithmetic of the circular buffer.                                      *)

\* An index taken modulo the length is a slot.
LEMMA SlotInRange ==
  ASSUME NEW k \in Nat
  PROVE  k % FifoLen \in 0..FifoLen-1
BY FifoLenAssumption

\* Two indexes of one window of FifoLen samples never share a slot.
LEMMA SlotsDistinct ==
  ASSUME NEW i \in Nat, NEW j \in Nat, i < j, j - i < FifoLen
  PROVE  i % FifoLen # j % FifoLen
<1> DEFINE L == FifoLen
           qi == i \div L   qj == j \div L
<1>1. L \in Nat /\ L > 0
  BY FifoLenAssumption
<1>2. i = L * qi + (i % L) /\ j = L * qj + (j % L) /\ qi \in Int /\ qj \in Int
  BY <1>1
<1>3. SUFFICES ASSUME i % L = j % L PROVE FALSE
  OBVIOUS
<1>4. j - i = L * (qj - qi)
  BY <1>1, <1>2, <1>3
<1>5. qj - qi > 0
  BY <1>1, <1>2, <1>4
<1>6. L * (qj - qi) >= L
  BY <1>1, <1>2, <1>5
<1>7. QED
  BY <1>1, <1>4, <1>6

----------------------------------------------------------------------------
(* Type correctness.                                                       *)

\* The slot the tail points to holds a sample.
LEMMA SlotType ==
  ASSUME TypeOK
  PROVE  Slot \in Samples
BY SlotInRange DEF TypeOK, Slot

\* Whatever the fetch registers hold is a sample.
LEMMA FetchedType ==
  ASSUME TypeOK
  PROVE  Fetched \subseteq Samples
BY BoundsAssumption DEF TypeOK, Fetched, Samples

\* No label is missing, and a context moves between labels.
LEMMA GotoType ==
  ASSUME TypeOK, NEW c \in Contexts, NEW l \in Labels, Goto(c, l)
  PROVE  pc' \in [Contexts -> Labels]
BY DEF TypeOK, Goto

\* Arming the trigger keeps every variable in its type.
LEMMA TypeArm ==
  ASSUME TypeOK, NEW c \in Contexts, ArmTrigger(c)
  PROVE  TypeOK'
<1>1. pc' \in [Contexts -> Labels]
  BY GotoType DEF ArmTrigger, Labels, Serving
<1>2. armed' \in BOOLEAN /\ hasBlock' \in BOOLEAN
  <2>1. CASE armed
    BY <2>1, Zenon DEF ArmTrigger, TypeOK
  <2>2. CASE ~armed
    <3>1. (Len(zbuf) < BufLen) \in BOOLEAN
      OBVIOUS
    <3>2. armed' = TRUE /\ hasBlock' = (Len(zbuf) < BufLen)
      BY <2>2, Zenon DEF ArmTrigger
    <3>3. QED
      BY <3>1, <3>2, Zenon
  <2>3. QED
    BY <2>1, <2>2, Zenon
<1>3. QED
  BY <1>1, <1>2 DEF ArmTrigger, TypeOK, modeVars, hwVars, ringVars, flagVars

\* The steps of one context keep every variable in its type.
LEMMA TypeServe ==
  ASSUME TypeOK, NEW c \in Consumers, Serve(c)
  PROVE  TypeOK'
<1> USE DEF modeVars, hwVars, ringVars, flagVars, zioVars, Labels, Serving
<1>0. c \in Contexts /\ Slot \in Samples
  BY SlotType DEF Consumers, Contexts
<1>1. CASE Enter(c)
  <2>1. pc' \in [Contexts -> Labels]
    BY <1>0, <1>1, GotoType DEF Enter
  <2>2. hw' \in Seq(Samples) /\ tsEnable' \in BOOLEAN
    <3>1. \/ hw' = hw /\ tsEnable' = tsEnable
          \/ hw' = <<>> /\ tsEnable' = TRUE
      BY <1>1 DEF Enter
    <3>2. <<>> \in Seq(Samples)
      OBVIOUS
    <3>3. QED
      BY <3>1, <3>2, Zenon DEF TypeOK
  <2>3. caller' \in {"fd_tlet", "fd_zio_input"}
    BY <1>1 DEF Enter, TypeOK
  <2>4. QED
    BY <1>1, <2>1, <2>2, <2>3 DEF Enter, TypeOK
<1>2. CASE Check(c)
  BY <1>0, <1>2, GotoType DEF Check, TypeOK
<1>3. CASE Take(c)
  BY <1>0, <1>3, GotoType DEF Take, TypeOK
<1>4. CASE Fill(c)
  <2>1. cur[c] \in Samples /\ 1 <= NSamples
    BY BoundsAssumption DEF TypeOK
  <2>2. data' \in Seq(Samples) /\ Len(data') <= NSamples
    <3>1. <<cur[c]>> \in Seq(Samples) /\ Len(<<cur[c]>>) = 1
      BY <2>1
    <3>2. data' = <<cur[c]>> \/ data' = data
      BY <1>4 DEF Fill, Sample
    <3>3. QED
      BY <2>1, <3>1, <3>2, BoundsAssumption DEF TypeOK
  <2>3. pc' \in [Contexts -> Labels]
    BY <1>0, <1>4, GotoType DEF Fill, ReadReturns
  <2>4. QED
    BY <1>4, <2>1, <2>2, <2>3 DEF Fill, Sample, TypeOK
<1>5. CASE More(c)
  <2>1. data' \in Seq(Samples) /\ Len(data') <= NSamples
    <3>1. CASE RoomInBlock /\ ~SwFifoEmpty
      <4>1. data' = Append(data, Slot)
        BY <1>5, <3>1 DEF More
      <4>2. Len(data) < NSamples /\ data \in Seq(Samples)
        BY <3>1 DEF RoomInBlock, TypeOK
      <4>3. QED
        BY <1>0, <4>1, <4>2, BoundsAssumption
    <3>2. CASE ~(RoomInBlock /\ ~SwFifoEmpty)
      BY <1>5, <3>2 DEF More, TypeOK
    <3>3. QED
      BY <3>1, <3>2
  <2>2. pc' \in [Contexts -> Labels]
    BY <1>0, <1>5, GotoType DEF More, ReadReturns, TypeOK
  <2>3. out' \in Seq(Samples) /\ tail' \in Nat
    <3>1. \/ out' = Append(out, Slot) /\ tail' = tail + 1
          \/ out' = out /\ tail' = tail
      BY <1>5, Zenon DEF More
    <3>2. out \in Seq(Samples) /\ tail \in Nat
      BY DEF TypeOK
    <3>3. Append(out, Slot) \in Seq(Samples) /\ tail + 1 \in Nat
      BY <1>0, <3>2, AppendProperties
    <3>4. QED
      BY <3>1, <3>2, <3>3, Zenon
  <2>4. QED
    BY <1>5, <2>1, <2>2, <2>3 DEF More, TypeOK
<1>6. CASE Mark(c)
  BY <1>0, <1>6, GotoType DEF Mark, TypeOK
<1>7. CASE DataDone(c)
  <2>1. data' \in Seq(Samples) /\ Len(data') <= NSamples
    BY <1>7, BoundsAssumption DEF DataDone
  <2>2. zbuf' \in Seq([attrs : Samples, data : Seq(Samples)])
    <3> DEFINE B == [attrs : Samples, data : Seq(Samples)]
               b == [attrs |-> attrs, data |-> data]
    <3>1. b \in B /\ zbuf \in Seq(B)
      BY DEF TypeOK
    <3>2. zbuf' = zbuf \/ zbuf' = Append(zbuf, b)
      BY <1>7, Zenon DEF DataDone
    <3> HIDE DEF B, b
    <3>3. Append(zbuf, b) \in Seq(B)
      BY <3>1, AppendProperties
    <3>4. QED
      BY <3>1, <3>2, <3>3, Zenon DEF B
  <2>3. PICK label \in {"rearm", "idle"} : Goto(c, label)
    BY <1>7 DEF DataDone, AfterDone
  <2>4. pc' \in [Contexts -> Labels]
    BY <1>0, <2>3, GotoType DEF Labels
  <2>5. QED
    BY <1>0, <1>7, <2>1, <2>2, <2>4 DEF DataDone, TypeOK
<1>8. CASE Rearm(c)
  BY <1>0, <1>8, TypeArm DEF Rearm
<1>9. QED
  BY <1>1, <1>2, <1>3, <1>4, <1>5, <1>6, <1>7, <1>8 DEF Serve

\* Emptying the hardware fifo keeps every variable in its type.
LEMMA TypeReadHw ==
  ASSUME TypeOK, NEW c \in {"irq", "tlet"}, ReadHw(c)
  PROVE  TypeOK'
<1> USE DEF modeVars, hwVars, ringVars, flagVars, zioVars, Labels
<1>0. c \in Contexts
  BY DEF Contexts
<1>1. CASE HwCheck(c)
  BY <1>0, <1>1, GotoType DEF HwCheck, TypeOK
<1>2. CASE HwFetch(c)
  <2>1. PICK s \in Samples : fifo' = [fifo EXCEPT ![head % FifoLen] = s]
                             /\ log' = Append(log, s)
    BY <1>2, FetchedType DEF HwFetch
  <2>2. fifo' \in [0..FifoLen-1 -> Samples]
    BY <2>1 DEF TypeOK
  <2>3. log' \in Seq(Samples)
    <3>1. log \in Seq(Samples)
      BY DEF TypeOK
    <3>2. QED
      BY <2>1, <3>1
  <2>4. hw' \in Seq(Samples)
    BY <1>2 DEF HwFetch, TypeOK
  <2>5. head' \in Nat /\ tail' \in Nat
    BY <1>2, FifoLenAssumption DEF HwFetch, Dropped, TypeOK
  <2>6. QED
    BY <1>0, <1>2, <2>2, <2>3, <2>4, <2>5, GotoType DEF HwFetch, TypeOK
<1>3. QED
  BY <1>1, <1>2 DEF ReadHw

\* Every variable keeps its type (a raw block never outgrows nsamples).
LEMMA TypeStep == TypeOK /\ [Next]_vars => TypeOK'
<1> USE DEF modeVars, hwVars, ringVars, flagVars, zioVars
<1> SUFFICES ASSUME TypeOK, [Next]_vars PROVE TypeOK'
  OBVIOUS
<1>0. "irq" \in Contexts /\ "tlet" \in Contexts /\ "tlet" \in Consumers
      /\ Procs \subseteq Consumers /\ Procs \subseteq Contexts
  BY DEF Contexts, Consumers
<1>1. CASE Pulse
  <2>1. stamped' \in Samples /\ stamped + 1 \in Samples
    BY <1>1, BoundsAssumption DEF Pulse, TypeOK, Samples
  <2>2. QED
    BY <1>1, <2>1 DEF Pulse, TypeOK
<1>2. CASE UserRead
  BY <1>2 DEF UserRead, TypeOK
<1>3. CASE Purge
  BY <1>3, BoundsAssumption DEF Purge, TypeOK
<1>4. CASE Irq
  <2>1. CASE IrqRaise
    BY <1>0, <2>1, GotoType DEF IrqRaise, TypeOK, Labels
  <2>2. CASE IrqEnter
    BY <1>0, <2>2, GotoType DEF IrqEnter, TypeOK, Labels, Serving
  <2>3. CASE ReadHw("irq")
    BY <2>3, TypeReadHw
  <2>4. CASE IrqSchedule
    BY <1>0, <2>4, GotoType DEF IrqSchedule, TypeOK, Labels
  <2>5. QED
    BY <1>4, <2>1, <2>2, <2>3, <2>4 DEF Irq
<1>5. CASE Tlet
  <2>1. CASE TletRun
    BY <1>0, <2>1, GotoType DEF TletRun, TypeOK, Labels, Serving
  <2>2. CASE ReadHw("tlet")
    BY <2>2, TypeReadHw
  <2>3. CASE TletTest
    BY <1>0, <2>3, GotoType DEF TletTest, TypeOK, Labels, Serving
  <2>4. CASE TletClear
    BY <1>0, <2>4, GotoType DEF TletClear, TypeOK, Labels, Serving
  <2>5. CASE Serve("tlet")
    BY <1>0, <2>5, TypeServe
  <2>6. QED
    BY <1>5, <2>1, <2>2, <2>3, <2>4, <2>5 DEF Tlet
<1>6. ASSUME NEW p \in Procs, ProcArm(p) PROVE TypeOK'
  BY <1>0, <1>6, TypeArm DEF ProcArm
<1>7. ASSUME NEW p \in Procs, Serve(p) PROVE TypeOK'
  BY <1>0, <1>7, TypeServe
<1>8. CASE UNCHANGED vars
  BY <1>8 DEF vars, TypeOK
<1>9. QED
  BY <1>1, <1>2, <1>3, <1>4, <1>5, <1>6, <1>7, <1>8 DEF Next

\* The initial state is typed.
LEMMA TypeInit == Init => TypeOK
<1> SUFFICES ASSUME Init PROVE TypeOK
  OBVIOUS
<1>1. 0 \in Samples
  BY BoundsAssumption DEF Samples
<1>2. timer \in BOOLEAN /\ raw \in BOOLEAN
  BY ModesAssumption, Zenon DEF Init
<1>3. <<>> \in Seq(Samples) /\ <<>> \in Seq([attrs : Samples, data : Seq(Samples)])
      /\ Len(<<>>) = 0
  OBVIOUS
<1>4. fifo \in [0..FifoLen-1 -> Samples] /\ cur \in [Consumers -> Samples]
  BY <1>1 DEF Init
<1>5. pc \in [Contexts -> Labels]
  BY DEF Init, Labels
<1>6. Len(data) <= NSamples /\ purges \in 0..MaxPurges
      /\ head \in Nat /\ tail \in Nat
  BY BoundsAssumption DEF Init
<1>7. QED
  BY <1>1, <1>2, <1>3, <1>4, <1>5, <1>6, Zenon DEF Init, TypeOK

\* TypeOK holds in every reachable state.
THEOREM TypeCorrect == Spec => []TypeOK
BY TypeInit, TypeStep, PTL DEF Spec

----------------------------------------------------------------------------
(* Who owns the trigger: the invariants of INPUT_READY.                    *)

Ownership == OneConsumer /\ ArmedMeansReady /\ Handshake

\* A context that moves leaves the others where they are.
LEMMA GotoPc ==
  ASSUME TypeOK, NEW c \in Contexts, NEW l, Goto(c, l)
  PROVE  /\ pc'[c] = l
         /\ \A d \in Contexts : d # c => pc'[d] = pc[d]
BY DEF TypeOK, Goto

\* Neither the interrupt nor the tasklet is a process.
LEMMA Roles ==
  /\ Procs \subseteq Consumers /\ Consumers \subseteq Contexts
  /\ "irq" \in Contexts /\ "irq" \notin Consumers
  /\ "tlet" \in Consumers /\ "tlet" \notin Procs
BY ProcsAssumption DEF Consumers, Contexts

\* A step that moves no consumer and leaves the trigger alone keeps Ownership.
LEMMA OwnershipFrame ==
  ASSUME Ownership, \A d \in Consumers : pc'[d] = pc[d],
         UNCHANGED <<armed, inputReady, caller>>
  PROVE  Ownership'
BY Roles DEF Ownership, OneConsumer, ArmedMeansReady, Handshake, IsServing, TletReads

\* The steps of one consumer for an armed trigger.
LEMMA OwnershipServe ==
  ASSUME TypeOK, Ownership, NEW c \in Consumers, Serve(c)
  PROVE  Ownership'
<1> USE Roles DEF Ownership, OneConsumer, ArmedMeansReady, Handshake, IsServing,
             TletReads, Serving, CalledByTlet, zioVars, flagVars
<1>1. CASE Enter(c)
  BY <1>1, GotoPc DEF Enter
<1>2. CASE Check(c)
  BY <1>2, GotoPc DEF Check
<1>3. CASE Take(c)
  BY <1>3, GotoPc DEF Take
<1>4. CASE Fill(c)
  BY <1>4, GotoPc DEF Fill, ReadReturns
<1>5. CASE More(c)
  BY <1>5, GotoPc DEF More, ReadReturns
<1>6. CASE Mark(c)
  BY <1>6, GotoPc DEF Mark
<1>7. CASE DataDone(c)
  <2>0. PICK label \in {"rearm", "idle"} : Goto(c, label)
    BY <1>7 DEF DataDone, AfterDone
  <2>1. pc[c] = "done" /\ pc'[c] \in {"rearm", "idle"} /\ ~armed'
        /\ inputReady' = inputReady
        /\ \A d \in Contexts : d # c => pc'[d] = pc[d]
    BY <1>7, <2>0, GotoPc DEF DataDone
  <2>2. ~inputReady
    BY <2>1 DEF Consumers
  <2>3. \A d \in Consumers : pc'[d] \notin Serving
    BY <2>1
  <2>4. OneConsumer' /\ ArmedMeansReady'
    BY <2>1, <2>2, <2>3
  <2>5. Handshake'
    BY <1>7, <2>1, <2>2, <2>3 DEF DataDone
  <2>6. QED
    BY <2>4, <2>5
<1>8. CASE Rearm(c)
  BY <1>8, GotoPc DEF Rearm, ArmTrigger
<1>9. QED
  BY <1>1, <1>2, <1>3, <1>4, <1>5, <1>6, <1>7, <1>8 DEF Serve

\* Every step keeps Ownership.
LEMMA OwnershipStep == TypeOK /\ Ownership /\ [Next]_vars => Ownership'
<1> SUFFICES ASSUME TypeOK, Ownership, [Next]_vars PROVE Ownership'
  OBVIOUS
<1> USE Roles DEF zioVars, flagVars
<1>1. CASE Pulse \/ UserRead \/ Purge
  BY <1>1, OwnershipFrame DEF Pulse, UserRead, Purge
<1>2. CASE Irq
  <2>1. \E l : Goto("irq", l)
    BY <1>2 DEF Irq, IrqRaise, IrqEnter, ReadHw, HwCheck, HwFetch, IrqSchedule
  <2>2. \A d \in Consumers : pc'[d] = pc[d]
    BY <2>1, GotoPc
  <2>3. UNCHANGED <<armed, inputReady, caller>>
    BY <1>2 DEF Irq, IrqRaise, IrqEnter, ReadHw, HwCheck, HwFetch, IrqSchedule
  <2>4. QED
    BY <2>2, <2>3, OwnershipFrame
<1>3. CASE Tlet
  <2> USE DEF Ownership, OneConsumer, ArmedMeansReady, Handshake, IsServing, TletReads, Serving
  <2>1. CASE TletRun
    BY <2>1, GotoPc DEF TletRun
  <2>2. CASE ReadHw("tlet")
    BY <2>2, GotoPc DEF ReadHw, HwCheck, HwFetch
  <2>3. CASE TletTest
    <3>1. /\ pc["tlet"] = "test" /\ UNCHANGED <<armed, inputReady, caller>>
          /\ pc'["tlet"] = IF inputReady THEN "check" ELSE "idle"
          /\ \A d \in Contexts : d # "tlet" => pc'[d] = pc[d]
      BY <2>3, GotoPc DEF TletTest
    <3>2. CASE inputReady
      BY <3>1, <3>2 DEF Consumers
    <3>3. CASE ~inputReady
      BY <3>1, <3>3 DEF Consumers
    <3>4. QED
      BY <3>2, <3>3
  <2>4. CASE TletClear
    BY <2>4, GotoPc DEF TletClear
  <2>5. CASE Serve("tlet")
    BY <2>5, OwnershipServe
  <2>6. QED
    BY <1>3, <2>1, <2>2, <2>3, <2>4, <2>5 DEF Tlet
<1>4. ASSUME NEW p \in Procs, ProcArm(p) PROVE Ownership'
  BY <1>4, GotoPc DEF ProcArm, ArmTrigger, Ownership, OneConsumer, ArmedMeansReady,
                      Handshake, IsServing, TletReads, Serving
<1>5. ASSUME NEW p \in Procs, Serve(p) PROVE Ownership'
  BY <1>5, OwnershipServe
<1>6. CASE UNCHANGED vars
  BY <1>6, OwnershipFrame DEF vars
<1>7. QED
  BY <1>1, <1>2, <1>3, <1>4, <1>5, <1>6 DEF Next

\* At most one context serves an armed trigger, and one that nobody serves has
\* INPUT_READY set, whatever the number of processes and the modes.
THEOREM OwnershipHolds == Spec => [](OneConsumer /\ ArmedMeansReady)
<1>1. Init => Ownership
  BY Roles DEF Init, Ownership, OneConsumer, ArmedMeansReady, Handshake, IsServing,
               TletReads, Serving
<1>2. TypeOK /\ Ownership /\ [Next]_vars => Ownership'
  BY OwnershipStep
<1>3. Ownership => OneConsumer /\ ArmedMeansReady
  BY DEF Ownership
<1>4. QED
  BY <1>1, <1>2, <1>3, TypeCorrect, PTL DEF Spec

----------------------------------------------------------------------------
(* The software fifo is a window on the stream of samples. A fifo of one    *)
(* slot is left out: its overflow drops nothing (FifoLen \div 2 = 0).       *)

Ring == TakeHasSample /\ RingInv

\* A step that neither moves the fifo nor starts a take keeps the invariant.
LEMMA RingFrame ==
  ASSUME Ring, UNCHANGED ringVars,
         \A c \in Consumers : pc'[c] = "take" => pc[c] = "take" \/ tail < head
  PROVE  Ring'
BY DEF Ring, RingInv, Window, SlotsHold, TakeHasSample, ringVars

\* With a window of at most l samples that ends at h, every index of it is less
\* than l behind h.
LEMMA BehindNewest ==
  ASSUME NEW l \in Nat, NEW h \in Nat, NEW t \in Nat, NEW k \in Int,
         t <= k, k <= h, (h + 1) - t <= l
  PROVE  h - k < l
OBVIOUS

\* A sample is pushed; if the fifo was full, the oldest half goes.
LEMMA RingPush ==
  ASSUME FifoLen >= 2, TypeOK, Ring, NEW c \in {"irq", "tlet"}, HwFetch(c)
  PROVE  Ring'
<1> DEFINE L == FifoLen
<1>0. L \in Nat /\ L >= 2 /\ head \in Nat /\ tail \in Nat /\ head' = head + 1
  BY FifoLenAssumption DEF TypeOK, HwFetch
<1>1. PICK s \in Samples : /\ fifo' = [fifo EXCEPT ![head % L] = s]
                           /\ log' = Append(log, s)
  BY FetchedType DEF HwFetch
<1>2. tail <= head /\ head - tail <= L /\ Len(log) = head
  BY DEF Ring, RingInv, Window
<1>3. L \div 2 \in Nat /\ 1 <= L \div 2 /\ L \div 2 <= L
  BY <1>0
<1>4. tail' \in Nat /\ tail <= tail' /\ tail' < head' /\ head' - tail' <= L
  <2>1. CASE Overflow
    BY <1>0, <1>2, <1>3, <2>1 DEF HwFetch, Overflow, Dropped
  <2>2. CASE ~Overflow
    BY <1>0, <1>2, <2>2 DEF HwFetch, Overflow
  <2>3. QED
    BY <2>1, <2>2
<1>5. log \in Seq(Samples)
  BY DEF TypeOK
<1>6. Window'
  <2>1. Len(log') = Len(log) + 1
    BY <1>1, <1>5, AppendProperties
  <2>2. tail' <= head' /\ head' = Len(log')
    BY <1>0, <1>2, <1>4, <2>1
  <2>3. QED
    BY <1>4, <2>2 DEF Window
<1>7. SlotsHold'
  <2> SUFFICES ASSUME NEW k \in tail'..head'-1 PROVE fifo'[k % L] = log'[k + 1]
    BY DEF SlotsHold
  <2>1. k \in Nat /\ k <= head /\ head - k < L
    <3>1. k \in Int /\ tail' <= k /\ k <= head
      BY <1>0, <1>4
    <3>2. L \in Nat /\ head \in Nat /\ tail' \in Nat /\ (head + 1) - tail' <= L
      BY <1>0, <1>4
    <3>3. head - k < L
      BY <3>1, <3>2, BehindNewest
    <3>4. k \in Nat
      BY <3>1, <3>2
    <3>5. QED
      BY <3>1, <3>3, <3>4
  <2>2. fifo \in [0..L-1 -> Samples] /\ head % L \in 0..L-1 /\ k % L \in 0..L-1
    BY <1>0, <2>1, SlotInRange DEF TypeOK
  <2>3. CASE k = head
    BY <1>0, <1>1, <1>2, <1>5, <2>2, <2>3
  <2>4. CASE k < head
    <3>1. k % L # head % L
      BY <1>0, <2>1, <2>4, SlotsDistinct
    <3>2. fifo'[k % L] = fifo[k % L]
      BY <1>1, <2>2, <3>1
    <3>3. log'[k + 1] = log[k + 1]
      BY <1>1, <1>2, <1>5, <2>1, <2>4
    <3>4. k \in tail..head-1
      BY <1>0, <1>4, <2>1, <2>4
    <3>5. QED
      BY <3>2, <3>3, <3>4 DEF Ring, RingInv, SlotsHold
  <2>5. QED
    BY <1>0, <2>1, <2>3, <2>4
<1>8. TakeHasSample'
  BY <1>0, <1>4 DEF TakeHasSample
<1>9. QED
  BY <1>6, <1>7, <1>8 DEF Ring, RingInv

\* A sample is taken from a fifo that has one; nobody else is about to take one.
LEMMA RingPop ==
  ASSUME TypeOK, Ring, tail < head, tail' = tail + 1, UNCHANGED <<head, fifo, log>>,
         \A c \in Consumers : pc'[c] # "take"
  PROVE  Ring'
<1>1. tail \in Nat /\ head \in Nat
  BY DEF TypeOK
<1>2. Window'
  BY <1>1, FifoLenAssumption DEF Ring, RingInv, Window
<1>3. SlotsHold'
  BY <1>1 DEF Ring, RingInv, SlotsHold
<1>4. QED
  BY <1>2, <1>3 DEF Ring, RingInv, TakeHasSample

\* The steps of one consumer keep the window.
LEMMA RingServe ==
  ASSUME TypeOK, Ownership, Ring, NEW c \in Consumers, Serve(c)
  PROVE  Ring'
<1> USE Roles
<1>0. ASSUME IsServing(c) PROVE \A d \in Consumers : d # c => pc[d] # "take"
  BY <1>0 DEF Ownership, OneConsumer, IsServing, Serving
<1>1. CASE Take(c)
  <2>1. pc[c] = "take" /\ pc'[c] = "fill" /\ \A d \in Contexts : d # c => pc'[d] = pc[d]
    BY <1>1, GotoPc DEF Take
  <2>2. tail < head
    BY <2>1 DEF Ring, TakeHasSample
  <2>3. \A d \in Consumers : pc'[d] # "take"
    BY <1>0, <2>1 DEF IsServing, Serving
  <2>4. QED
    BY <1>1, <2>2, <2>3, RingPop DEF Take
<1>2. CASE More(c)
  <2>1. pc[c] = "more" /\ \A d \in Consumers : pc[d] # "take"
    BY <1>0, <1>2 DEF More, IsServing, Serving
  <2>2. CASE RoomInBlock /\ ~SwFifoEmpty
    <3>1. tail' = tail + 1 /\ pc' = pc /\ UNCHANGED <<head, fifo, log>>
      BY <1>2, <2>2 DEF More
    <3>2. tail < head
      BY <2>2 DEF SwFifoEmpty, Ring, RingInv, Window, TypeOK
    <3>3. QED
      BY <2>1, <3>1, <3>2, RingPop
  <2>3. CASE ~(RoomInBlock /\ ~SwFifoEmpty)
    <3>1. UNCHANGED ringVars
      BY <1>2, <2>3 DEF More, ringVars
    <3>2. \A d \in Consumers : pc'[d] # "take"
      BY <1>2, <2>1, <2>3, GotoPc DEF More, ReadReturns
    <3>3. QED
      BY <3>1, <3>2, RingFrame
  <2>4. QED
    BY <2>2, <2>3
<1>3. CASE Check(c)
  <2>1. ~SwFifoEmpty => tail < head
    BY DEF SwFifoEmpty, Ring, RingInv, Window, TypeOK
  <2>2. \A d \in Consumers : pc'[d] = "take" => pc[d] = "take" \/ tail < head
    BY <1>3, <2>1, GotoPc DEF Check
  <2>3. QED
    BY <1>3, <2>2, RingFrame DEF Check
<1>4. CASE Enter(c) \/ Fill(c) \/ Mark(c) \/ DataDone(c) \/ Rearm(c)
  <2>1. UNCHANGED ringVars
    BY <1>4 DEF Enter, Fill, Mark, DataDone, Rearm, ArmTrigger
  <2>2. PICK label \in Labels \ {"take"} : Goto(c, label)
    BY <1>4 DEF Enter, Fill, ReadReturns, Mark, DataDone, AfterDone, Rearm, ArmTrigger,
                Labels, Serving
  <2>3. \A d \in Consumers : pc'[d] = "take" => pc[d] = "take"
    BY <2>2, GotoPc
  <2>4. QED
    BY <2>1, <2>3, RingFrame
<1>5. QED
  BY <1>1, <1>2, <1>3, <1>4 DEF Serve

\* Emptying the hardware fifo keeps the window.
LEMMA RingReadHw ==
  ASSUME FifoLen >= 2, TypeOK, Ring, NEW c \in {"irq", "tlet"}, ReadHw(c)
  PROVE  Ring'
<1>1. CASE HwFetch(c)
  BY <1>1, RingPush
<1>2. CASE HwCheck(c)
  BY <1>2, Roles, GotoPc, RingFrame DEF HwCheck
<1>3. QED
  BY <1>1, <1>2 DEF ReadHw

\* Every step keeps the window.
LEMMA RingStep ==
  ASSUME FifoLen >= 2, TypeOK, Ownership, Ring, [Next]_vars
  PROVE  Ring'
<1> USE Roles
<1>1. CASE Pulse \/ UserRead \/ Purge
  BY <1>1, RingFrame DEF Pulse, UserRead, Purge
<1>2. CASE ReadHw("irq") \/ ReadHw("tlet")
  BY <1>2, RingReadHw
<1>3. CASE IrqRaise \/ IrqEnter \/ IrqSchedule \/ TletRun \/ TletTest \/ TletClear
  <2>1. UNCHANGED ringVars
    BY <1>3 DEF IrqRaise, IrqEnter, IrqSchedule, TletRun, TletTest, TletClear
  <2>2. \A d \in Consumers : pc'[d] = "take" => pc[d] = "take"
    BY <1>3, GotoPc DEF IrqRaise, IrqEnter, IrqSchedule, TletRun, TletTest, TletClear
  <2>3. QED
    BY <2>1, <2>2, RingFrame
<1>4. ASSUME NEW c \in Consumers, Serve(c) PROVE Ring'
  BY <1>4, RingServe
<1>5. ASSUME NEW p \in Procs, ProcArm(p) PROVE Ring'
  BY <1>5, GotoPc, RingFrame DEF ProcArm, ArmTrigger
<1>6. CASE UNCHANGED vars
  BY <1>6, RingFrame DEF vars
<1>7. QED
  BY <1>1, <1>2, <1>3, <1>4, <1>5, <1>6 DEF Next, Irq, Tlet

\* With at least two slots the software fifo is always a window on the stream of
\* samples: tail never passes head, which is what BUG_ON(diff < 0) asserts, and no
\* queued sample is overwritten.
THEOREM RingSafe == FifoLen >= 2 => (Spec => []RingInv)
<1> SUFFICES ASSUME FifoLen >= 2 PROVE Spec => []RingInv
  OBVIOUS
<1>1. Init => Ownership /\ Ring
  <2> SUFFICES ASSUME Init PROVE Ownership /\ Ring
    OBVIOUS
  <2>1. Ownership
    BY Roles DEF Init, Ownership, OneConsumer, ArmedMeansReady, Handshake, IsServing,
                 TletReads, Serving
  <2>2. head = 0 /\ tail = 0 /\ Len(log) = 0
    BY DEF Init
  <2>3. Ring
    BY <2>2, Roles, FifoLenAssumption
       DEF Init, Ring, RingInv, Window, SlotsHold, TakeHasSample
  <2>4. QED
    BY <2>1, <2>3
<1>2. TypeOK /\ (Ownership /\ Ring) /\ [Next]_vars => (Ownership /\ Ring)'
  BY OwnershipStep, RingStep
<1>3. Ring => RingInv
  BY DEF Ring
<1>4. QED
  BY <1>1, <1>2, <1>3, TypeCorrect, PTL DEF Spec

----------------------------------------------------------------------------
(* The order of the samples. Until a user purges the hardware fifo, a fetch *)
(* finds a sample, since only one context fetches.                          *)

Increasing(s) == \A i, j \in DOMAIN s : i < j => s[i] < s[j]

\* The interrupt runs only without the timer and the timer fetches only with it. The
\* hardware fifo fills only once the stamps are enabled, by the first fd_zio_input(), so
\* the purge of that call finds nothing to lose.
Fetching ==
  /\ pc["irq"] # "idle" => ~timer
  /\ pc["tlet"] \in {"hwcheck", "hwfetch"} => timer
  /\ ~tsEnable => hw = <<>>
  /\ purges = 0 => /\ doInput \/ ~tsEnable
                   /\ \A c \in {"irq", "tlet"} : pc[c] = "hwfetch" => hw # <<>>

\* What was pushed came before what waits in the hardware, and that before the next pulse.
Ordered ==
  purges = 0 =>
    /\ Increasing(log) /\ Increasing(hw)
    /\ \A j \in DOMAIN hw : hw[j] <= stamped
    /\ \A i \in DOMAIN log : log[i] <= stamped /\ \A j \in DOMAIN hw : log[i] < hw[j]

\* A sample older than every one that is queued or still to come.
Past(x) ==
  /\ x <= stamped
  /\ \A j \in DOMAIN hw : x < hw[j]
  /\ \A k \in tail+1..head : x < log[k]

HandedOut == purges = 0 => DataInOrder /\ \A i \in DOMAIN out : Past(out[i])

\* The payload of the active block belongs to the stamp in current_ctrl.
Filled == {"more", "clear", "done"}
Payload ==
  /\ data # <<>> => data[1] = attrs /\ \E c \in Consumers : pc[c] \in Filled
  /\ \A c \in Consumers : pc[c] = "more" => data # <<>>

\* Blocks in the buffer are older than the sample that a context carries to its block, and
\* that one older than all that are queued.
Newer(x) == Past(x) /\ \A i \in DOMAIN zbuf : zbuf[i].attrs < x
Buffered ==
  purges = 0 =>
    /\ BlocksInOrder
    /\ \A i \in DOMAIN zbuf : Past(zbuf[i].attrs)
    /\ \A c \in Consumers : /\ pc[c] = "fill" => Newer(cur[c])
                            /\ pc[c] \in Filled => Newer(attrs)

----------------------------------------------------------------------------
(* Sequences that increase.                                                *)

\* Append a greater element.
LEMMA IncreasingAppend ==
  ASSUME NEW s \in Seq(Samples), NEW x \in Samples, Increasing(s), \A i \in DOMAIN s : s[i] < x
  PROVE  Increasing(Append(s, x))
<1>1. /\ Len(Append(s, x)) = Len(s) + 1 /\ DOMAIN Append(s, x) = 1..Len(s)+1
      /\ Append(s, x)[Len(s) + 1] = x
      /\ \A i \in 1..Len(s) : Append(s, x)[i] = s[i]
      /\ DOMAIN s = 1..Len(s) /\ Len(s) \in Nat
  OBVIOUS
<1>2. QED
  BY <1>1 DEF Increasing

\* Drop the first.
LEMMA IncreasingTail ==
  ASSUME NEW s \in Seq(Samples), s # <<>>, Increasing(s)
  PROVE  /\ Increasing(Tail(s)) /\ \A i \in DOMAIN Tail(s) : s[1] < Tail(s)[i]
         /\ \A i \in DOMAIN Tail(s) : i + 1 \in DOMAIN s /\ Tail(s)[i] = s[i + 1]
         /\ s[1] \in Samples /\ 1 \in DOMAIN s
<1>1. /\ Len(s) \in Nat /\ Len(s) >= 1 /\ DOMAIN s = 1..Len(s)
      /\ Len(Tail(s)) = Len(s) - 1 /\ DOMAIN Tail(s) = 1..Len(s)-1
      /\ \A i \in 1..Len(s)-1 : Tail(s)[i] = s[i + 1]
  OBVIOUS
<1>2. s[1] \in Samples
  BY <1>1
<1>3. QED
  BY <1>1, <1>2 DEF Increasing

----------------------------------------------------------------------------
(* What a step does to the stream of samples, as long as nobody purges.    *)

Stream1 == <<stamped, hw, head, tail, log, out>>

Fetches ==
  /\ hw # <<>> /\ hw' = Tail(hw) /\ log' = Append(log, hw[1])
  /\ head' = head + 1 /\ tail' \in Nat /\ tail <= tail'
  /\ tail' = IF head - tail >= FifoLen THEN tail + FifoLen \div 2 ELSE tail
  /\ UNCHANGED <<stamped, out>>

Takes ==
  /\ tail < head /\ tail' = tail + 1
  /\ out' = Append(out, log[tail + 1])
  /\ UNCHANGED <<stamped, hw, head, log>>

\* One context fetches, and finds a sample until somebody purges.
LEMMA FetchingStep == TypeOK /\ Fetching /\ [Next]_vars => Fetching'
<1> SUFFICES ASSUME TypeOK, Fetching, [Next]_vars PROVE Fetching'
  OBVIOUS
<1> USE Roles DEF Fetching, hwVars, modeVars, flagVars
<1>1. CASE Pulse
  <2>1. tsEnable /\ (hw' = hw \/ hw' = Append(hw, stamped + 1)) /\ pc' = pc
        /\ UNCHANGED <<timer, tsEnable, purges, doInput>>
    BY <1>1, Zenon DEF Pulse
  <2>2. Append(hw, stamped + 1) # <<>>
    <3>1. stamped + 1 \in Samples /\ hw \in Seq(Samples)
      BY <1>1, BoundsAssumption DEF Pulse, TypeOK, Samples
    <3>2. QED
      BY <3>1, AppendProperties
  <2>3. QED
    BY <2>1, <2>2
<1>2. CASE UserRead
  BY <1>2 DEF UserRead
<1>3. CASE Purge
  BY <1>3 DEF Purge, TypeOK
<1>4. CASE IrqRaise \/ IrqEnter \/ IrqSchedule
  BY <1>4, GotoPc DEF IrqRaise, IrqEnter, IrqSchedule
<1>5. CASE TletRun \/ TletTest \/ TletClear
  BY <1>5, GotoPc DEF TletRun, TletTest, TletClear
<1>6. ASSUME NEW c \in {"irq", "tlet"}, ReadHw(c) PROVE Fetching'
  <2>0. c \in Contexts
    BY DEF Contexts
  <2>1. CASE HwCheck(c)
    BY <2>0, <2>1, GotoPc DEF HwCheck
  <2>2. CASE HwFetch(c)
    BY <2>0, <2>2, GotoPc DEF HwFetch
  <2>3. QED
    BY <1>6, <2>1, <2>2 DEF ReadHw
<1>7. ASSUME NEW c \in Consumers, Serve(c) PROVE Fetching'
  <2>1. CASE Enter(c)
    BY <1>7, <2>1, GotoPc DEF Enter
  <2>2. PICK l : Goto(c, l) \/ pc' = pc
    BY <1>7 DEF Serve, Enter, Check, Take, Fill, ReadReturns, More, Mark, DataDone, AfterDone,
                Rearm, ArmTrigger
  <2>3. CASE Check(c) \/ Take(c) \/ Fill(c) \/ More(c) \/ Mark(c) \/ DataDone(c) \/ Rearm(c)
    <3>1. UNCHANGED <<timer, tsEnable, hw, purges, doInput>>
      BY <2>3 DEF Check, Take, Fill, More, Mark, DataDone, Rearm, ArmTrigger
    <3>2. /\ \A d \in Contexts : d # c => pc'[d] = pc[d]
          /\ pc'[c] \notin {"hwcheck", "hwfetch"} \/ pc'[c] = pc[c]
      BY <2>3, GotoPc DEF Check, Take, Fill, ReadReturns, More, Mark, DataDone, AfterDone,
                          Rearm, ArmTrigger
    <3>3. QED
      BY <3>1, <3>2
  <2>4. QED
    BY <1>7, <2>1, <2>3 DEF Serve
<1>8. ASSUME NEW p \in Procs, ProcArm(p) PROVE Fetching'
  BY <1>8, GotoPc DEF ProcArm, ArmTrigger
<1>9. CASE UNCHANGED vars
  BY <1>9 DEF vars
<1>10. QED
  BY <1>1, <1>2, <1>3, <1>4, <1>5, <1>6, <1>7, <1>8, <1>9 DEF Next, Irq, Tlet

\* With the handshake and the ring, each step is one of four.
LEMMA StepKinds ==
  ASSUME TypeOK, Ownership, Ring, Fetching, [Next]_vars, purges' = 0
  PROVE  purges = 0 /\ (Pulse \/ Fetches \/ Takes \/ UNCHANGED Stream1)
<1> USE Roles DEF hwVars, ringVars
<1>0. /\ head \in Nat /\ tail \in Nat /\ tail <= head /\ purges \in Nat
      /\ tail < head => Slot = log[tail + 1]
  <2>1. head \in Nat /\ tail \in Nat /\ tail <= head /\ purges \in Nat
    BY DEF TypeOK, Ring, RingInv, Window
  <2>2. tail < head => tail \in tail..head-1
    BY <2>1
  <2>3. QED
    BY <2>1, <2>2 DEF Ring, RingInv, SlotsHold, Slot
<1>1. ~Purge
  BY <1>0 DEF Purge
<1>2. purges = 0
  <2>1. \/ Pulse \/ UserRead \/ Irq \/ Tlet \/ (\E p \in Procs : ProcArm(p) \/ Serve(p))
        \/ UNCHANGED vars
    BY <1>1 DEF Next
  <2>2. purges' = purges
    BY <2>1 DEF Pulse, UserRead, Irq, IrqRaise, IrqEnter, ReadHw, HwCheck, HwFetch, IrqSchedule,
                Tlet, TletRun, TletTest, TletClear, Serve, Enter, Check, Take, Fill, More, Mark,
                DataDone, Rearm, ArmTrigger, ProcArm, vars
  <2>3. QED
    BY <2>2
<1>3. ASSUME NEW c \in {"irq", "tlet"}, HwFetch(c) PROVE Fetches
  <2>1. hw # <<>> /\ Fetched = {hw[1]}
    BY <1>2, <1>3 DEF HwFetch, Fetching, Fetched
  <2>2. log' = Append(log, hw[1]) /\ hw' = Tail(hw)
    BY <1>3, <2>1 DEF HwFetch
  <2>3. tail' \in Nat /\ tail <= tail'
    BY <1>0, <1>3, FifoLenAssumption DEF HwFetch, Dropped
  <2>4. tail' = IF head - tail >= FifoLen THEN tail + FifoLen \div 2 ELSE tail
    BY <1>3 DEF HwFetch, Overflow, Dropped
  <2>5. QED
    BY <1>3, <2>1, <2>2, <2>3, <2>4 DEF HwFetch, Fetches
<1>4. ASSUME NEW c \in Consumers, Serve(c) PROVE Takes \/ UNCHANGED Stream1
  <2>1. CASE Enter(c)
    BY <1>2, <2>1 DEF Enter, Fetching, Stream1
  <2>2. CASE Take(c)
    <3>1. tail < head
      BY <2>2 DEF Take, Ring, TakeHasSample
    <3>2. QED
      BY <1>0, <2>2, <3>1 DEF Take, Takes
  <2>3. CASE More(c)
    <3>1. CASE RoomInBlock /\ ~SwFifoEmpty
      BY <1>0, <2>3, <3>1 DEF More, Takes, SwFifoEmpty
    <3>2. CASE ~(RoomInBlock /\ ~SwFifoEmpty)
      BY <2>3, <3>2 DEF More, Stream1
    <3>3. QED
      BY <3>1, <3>2
  <2>4. CASE Check(c) \/ Fill(c) \/ Mark(c) \/ DataDone(c) \/ Rearm(c)
    BY <2>4 DEF Check, Fill, Mark, DataDone, Rearm, ArmTrigger, Stream1
  <2>5. QED
    BY <1>4, <2>1, <2>2, <2>3, <2>4 DEF Serve
<1>5. ASSUME NEW c \in {"irq", "tlet"}, ReadHw(c) PROVE Fetches \/ UNCHANGED Stream1
  BY <1>3, <1>5 DEF ReadHw, HwCheck, Stream1
<1>6. CASE IrqRaise \/ IrqEnter \/ IrqSchedule \/ TletRun \/ TletTest \/ TletClear \/ UserRead
  BY <1>6 DEF IrqRaise, IrqEnter, IrqSchedule, TletRun, TletTest, TletClear, UserRead, Stream1
<1>7. ASSUME NEW p \in Procs, ProcArm(p) PROVE UNCHANGED Stream1
  BY <1>7 DEF ProcArm, ArmTrigger, Stream1
<1>8. CASE UNCHANGED vars
  BY <1>8 DEF vars, Stream1
<1>9. QED
  BY <1>1, <1>2, <1>4, <1>5, <1>6, <1>7, <1>8 DEF Next, Irq, Tlet

\* Samples pushed and waiting stay in order.
LEMMA OrderedStep ==
  ASSUME TypeOK, Ordered, purges = 0, Pulse \/ Fetches \/ Takes \/ UNCHANGED Stream1
  PROVE  Ordered'
<1>0. /\ hw \in Seq(Samples) /\ log \in Seq(Samples) /\ stamped \in Nat
      /\ Increasing(log) /\ Increasing(hw)
      /\ \A j \in DOMAIN hw : hw[j] \in Nat /\ hw[j] <= stamped
      /\ \A i \in DOMAIN log : /\ log[i] \in Nat /\ log[i] <= stamped
                               /\ \A j \in DOMAIN hw : log[i] < hw[j]
  <2>1. /\ hw \in Seq(Samples) /\ log \in Seq(Samples) /\ stamped \in Nat
        /\ \A x \in Samples : x \in Nat
    BY DEF TypeOK, Samples
  <2>2. (\A j \in DOMAIN hw : hw[j] \in Samples) /\ (\A i \in DOMAIN log : log[i] \in Samples)
    BY <2>1
  <2>3. QED
    BY <2>1, <2>2, Zenon DEF Ordered
<1>1. CASE Pulse
  <2>1. stamped' = stamped + 1 /\ stamped + 1 \in Samples /\ log' = log
        /\ (hw' = hw \/ hw' = Append(hw, stamped + 1))
    BY <1>0, <1>1, BoundsAssumption DEF Pulse, Samples, ringVars
  <2>2. CASE hw' = hw
    <3>1. Increasing(log') /\ Increasing(hw')
      BY <1>0, <2>1, <2>2
    <3>2. QED
      BY <1>0, <2>1, <2>2, <3>1 DEF Ordered
  <2>3. CASE hw' = Append(hw, stamped + 1)
    <3>0. \A j \in DOMAIN hw : hw[j] < stamped + 1
      BY <1>0
    <3>1. Increasing(hw')
      BY <1>0, <2>1, <2>3, <3>0, IncreasingAppend
    <3>2. \A j \in DOMAIN hw' : hw'[j] = stamped + 1 \/ (j \in DOMAIN hw /\ hw'[j] = hw[j])
      BY <1>0, <2>1, <2>3
    <3>3. Increasing(log')
      BY <1>0, <2>1
    <3>4. \A j \in DOMAIN hw' : hw'[j] <= stamped + 1
      BY <1>0, <3>2
    <3>5. \A i \in DOMAIN log : log[i] <= stamped + 1 /\ log[i] < stamped + 1
      BY <1>0
    <3>6. \A i \in DOMAIN log : \A j \in DOMAIN hw' : log[i] < hw'[j]
      BY <1>0, <3>2, <3>5, Zenon
    <3>7. QED
      BY <2>1, <3>1, <3>3, <3>4, <3>5, <3>6, Zenon DEF Ordered
  <2>4. QED
    BY <2>1, <2>2, <2>3
<1>2. CASE Fetches
  <2>1. hw # <<>> /\ hw' = Tail(hw) /\ log' = Append(log, hw[1]) /\ stamped' = stamped
    BY <1>2 DEF Fetches
  <2>2. /\ Increasing(hw') /\ \A i \in DOMAIN hw' : hw[1] < hw'[i]
        /\ \A i \in DOMAIN hw' : i + 1 \in DOMAIN hw /\ hw'[i] = hw[i + 1]
        /\ hw[1] \in Samples /\ 1 \in DOMAIN hw
    BY <1>0, <2>1, IncreasingTail
  <2>3. Increasing(log')
    BY <1>0, <2>1, <2>2, IncreasingAppend
  <2>4. \A i \in DOMAIN log' : log'[i] = hw[1] \/ (i \in DOMAIN log /\ log'[i] = log[i])
    BY <1>0, <2>1, <2>2
  <2>5. QED
    BY <1>0, <2>1, <2>2, <2>3, <2>4 DEF Ordered
<1>3. CASE Takes \/ UNCHANGED Stream1
  BY <1>0, <1>3 DEF Takes, Stream1, Ordered
<1>4. QED
  BY <1>1, <1>2, <1>3

\* The indices of a window that ends at h + 1 and begins no earlier than at t.
LEMMA StillQueued ==
  ASSUME NEW h \in Nat, NEW t \in Nat, NEW u \in Nat, t <= u
  PROVE  \A k \in u+1..h+1 : k \in 1..h+1 /\ (k # h + 1 => k \in t+1..h)
OBVIOUS

\* What is older than all that is queued stays so.
LEMMA PastStep ==
  ASSUME TypeOK, Window, purges = 0, Pulse \/ Fetches \/ Takes \/ UNCHANGED Stream1,
         NEW x \in Samples, Past(x)
  PROVE  Past(x)'
<1>0. /\ hw \in Seq(Samples) /\ log \in Seq(Samples) /\ stamped \in Nat /\ Samples \subseteq Int
      /\ head \in Nat /\ tail \in Nat /\ head = Len(log)
      /\ x <= stamped /\ (\A j \in DOMAIN hw : x < hw[j]) /\ (\A k \in tail+1..head : x < log[k])
  BY DEF TypeOK, Window, Past, Samples
<1>1. CASE Pulse
  <2>1. stamped' = stamped + 1 /\ stamped + 1 \in Samples /\ UNCHANGED <<head, tail, log>>
        /\ (hw' = hw \/ hw' = Append(hw, stamped + 1))
    BY <1>0, <1>1, BoundsAssumption DEF Pulse, Samples, ringVars
  <2>2. \A j \in DOMAIN hw' : hw'[j] = stamped + 1 \/ (j \in DOMAIN hw /\ hw'[j] = hw[j])
    BY <1>0, <2>1, SMTT(30)
  <2>3. QED
    BY <1>0, <2>1, <2>2 DEF Past
<1>2. CASE Fetches
  <2>1. /\ hw # <<>> /\ hw' = Tail(hw) /\ log' = Append(log, hw[1]) /\ stamped' = stamped
        /\ head' = head + 1 /\ tail' \in Nat /\ tail <= tail'
    BY <1>2 DEF Fetches
  <2>2. /\ 1 \in DOMAIN hw /\ hw[1] \in Samples
        /\ \A i \in DOMAIN hw' : i + 1 \in DOMAIN hw /\ hw'[i] = hw[i + 1]
    BY <1>0, <2>1
  <2>3. \A k \in 1..head+1 : /\ k = head + 1 => log'[k] = hw[1]
                             /\ k # head + 1 => log'[k] = log[k]
    BY <1>0, <2>1, <2>2
  <2>4. \A k \in tail'+1..head' : k \in 1..head+1 /\ (k # head + 1 => k \in tail+1..head)
    <3>1. head \in Nat /\ tail \in Nat /\ tail' \in Nat /\ tail <= tail' /\ head' = head + 1
      BY <1>0, <2>1
    <3>2. QED
      BY <3>1, StillQueued
  <2>5. (\A j \in DOMAIN hw' : x < hw'[j]) /\ x <= stamped'
    <3>1. \A i \in DOMAIN hw' : x < hw[i + 1]
      BY <1>0, <2>2
    <3>2. QED
      BY <1>0, <2>1, <2>2, <3>1
  <2>6. \A k \in tail'+1..head' : x < log'[k]
    <3>1. x < hw[1] /\ \A k \in tail+1..head : x < log[k]
      BY <1>0, <2>2
    <3>2. SUFFICES ASSUME NEW k \in tail'+1..head' PROVE x < log'[k]
      OBVIOUS
    <3>3. k \in 1..head+1 /\ (k # head + 1 => k \in tail+1..head)
      BY <2>4
    <3>4. CASE k = head + 1
      BY <2>3, <3>1, <3>3, <3>4
    <3>5. CASE k # head + 1
      BY <2>3, <3>1, <3>3, <3>5
    <3>6. QED
      BY <3>4, <3>5
  <2>7. QED
    BY <2>5, <2>6 DEF Past
<1>3. CASE Takes
  BY <1>0, <1>3 DEF Takes, Past
<1>4. CASE UNCHANGED Stream1
  BY <1>0, <1>4 DEF Stream1, Past
<1>5. QED
  BY <1>1, <1>2, <1>3, <1>4

\* The sample that is taken is newer than what was past, and then past itself.
LEMMA PastTaken ==
  ASSUME TypeOK, Window, Ordered, purges = 0, Takes, NEW y, y = log[tail + 1]
  PROVE  y \in Samples /\ Past(y)' /\ \A x \in Samples : Past(x) => x < y
<1>1. /\ head \in Nat /\ tail \in Nat /\ head = Len(log) /\ tail < head /\ log \in Seq(Samples)
      /\ tail' = tail + 1 /\ UNCHANGED <<stamped, hw, head, log>>
  BY DEF TypeOK, Window, Takes
<1>2. tail + 1 \in DOMAIN log /\ tail + 1 \in tail+1..head
      /\ \A k \in tail+2..head : k \in DOMAIN log /\ tail + 1 < k
  BY <1>1
<1>3. y \in Samples
  BY <1>1, <1>2
<1>4. Past(y)'
  <2>1. y <= stamped /\ \A j \in DOMAIN hw : y < hw[j]
    BY <1>2 DEF Ordered
  <2>2. \A k \in tail+2..head : y < log[k]
    BY <1>1, <1>2 DEF Ordered, Increasing
  <2>3. tail' + 1 = tail + 2
    BY <1>1
  <2>4. QED
    BY <1>1, <2>1, <2>2, <2>3 DEF Past
<1>5. QED
  BY <1>2, <1>3, <1>4 DEF Past

\* Samples that left the fifo stay in order.
LEMMA HandedOutStep ==
  ASSUME TypeOK, Window, Ordered, HandedOut, purges = 0,
         Pulse \/ Fetches \/ Takes \/ UNCHANGED Stream1
  PROVE  HandedOut'
<1>0. /\ out \in Seq(Samples) /\ Increasing(out)
      /\ \A i \in DOMAIN out : out[i] \in Samples /\ Past(out[i])
  BY DEF TypeOK, HandedOut, DataInOrder, Increasing
<1>2. CASE Takes
  <2>1. PICK y : y = log[tail + 1]
    OBVIOUS
  <2>2. out' = Append(out, y)
    BY <1>2, <2>1 DEF Takes
  <2>3. y \in Samples /\ Past(y)' /\ \A i \in DOMAIN out : out[i] < y
    BY <1>0, <1>2, <2>1, PastTaken
  <2>4. Increasing(out')
    BY <1>0, <2>2, <2>3, IncreasingAppend
  <2>5. \A i \in DOMAIN out' : out'[i] = y \/ (i \in DOMAIN out /\ out'[i] = out[i])
    BY <1>0, <2>2, <2>3
  <2>6. DataInOrder'
    BY <2>4 DEF DataInOrder, Increasing
  <2>7. \A i \in DOMAIN out' : Past(out[i])'
    BY <1>0, <2>3, <2>5, PastStep DEF Past
  <2>8. QED
    BY <2>6, <2>7 DEF HandedOut
<1>3. CASE out' = out
  <2>1. \A i \in DOMAIN out' : Past(out[i])'
    BY <1>0, <1>3, PastStep DEF Past
  <2>2. DataInOrder'
    BY <1>3, <1>0 DEF DataInOrder, Increasing
  <2>3. QED
    BY <2>1, <2>2 DEF HandedOut
<1>4. QED
  BY <1>2, <1>3 DEF Pulse, Fetches, Stream1, ringVars

\* One context at a time carries a sample to its block.
LEMMA Alone ==
  ASSUME OneConsumer, NEW c \in Consumers, IsServing(c)
  PROVE  \A d \in Consumers : d # c => pc[d] \notin Serving
BY DEF OneConsumer, IsServing

\* What the steps of one consumer do to the places of all.
LEMMA ServeMoves ==
  ASSUME TypeOK, OneConsumer, NEW c \in Consumers, Serve(c)
  PROVE  /\ \A d \in Contexts : d # c => pc'[d] = pc[d]
         /\ pc[c] \in Serving => \A d \in Consumers : d # c => pc'[d] \notin Serving
<1>1. \A d \in Contexts : d # c => pc'[d] = pc[d]
  BY Roles, GotoPc DEF Serve, Enter, Check, Take, Fill, ReadReturns, More, Mark, DataDone,
                       AfterDone, Rearm, ArmTrigger
<1>2. QED
  BY <1>1, Alone, Roles DEF IsServing

\* A block with samples carries the stamp of the first.
LEMMA PayloadStep ==
  ASSUME TypeOK, Ownership, Payload, [Next]_vars
  PROVE  Payload'
<1> USE Roles DEF Payload, Filled
<1>1. ASSUME UNCHANGED <<data, attrs>>, \A d \in Consumers : pc'[d] = "more" => pc[d] = "more",
             \A d \in Consumers : pc[d] \in Filled => pc'[d] \in Filled
      PROVE  Payload'
  BY <1>1
<1>2. ASSUME NEW c \in Consumers, Serve(c) PROVE Payload'
  <2>0. /\ \A d \in Consumers : d # c => pc'[d] = pc[d]
        /\ pc[c] \in Serving => \A d \in Consumers : d # c => /\ pc'[d] \notin Serving
                                                              /\ pc[d] \notin Serving
    BY <1>2, ServeMoves DEF Ownership
  <2>1. CASE Fill(c)
    <3>1. data = <<>> /\ attrs' = cur[c] /\ pc[c] = "fill"
      BY <2>0, <2>1 DEF Fill, Serving, Sample
    <3>2. CASE raw /\ hasBlock
      <4>1. data' = <<cur[c]>> /\ pc'[c] = "more" /\ \A d \in Consumers : d # c => pc'[d] # "more"
        BY <2>0, <2>1, <3>1, <3>2, GotoPc DEF Fill, Sample, Serving
      <4>2. QED
        BY <3>1, <4>1
    <3>3. CASE ~(raw /\ hasBlock)
      <4>1. data' = <<>> /\ pc'[c] # "more" /\ \A d \in Consumers : d # c => pc'[d] # "more"
        BY <2>0, <2>1, <3>1, <3>3, GotoPc DEF Fill, ReadReturns, Serving
      <4>2. QED
        BY <4>1
    <3>4. QED
      BY <3>2, <3>3
  <2>2. CASE More(c)
    <3>1. pc[c] = "more" /\ data # <<>> /\ data[1] = attrs /\ data \in Seq(Samples)
          /\ attrs' = attrs
      BY <2>2 DEF More, TypeOK
    <3>2. CASE RoomInBlock /\ ~SwFifoEmpty
      <4>1. data' = Append(data, Slot) /\ pc' = pc
        BY <2>2, <3>2 DEF More
      <4>2. Slot \in Samples
        BY SlotType
      <4>3. data' # <<>> /\ data'[1] = data[1]
        BY <3>1, <4>1, <4>2
      <4>4. QED
        BY <3>1, <4>1, <4>3
    <3>3. CASE ~(RoomInBlock /\ ~SwFifoEmpty)
      <4>1. data' = data /\ pc'[c] \in {"clear", "done"}
        BY <2>2, <3>3, GotoPc DEF More, ReadReturns
      <4>2. QED
        BY <2>0, <3>1, <4>1 DEF Serving
    <3>4. QED
      BY <3>2, <3>3
  <2>3. CASE DataDone(c)
    <3>1. data' = <<>> /\ pc'[c] \in {"rearm", "idle"} /\ pc[c] = "done"
      BY <2>3, GotoPc DEF DataDone, AfterDone
    <3>2. QED
      BY <2>0, <3>1 DEF Serving
  <2>4. CASE Enter(c) \/ Check(c) \/ Take(c) \/ Mark(c) \/ Rearm(c)
    <3>1. /\ UNCHANGED <<data, attrs>>
          /\ pc[c] \notin Filled /\ pc'[c] # "more"
      BY <2>4, GotoPc DEF Enter, Check, Take, Mark, Rearm, ArmTrigger, zioVars
    <3>2. QED
      BY <2>0, <3>1, <1>1
  <2>5. QED
    BY <1>2, <2>1, <2>2, <2>3, <2>4 DEF Serve
<1>3. CASE Pulse \/ UserRead \/ Purge \/ UNCHANGED vars
  BY <1>1, <1>3 DEF Pulse, UserRead, Purge, vars, zioVars
<1>4. CASE Irq
  <2>1. (\E l : Goto("irq", l)) /\ UNCHANGED <<data, attrs>>
    BY <1>4 DEF Irq, IrqRaise, IrqEnter, ReadHw, HwCheck, HwFetch, IrqSchedule, zioVars
  <2>2. \A d \in Consumers : pc'[d] = pc[d]
    BY <2>1, GotoPc
  <2>3. QED
    BY <1>1, <2>1, <2>2
<1>5. CASE TletRun \/ ReadHw("tlet") \/ TletTest \/ TletClear
  <2>1. /\ UNCHANGED <<data, attrs>> /\ pc'["tlet"] # "more"
        /\ \A d \in Consumers : d # "tlet" => pc'[d] = pc[d]
        /\ pc["tlet"] \in Filled => pc'["tlet"] \in Filled
    BY <1>5, GotoPc DEF TletRun, ReadHw, HwCheck, HwFetch, TletTest, TletClear, zioVars
  <2>2. QED
    BY <1>1, <2>1
<1>6. ASSUME NEW p \in Procs, ProcArm(p) PROVE Payload'
  <2>1. /\ UNCHANGED <<data, attrs>> /\ pc'[p] # "more" /\ pc[p] \notin Filled
        /\ \A d \in Consumers : d # p => pc'[d] = pc[d]
    BY <1>6, GotoPc DEF ProcArm, ArmTrigger
  <2>2. QED
    BY <1>1, <2>1
<1>7. QED
  BY <1>2, <1>3, <1>4, <1>5, <1>6 DEF Next, Tlet

\* The stamps on their way to a user are samples.
LEMMA CarriedTypes ==
  ASSUME TypeOK
  PROVE  /\ \A c \in Consumers : cur[c] \in Samples
         /\ attrs \in Samples /\ \A i \in DOMAIN zbuf : zbuf[i].attrs \in Samples
<1>1. cur \in [Consumers -> Samples] /\ attrs \in Samples
  BY Zenon DEF TypeOK
<1>2. zbuf \in Seq([attrs : Samples, data : Seq(Samples)])
  BY Zenon DEF TypeOK
<1>3. \A i \in DOMAIN zbuf : zbuf[i] \in [attrs : Samples, data : Seq(Samples)]
  <2> DEFINE B == [attrs : Samples, data : Seq(Samples)]
  <2>1. zbuf \in Seq(B)
    BY <1>2
  <2> HIDE DEF B
  <2>2. \A i \in DOMAIN zbuf : zbuf[i] \in B
    BY <2>1
  <2>3. QED
    BY <2>2 DEF B
<1>4. QED
  BY <1>1, <1>3

\* A step that moves no sample to the buffer or towards it keeps the order of the blocks.
Kinds == Pulse \/ Fetches \/ Takes \/ UNCHANGED Stream1

\* The buffered blocks stay as they were promised while samples move, as long as no
\* block is stored, filled or given its stamp.
LEMMA BufferedFrame ==
  ASSUME TypeOK, Window, Buffered, purges = 0, Kinds, UNCHANGED <<zbuf, attrs, cur>>,
         \A c \in Consumers : pc'[c] = "fill" => pc[c] = "fill",
         \A c \in Consumers : pc'[c] \in Filled => pc[c] \in Filled
  PROVE  Buffered'
<1>1. /\ \A c \in Consumers : cur[c] \in Samples
      /\ attrs \in Samples /\ \A i \in DOMAIN zbuf : zbuf[i].attrs \in Samples
  BY CarriedTypes
<1>2. BlocksInOrder'
  BY DEF Buffered, BlocksInOrder
<1>3. \A i \in DOMAIN zbuf' : Past(zbuf[i].attrs)'
  BY <1>1, PastStep DEF Buffered, Kinds, Past
<1>4. ASSUME NEW c \in Consumers, pc'[c] = "fill" PROVE Newer(cur[c])'
  <2>1. Newer(cur[c])
    BY <1>4 DEF Buffered
  <2>2. Past(cur[c])'
    BY <1>1, <2>1, PastStep DEF Newer, Kinds, Past
  <2>3. QED
    BY <2>1, <2>2 DEF Newer
<1>5. ASSUME NEW c \in Consumers, pc'[c] \in Filled PROVE Newer(attrs)'
  <2>1. Newer(attrs)
    BY <1>5 DEF Buffered
  <2>2. Past(attrs)'
    BY <1>1, <2>1, PastStep DEF Newer, Kinds, Past
  <2>3. QED
    BY <2>1, <2>2 DEF Newer
<1>6. QED
  BY <1>2, <1>3, <1>4, <1>5 DEF Buffered

\* The steps of one consumer.
LEMMA BufferedServe ==
  ASSUME TypeOK, OneConsumer, Ring, Ordered, Payload, Buffered, purges = 0, Kinds,
         NEW c \in Consumers, Serve(c)
  PROVE  Buffered'
<1> USE Roles
<1>0. /\ Window
      /\ \A d \in Consumers : d # c => pc'[d] = pc[d]
      /\ pc[c] \in Serving => \A d \in Consumers : d # c => /\ pc'[d] \notin Serving
                                                            /\ pc[d] \notin Serving
  BY ServeMoves DEF Ring, RingInv
<1>1. /\ \A d \in Consumers : cur[d] \in Samples
      /\ attrs \in Samples /\ \A i \in DOMAIN zbuf : zbuf[i].attrs \in Samples
  BY CarriedTypes
<1>2. /\ \A i \in DOMAIN zbuf : Past(zbuf[i].attrs)
      /\ BlocksInOrder
  BY DEF Buffered
<1>3. CASE Take(c)
  <2>1. PICK y : y = log[tail + 1]
    OBVIOUS
  <2>2. /\ tail < head /\ pc[c] = "take" /\ pc'[c] = "fill"
        /\ cur' = [cur EXCEPT ![c] = Slot] /\ UNCHANGED <<zbuf, attrs>>
    BY <1>3, GotoPc DEF Take, Ring, TakeHasSample, zioVars
  <2>3. Slot = y
    <3>1. tail \in tail..head-1
      BY <2>2 DEF TypeOK
    <3>2. QED
      BY <2>1, <3>1 DEF Slot, Ring, RingInv, SlotsHold
  <2>4. Takes
    <3>1. out' = Append(out, Slot) /\ tail' = tail + 1 /\ UNCHANGED <<stamped, hw, head, log>>
      BY <1>3 DEF Take, hwVars
    <3>2. QED
      BY <2>1, <2>2, <2>3, <3>1 DEF Takes
  <2>5. y \in Samples /\ Past(y)' /\ \A x \in Samples : Past(x) => x < y
    BY <1>0, <2>1, <2>4, PastTaken
  <2>6. cur'[c] = y
    BY <2>2, <2>3 DEF TypeOK
  <2>7. Newer(cur[c])'
    BY <1>1, <1>2, <2>2, <2>5, <2>6 DEF Newer, Past
  <2>8. \A i \in DOMAIN zbuf' : Past(zbuf[i].attrs)'
    BY <1>0, <1>1, <1>2, <2>2, PastStep DEF Kinds, Past
  <2>9. BlocksInOrder'
    BY <1>2, <2>2 DEF BlocksInOrder
  <2>10. \A d \in Consumers : pc'[d] \notin Filled /\ (pc'[d] = "fill" => d = c)
    BY <1>0, <2>2 DEF Serving, Filled
  <2>11. QED
    BY <2>7, <2>8, <2>9, <2>10 DEF Buffered
<1>4. CASE Fill(c)
  <2>1. /\ pc[c] = "fill" /\ pc'[c] # "fill" /\ attrs' = cur[c] /\ UNCHANGED <<zbuf, cur>>
    BY <1>4, GotoPc DEF Fill, ReadReturns, Sample
  <2>2. Newer(cur[c])
    BY <2>1 DEF Buffered
  <2>3. Past(cur[c])'
    BY <1>0, <1>1, <2>1, <2>2, PastStep DEF Newer, Kinds, Past
  <2>4. Newer(attrs)'
    BY <2>1, <2>2, <2>3 DEF Newer, Past
  <2>5. \A i \in DOMAIN zbuf' : Past(zbuf[i].attrs)'
    BY <1>0, <1>1, <1>2, <2>1, PastStep DEF Kinds, Past
  <2>6. BlocksInOrder'
    BY <1>2, <2>1 DEF BlocksInOrder
  <2>7. \A d \in Consumers : pc'[d] # "fill"
    BY <1>0, <2>1 DEF Serving
  <2>8. QED
    BY <2>4, <2>5, <2>6, <2>7 DEF Buffered
<1>5. CASE DataDone(c)
  <2>1. /\ pc[c] = "done" /\ pc'[c] \in {"rearm", "idle"}
        /\ zbuf' = zbuf \/ zbuf' = Append(zbuf, [attrs |-> attrs, data |-> data])
        /\ UNCHANGED <<attrs, cur>>
    BY <1>5, GotoPc DEF DataDone, AfterDone
  <2>2. Newer(attrs)
    BY <2>1 DEF Buffered, Filled
  <2>3. Past(attrs)' /\ \A i \in DOMAIN zbuf : zbuf[i].attrs < attrs
    BY <1>0, <1>1, <2>1, <2>2, PastStep DEF Newer, Kinds, Past
  <2>4. \A d \in Consumers : pc'[d] # "fill" /\ pc'[d] \notin Filled
    BY <1>0, <2>1 DEF Serving, Filled
  <2>5. CASE zbuf' = zbuf
    <3>1. \A i \in DOMAIN zbuf' : Past(zbuf[i].attrs)'
      BY <1>0, <1>1, <1>2, <2>5, PastStep DEF Kinds, Past
    <3>2. BlocksInOrder'
      BY <1>2, <2>5 DEF BlocksInOrder
    <3>3. QED
      BY <2>4, <3>1, <3>2 DEF Buffered
  <2>6. CASE zbuf' = Append(zbuf, [attrs |-> attrs, data |-> data])
    <3> DEFINE b == [attrs |-> attrs, data |-> data]
    <3>1. b.attrs = attrs /\ b.data = data /\ (b.data # <<>> => b.data[1] = b.attrs)
      BY DEF Payload
    <3>2. /\ DOMAIN zbuf = 1..Len(zbuf) /\ Len(zbuf) \in Nat /\ DOMAIN zbuf' = 1..Len(zbuf)+1
          /\ zbuf'[Len(zbuf) + 1] = b
          /\ \A i \in 1..Len(zbuf) : zbuf'[i] = zbuf[i]
      BY <2>6 DEF TypeOK
    <3> HIDE DEF b
    <3>3. \A i \in DOMAIN zbuf' : Past(zbuf[i].attrs)'
      <4> SUFFICES ASSUME NEW i \in DOMAIN zbuf' PROVE Past(zbuf[i].attrs)'
        OBVIOUS
      <4>1. CASE i = Len(zbuf) + 1
        BY <2>1, <2>3, <3>1, <3>2, <4>1 DEF Past
      <4>2. CASE i \in DOMAIN zbuf
        <5>1. zbuf'[i] = zbuf[i]
          BY <3>2, <4>2
        <5>2. QED
          BY <1>0, <1>1, <1>2, <4>2, <5>1, PastStep DEF Kinds, Past
      <4>3. QED
        BY <3>2, <4>1, <4>2
    <3>4. BlocksInOrder'
      <4> SUFFICES ASSUME NEW i \in DOMAIN zbuf'
                   PROVE  /\ zbuf'[i].data # <<>> => zbuf'[i].data[1] = zbuf'[i].attrs
                          /\ \A j \in DOMAIN zbuf' : i < j => zbuf'[i].attrs < zbuf'[j].attrs
        BY DEF BlocksInOrder
      <4>1. CASE i = Len(zbuf) + 1
        BY <3>1, <3>2, <4>1
      <4>2. CASE i \in DOMAIN zbuf
        <5>1. zbuf'[i] = zbuf[i] /\ zbuf[i].attrs < attrs
          BY <2>3, <3>2, <4>2
        <5>2. \A j \in DOMAIN zbuf' : j = Len(zbuf) + 1 \/ (j \in DOMAIN zbuf /\ zbuf'[j] = zbuf[j])
          BY <3>2
        <5>3. QED
          BY <1>2, <3>1, <3>2, <4>2, <5>1, <5>2 DEF BlocksInOrder
      <4>3. QED
        BY <3>2, <4>1, <4>2
    <3>5. QED
      BY <2>4, <3>3, <3>4 DEF Buffered
  <2>7. QED
    BY <2>1, <2>5, <2>6
<1>6. CASE Enter(c) \/ Check(c) \/ More(c) \/ Mark(c) \/ Rearm(c)
  <2>1. UNCHANGED <<zbuf, attrs, cur>>
    BY <1>6 DEF Enter, Check, More, Mark, Rearm, ArmTrigger, zioVars
  <2>2. pc'[c] # "fill" /\ (pc'[c] \in Filled => pc[c] \in Filled)
    BY <1>6, GotoPc DEF Enter, Check, More, ReadReturns, Mark, Rearm, ArmTrigger, Filled
  <2>3. QED
    BY <1>0, <2>1, <2>2, BufferedFrame
<1>7. QED
  BY <1>3, <1>4, <1>5, <1>6 DEF Serve

\* Every step.
LEMMA BufferedStep ==
  ASSUME TypeOK, Ownership, Ring, Ordered, Payload, Buffered, purges = 0, Kinds, ~Purge,
         [Next]_vars
  PROVE  Buffered'
<1> USE Roles
<1>0. Window /\ OneConsumer
  BY DEF Ring, RingInv, Ownership
<1>1. CASE UserRead
  <2>1. zbuf # <<>> /\ zbuf' = Tail(zbuf) /\ UNCHANGED <<attrs, cur, pc>>
    BY <1>1 DEF UserRead
  <2>2. \A i \in DOMAIN zbuf' : i + 1 \in DOMAIN zbuf /\ zbuf'[i] = zbuf[i + 1] /\ i \in Nat
    BY <2>1 DEF TypeOK
  <2>3. /\ \A c \in Consumers : cur[c] \in Samples
        /\ attrs \in Samples /\ \A i \in DOMAIN zbuf : zbuf[i].attrs \in Samples
    BY CarriedTypes
  <2>4. UNCHANGED Stream1
    BY <1>1 DEF UserRead, Stream1, hwVars, ringVars
  <2>5. \A i \in DOMAIN zbuf' : Past(zbuf[i].attrs)'
    BY <2>2, <2>4 DEF Buffered, Past, Stream1
  <2>6. BlocksInOrder'
    <3>1. \A i, j \in DOMAIN zbuf' : i < j => i + 1 < j + 1
      BY <2>2
    <3>2. QED
      BY <2>2, <3>1 DEF Buffered, BlocksInOrder
  <2>7. ASSUME NEW c \in Consumers
        PROVE  (pc'[c] = "fill" => Newer(cur[c])') /\ (pc'[c] \in Filled => Newer(attrs)')
    BY <2>1, <2>2, <2>4 DEF Buffered, Newer, Past, Stream1
  <2>8. QED
    BY <2>5, <2>6, <2>7 DEF Buffered
<1>2. CASE Pulse \/ UNCHANGED vars
  <2>1. UNCHANGED <<zbuf, attrs, cur, pc>>
    BY <1>2 DEF Pulse, vars, zioVars
  <2>2. QED
    BY <1>0, <2>1, BufferedFrame
<1>3. CASE Irq
  <2>1. (\E l : Goto("irq", l)) /\ UNCHANGED <<zbuf, attrs, cur>>
    BY <1>3 DEF Irq, IrqRaise, IrqEnter, ReadHw, HwCheck, HwFetch, IrqSchedule, zioVars
  <2>2. \A d \in Consumers : pc'[d] = pc[d]
    BY <2>1, GotoPc
  <2>3. QED
    BY <1>0, <2>1, <2>2, BufferedFrame
<1>4. CASE TletRun \/ ReadHw("tlet") \/ TletTest \/ TletClear
  <2>1. /\ UNCHANGED <<zbuf, attrs, cur>> /\ pc'["tlet"] # "fill"
        /\ \A d \in Consumers : d # "tlet" => pc'[d] = pc[d]
        /\ pc'["tlet"] \in Filled => pc["tlet"] \in Filled
    BY <1>4, GotoPc DEF TletRun, ReadHw, HwCheck, HwFetch, TletTest, TletClear, zioVars, Filled
  <2>2. QED
    BY <1>0, <2>1, BufferedFrame
<1>5. ASSUME NEW p \in Procs, ProcArm(p) PROVE Buffered'
  <2>1. /\ UNCHANGED <<zbuf, attrs, cur>> /\ pc'[p] # "fill" /\ pc'[p] \notin Filled
        /\ \A d \in Consumers : d # p => pc'[d] = pc[d]
    BY <1>5, GotoPc DEF ProcArm, ArmTrigger, Filled
  <2>2. QED
    BY <1>0, <2>1, BufferedFrame
<1>6. ASSUME NEW c \in Consumers, Serve(c) PROVE Buffered'
  BY <1>0, <1>6, BufferedServe
<1>7. QED
  BY <1>1, <1>2, <1>3, <1>4, <1>5, <1>6 DEF Next, Tlet

----------------------------------------------------------------------------
(* The order of the stream, and of the blocks.                             *)

Path  == Ownership /\ Ring
Order == Fetching /\ Ordered /\ HandedOut /\ Payload /\ Buffered

\* At first nothing is queued, handed out or in a block.
LEMMA OrderInit == Init => Order
<1> SUFFICES ASSUME Init PROVE Order
  OBVIOUS
<1>1. /\ hw = <<>> /\ log = <<>> /\ out = <<>> /\ zbuf = <<>> /\ data = <<>>
      /\ ~tsEnable /\ \A c \in Contexts : pc[c] = "idle"
  BY Zenon DEF Init
<1>2. DOMAIN hw = {} /\ DOMAIN log = {} /\ DOMAIN out = {} /\ DOMAIN zbuf = {}
  BY <1>1
<1>3. Fetching
  BY <1>1, Roles DEF Fetching
<1>4. Ordered /\ HandedOut
  BY <1>2 DEF Ordered, Increasing, HandedOut, DataInOrder
<1>5. Payload
  BY <1>1, Roles DEF Payload
<1>6. Buffered
  BY <1>1, <1>2, Roles DEF Buffered, BlocksInOrder, Filled
<1>7. QED
  BY <1>3, <1>4, <1>5, <1>6 DEF Order

\* Every step keeps the order; after a purge nothing is claimed of it.
LEMMA OrderStep ==
  ASSUME TypeOK, Path, Order, [Next]_vars
  PROVE  Order'
<1>1. Fetching' /\ Payload'
  BY FetchingStep, PayloadStep DEF Path, Order
<1>2. CASE purges' # 0
  BY <1>1, <1>2 DEF Order, Ordered, HandedOut, Buffered
<1>3. CASE purges' = 0
  <2>1. purges = 0 /\ Kinds
    BY <1>3, StepKinds DEF Path, Order, Kinds
  <2>2. Window
    BY DEF Path, Ring, RingInv
  <2>3. Ordered' /\ HandedOut'
    BY <2>1, <2>2, OrderedStep, HandedOutStep DEF Order, Kinds
  <2>4. ~Purge
    BY <1>3 DEF Purge, TypeOK
  <2>5. Buffered'
    BY <2>1, <2>4, BufferedStep DEF Path, Order
  <2>6. QED
    BY <1>1, <2>3, <2>5 DEF Order
<1>4. QED
  BY <1>2, <1>3

\* The invariants the runs check, from the first state on.
LEMMA PathInit == Init /\ FifoLen >= 2 => Path
<1> SUFFICES ASSUME Init, FifoLen >= 2 PROVE Path
  OBVIOUS
<1>1. Ownership
  BY Roles DEF Init, Ownership, OneConsumer, ArmedMeansReady, Handshake, IsServing,
               TletReads, Serving
<1>2. head = 0 /\ tail = 0 /\ Len(log) = 0
  BY DEF Init
<1>3. Ring
  BY <1>2, Roles, FifoLenAssumption DEF Init, Ring, RingInv, Window, SlotsHold, TakeHasSample
<1>4. QED
  BY <1>1, <1>3 DEF Path

\* The inductive invariant of the order.
LEMMA OrderHolds == FifoLen >= 2 => (Spec => [](TypeOK /\ Path /\ Order))
<1> SUFFICES ASSUME FifoLen >= 2 PROVE Spec => [](TypeOK /\ Path /\ Order)
  OBVIOUS
<1>1. Init => Path /\ Order
  BY PathInit, OrderInit
<1>2. TypeOK /\ (Path /\ Order) /\ [Next]_vars => (Path /\ Order)'
  BY OwnershipStep, RingStep, OrderStep DEF Path
<1>3. QED
  BY <1>1, <1>2, TypeCorrect, PTL DEF Spec

\* Until somebody purges the hardware fifo, samples leave the software fifo in the order
\* of the pulses and none twice: overflows, the tasklet, the timer and every process that
\* reads together never swap two samples.
THEOREM StreamInOrder == FifoLen >= 2 => (Spec => [](purges = 0 => DataInOrder))
<1> SUFFICES ASSUME FifoLen >= 2 PROVE Spec => [](purges = 0 => DataInOrder)
  OBVIOUS
<1>1. Order => (purges = 0 => DataInOrder)
  BY DEF Order, HandedOut
<1>2. QED
  BY <1>1, OrderHolds, PTL

\* Nor do the blocks: each raw block carries the stamp of its first sample, and the buffer
\* holds them in the order of their pulses.
THEOREM BlocksHold == FifoLen >= 2 => (Spec => [](purges = 0 => BlocksInOrder))
<1> SUFFICES ASSUME FifoLen >= 2 PROVE Spec => [](purges = 0 => BlocksInOrder)
  OBVIOUS
<1>1. Order => (purges = 0 => BlocksInOrder)
  BY DEF Order, Buffered
<1>2. QED
  BY <1>1, OrderHolds, PTL

\* An armed trigger that nobody serves is marked ready, in every mode and at every size
\* of the fifos: the next tasklet that runs serves it.
THEOREM ReadyHolds == Spec => []ArmedMeansReady
<1>1. (OneConsumer /\ ArmedMeansReady) => ArmedMeansReady
  OBVIOUS
<1>2. QED
  BY <1>1, OwnershipHolds, PTL

----------------------------------------------------------------------------
(* The input path is a SampleStream. Its queue is what was pushed and not yet *)
(* taken or dropped, then what waits in the hardware.                       *)

Since(s, t) == SubSeq(s, t + 1, Len(s))

\* A suffix, element by element.
LEMMA SinceProperties ==
  ASSUME NEW s \in Seq(Samples), NEW t \in 0..Len(s)
  PROVE  /\ Since(s, t) \in Seq(Samples) /\ Len(Since(s, t)) = Len(s) - t
         /\ \A i \in 1..Len(s)-t : Since(s, t)[i] = s[t + i]
<1>1. t \in Nat /\ Len(s) \in Nat /\ t <= Len(s)
  OBVIOUS
<1>2. \A i \in t+1..Len(s) : s[i] \in Samples
  BY <1>1
<1>3. QED
  BY <1>1, <1>2, SubSeqProperties DEF Since

\* A suffix followed by another sequence, element by element.
LEMMA JoinProperties ==
  ASSUME NEW s \in Seq(Samples), NEW t \in 0..Len(s), NEW h \in Seq(Samples)
  PROVE  /\ Since(s, t) \o h \in Seq(Samples)
         /\ Len(Since(s, t) \o h) = Len(s) - t + Len(h)
         /\ \A i \in 1..Len(s)-t : (Since(s, t) \o h)[i] = s[t + i]
         /\ \A i \in Len(s)-t+1..Len(s)-t+Len(h) : (Since(s, t) \o h)[i] = h[i - (Len(s) - t)]
<1>1. /\ Since(s, t) \in Seq(Samples) /\ Len(Since(s, t)) = Len(s) - t
      /\ \A i \in 1..Len(s)-t : Since(s, t)[i] = s[t + i]
  BY SinceProperties
<1>2. t \in Nat /\ Len(s) \in Nat /\ t <= Len(s) /\ Len(h) \in Nat
  OBVIOUS
<1> DEFINE w == Since(s, t)
<1> HIDE DEF w
<1>3. w \in Seq(Samples) /\ Len(w) = Len(s) - t /\ \A i \in 1..Len(s)-t : w[i] = s[t + i]
  BY <1>1 DEF w
<1>4. /\ w \o h \in Seq(Samples)
      /\ Len(w \o h) = Len(w) + Len(h)
      /\ \A i \in 1..Len(w)+Len(h) : (w \o h)[i] = IF i <= Len(w) THEN w[i] ELSE h[i - Len(w)]
  BY <1>3, ConcatProperties
<1>5. /\ \A i \in 1..Len(w) : i \in 1..Len(w)+Len(h) /\ i <= Len(w)
      /\ \A i \in Len(w)+1..Len(w)+Len(h) : i \in 1..Len(w)+Len(h) /\ ~(i <= Len(w))
  BY <1>2, <1>3
<1>6. /\ \A i \in 1..Len(w) : (w \o h)[i] = w[i]
      /\ \A i \in Len(w)+1..Len(w)+Len(h) : (w \o h)[i] = h[i - Len(w)]
  BY <1>4, <1>5
<1>7. QED
  BY <1>3, <1>4, <1>6 DEF w

\* A new element joins at the end.
LEMMA JoinAppend ==
  ASSUME NEW s \in Seq(Samples), NEW h \in Seq(Samples), NEW x \in Samples
  PROVE  s \o Append(h, x) = Append(s \o h, x)
<1>1. Append(h, x) = h \o <<x>> /\ <<x>> \in Seq(Samples) /\ s \o h \in Seq(Samples)
  BY AppendIsConcat, ConcatProperties
<1>2. Append(s \o h, x) = (s \o h) \o <<x>>
  BY <1>1, AppendIsConcat
<1>3. QED
  BY <1>1, <1>2, ConcatAssociative

\* Moving the first waiting sample from the hardware to the software changes nothing.
LEMMA JoinMove ==
  ASSUME NEW s \in Seq(Samples), NEW t \in 0..Len(s), NEW h \in Seq(Samples), h # <<>>
  PROVE  Since(Append(s, h[1]), t) \o Tail(h) = Since(s, t) \o h
<1> DEFINE n == Len(s) - t
           m == Len(h)
           a == Append(s, h[1])
           q == Since(s, t) \o h
           r == Since(a, t) \o Tail(h)
<1>1. n \in Nat /\ m \in Nat /\ m >= 1 /\ t \in Nat /\ Len(s) \in Nat /\ h[1] \in Samples
  OBVIOUS
<1>2. /\ a \in Seq(Samples) /\ Len(a) = Len(s) + 1 /\ a[Len(s) + 1] = h[1]
      /\ \A i \in 1..Len(s) : a[i] = s[i]
  BY <1>1
<1>3. Tail(h) \in Seq(Samples) /\ Len(Tail(h)) = m - 1 /\ \A i \in 1..m-1 : Tail(h)[i] = h[i + 1]
  BY HeadTailProperties
<1>4. /\ q \in Seq(Samples) /\ Len(q) = n + m
      /\ \A i \in 1..n : q[i] = s[t + i]
      /\ \A i \in n+1..n+m : q[i] = h[i - n]
  BY JoinProperties
<1> HIDE DEF a
<1>5. /\ r \in Seq(Samples) /\ Len(r) = (n + 1) + (m - 1)
      /\ \A i \in 1..n+1 : r[i] = a[t + i]
      /\ \A i \in n+2..n+m : r[i] = Tail(h)[i - (n + 1)]
  <2>1. t \in 0..Len(a) /\ Len(a) - t = n + 1
    BY <1>1, <1>2
  <2> HIDE DEF n, m
  <2>2. /\ r \in Seq(Samples) /\ Len(r) = Len(a) - t + Len(Tail(h))
        /\ \A i \in 1..Len(a)-t : r[i] = a[t + i]
        /\ \A i \in Len(a)-t+1..Len(a)-t+Len(Tail(h)) : r[i] = Tail(h)[i - (Len(a) - t)]
    BY <1>2, <1>3, <2>1, JoinProperties
  <2> HIDE DEF r
  <2>3. /\ Len(r) = (n + 1) + (m - 1)
        /\ \A i \in 1..n+1 : r[i] = a[t + i]
        /\ \A i \in n+2..n+m : r[i] = Tail(h)[i - (n + 1)]
    <3>1. /\ Len(a) - t + Len(Tail(h)) = (n + 1) + (m - 1)
          /\ Len(a) - t + Len(Tail(h)) = n + m /\ Len(a) - t + 1 = n + 2
      BY <1>1, <1>3, <2>1
    <3>2. QED
      BY <2>1, <2>2, <3>1
  <2>4. QED
    BY <2>2, <2>3
<1>10. Len(s) - t = n
  OBVIOUS
<1> HIDE DEF q, r, n, m
<1>6. \A i \in 1..n+m : q[i] = r[i]
  <2> SUFFICES ASSUME NEW i \in 1..n+m PROVE q[i] = r[i]
    OBVIOUS
  <2>1. CASE i <= n
    <3>1. q[i] = s[t + i] /\ r[i] = a[t + i] /\ t + i \in 1..Len(s)
      BY <1>1, <1>4, <1>5, <1>10, <2>1
    <3>2. QED
      BY <1>2, <3>1
  <2>2. CASE i = n + 1
    <3>1. i \in n+1..n+m /\ i - n = 1 /\ i \in 1..n+1 /\ t + i = Len(s) + 1
      BY <1>1, <1>10, <2>2
    <3>2. q[i] = h[1] /\ r[i] = a[t + i]
      BY <1>4, <1>5, <3>1
    <3>3. QED
      BY <1>2, <3>1, <3>2
  <2>3. CASE i > n + 1
    <3>0. i \in n+1..n+m /\ i \in n+2..n+m
      BY <1>1, <2>3
    <3>1. q[i] = h[i - n] /\ r[i] = Tail(h)[i - (n + 1)]
      BY <1>4, <1>5, <3>0
    <3>2. i - (n + 1) \in 1..m-1 /\ (i - (n + 1)) + 1 = i - n
      BY <1>1, <2>3
    <3>3. QED
      BY <1>3, <3>1, <3>2
  <2>4. QED
    BY <1>1, <2>1, <2>2, <2>3
<1>7. Len(q) = n + m /\ Len(r) = n + m
  BY <1>1, <1>4, <1>5
<1>8. q = r
  BY <1>4, <1>5, <1>6, <1>7, SeqEqual
<1>9. QED
  BY <1>8 DEF q, r, a, n

\* Dropping d of the pushed samples drops the first d of the queue.
LEMMA JoinDrop ==
  ASSUME NEW s \in Seq(Samples), NEW t \in 0..Len(s), NEW h \in Seq(Samples),
         NEW d \in 0..Len(s)-t
  PROVE  Since(s, t + d) \o h = SubSeq(Since(s, t) \o h, d + 1, Len(Since(s, t) \o h))
<1> DEFINE n == Len(s) - t
           m == Len(h)
           q == Since(s, t) \o h
           r == Since(s, t + d) \o h
           u == SubSeq(q, d + 1, Len(q))
<1>1. n \in Nat /\ m \in Nat /\ t \in Nat /\ Len(s) \in Nat /\ d \in Nat /\ d <= n
      /\ t + d \in 0..Len(s) /\ Len(s) - (t + d) = n - d
  OBVIOUS
<1>2. /\ q \in Seq(Samples) /\ Len(q) = n + m
      /\ \A i \in 1..n : q[i] = s[t + i]
      /\ \A i \in n+1..n+m : q[i] = h[i - n]
  BY JoinProperties
<1>3. /\ r \in Seq(Samples) /\ Len(r) = n - d + m
      /\ \A i \in 1..n-d : r[i] = s[t + d + i]
      /\ \A i \in n-d+1..n-d+m : r[i] = h[i - (n - d)]
  <2>1. /\ r \in Seq(Samples) /\ Len(r) = Len(s) - (t + d) + Len(h)
        /\ \A i \in 1..Len(s)-(t+d) : r[i] = s[t + d + i]
        /\ \A i \in Len(s)-(t+d)+1..Len(s)-(t+d)+Len(h) : r[i] = h[i - (Len(s) - (t + d))]
    BY <1>1, JoinProperties
  <2> HIDE DEF r
  <2>2. QED
    BY <1>1, <2>1
<1> HIDE DEF q, r, n, m
<1>4. /\ u \in Seq(Samples) /\ Len(u) = n + m - d
      /\ \A i \in 1..n+m-d : u[i] = q[d + i]
  <2>1. \A i \in d+1..n+m : q[i] \in Samples
    BY <1>1, <1>2, SMTT(30)
  <2>2. d + 1 \in Int /\ n + m \in Int
    BY <1>1
  <2>3. u = SubSeq(q, d + 1, n + m)
    BY <1>2
  <2>4. u \in Seq(Samples)
    BY <2>1, <2>2, <2>3, SubSeqProperties
  <2>5. Len(u) = IF d + 1 <= n + m THEN (n + m) - (d + 1) + 1 ELSE 0
    <3> DEFINE lo == d + 1
               hi == n + m
    <3>1. lo \in Int /\ hi \in Int /\ \A i \in lo..hi : q[i] \in Samples
      BY <2>1, <2>2
    <3>2. u = SubSeq(q, lo, hi)
      BY <2>3
    <3> HIDE DEF lo, hi
    <3>3. Len(SubSeq(q, lo, hi)) = IF lo <= hi THEN hi - lo + 1 ELSE 0
      BY <3>1, SubSeqProperties
    <3> HIDE DEF u
    <3>4. QED
      BY <3>2, <3>3 DEF lo, hi
  <2>6. \A i \in 1..(n+m)-(d+1)+1 : SubSeq(q, d + 1, n + m)[i] = q[(d + 1) + i - 1]
    BY <2>1, <2>2, SubSeqProperties
  <2> HIDE DEF u
  <2>7. Len(u) = n + m - d
    <3>1. /\ d + 1 <= n + m => n + m - (d + 1) + 1 = n + m - d
          /\ ~(d + 1 <= n + m) => n + m - d = 0
      BY <1>1
    <3>2. QED
      BY <1>1, <2>5, <3>1
  <2>8. ASSUME NEW i \in 1..n+m-d PROVE u[i] = q[d + i]
    <3>1. i \in 1..(n+m)-(d+1)+1 /\ (d + 1) + i - 1 = d + i
      BY <1>1
    <3>2. SubSeq(q, d + 1, n + m)[i] = q[(d + 1) + i - 1]
      BY <2>6, <3>1
    <3>3. QED
      BY <2>3, <3>1, <3>2
  <2>9. QED
    BY <2>4, <2>7, <2>8, Zenon
<1> HIDE DEF u
<1>5. \A i \in 1..n+m-d : r[i] = u[i]
  <2> SUFFICES ASSUME NEW i \in 1..n+m-d PROVE r[i] = u[i]
    OBVIOUS
  <2>1. CASE i <= n - d
    <3>1. r[i] = s[t + d + i] /\ u[i] = q[d + i] /\ q[d + i] = s[t + (d + i)]
      BY <1>1, <1>2, <1>3, <1>4, <2>1
    <3>2. t + (d + i) = t + d + i
      BY <1>1
    <3>3. QED
      BY <3>1, <3>2
  <2>2. CASE i > n - d
    <3>0. i \in n-d+1..n-d+m /\ d + i \in n+1..n+m
      BY <1>1, <2>2
    <3>1. r[i] = h[i - (n - d)] /\ u[i] = q[d + i] /\ q[d + i] = h[(d + i) - n]
      BY <1>2, <1>3, <1>4, <3>0
    <3>2. (d + i) - n = i - (n - d)
      BY <1>1
    <3>3. QED
      BY <3>1, <3>2
  <2>3. QED
    BY <1>1, <2>1, <2>2
<1>6. Len(r) = n + m - d
  BY <1>1, <1>3
<1>7. r = u
  BY <1>3, <1>4, <1>5, <1>6, SeqEqual
<1>8. QED
  BY <1>7 DEF q, r, u

\* The queue of the abstract stream, as the log and the hardware fifo hold it.
LEMMA QueueIs == TypeOK /\ RingInv => QueuedSamples = Since(log, tail) \o hw
<1> SUFFICES ASSUME TypeOK, Window, SlotsHold PROVE QueuedSamples = Since(log, tail) \o hw
  BY DEF RingInv
<1>1. /\ head \in Nat /\ tail \in Nat /\ tail <= head /\ head = Len(log) /\ log \in Seq(Samples)
      /\ tail \in 0..Len(log)
  BY DEF TypeOK, Window
<1>2. /\ Since(log, tail) \in Seq(Samples) /\ Len(Since(log, tail)) = head - tail
      /\ \A i \in 1..head-tail : Since(log, tail)[i] = log[tail + i]
  BY <1>1, SinceProperties
<1>3. \A i \in 1..head-tail : fifo[(tail + i - 1) % FifoLen] = log[tail + i]
  <2> SUFFICES ASSUME NEW i \in 1..head-tail
               PROVE  fifo[(tail + i - 1) % FifoLen] = log[tail + i]
    OBVIOUS
  <2>1. tail + i - 1 \in tail..head-1 /\ (tail + i - 1) + 1 = tail + i
    BY <1>1
  <2>2. QED
    BY <2>1 DEF SlotsHold
<1>4. [i \in 1..(head - tail) |-> fifo[(tail + i - 1) % FifoLen]] = Since(log, tail)
  <2> DEFINE w == Since(log, tail)
  <2>1. w = [i \in 1..(head - tail) |-> w[i]]
    BY <1>2, LenProperties
  <2> HIDE DEF w
  <2>2. \A i \in 1..head-tail : w[i] = log[tail + i]
    BY <1>2 DEF w
  <2>3. [i \in 1..(head - tail) |-> fifo[(tail + i - 1) % FifoLen]]
        = [i \in 1..(head - tail) |-> w[i]]
    BY <1>3, <2>2
  <2>4. QED
    BY <2>1, <2>3 DEF w
<1>5. QED
  BY <1>4 DEF QueuedSamples

\* Until somebody purges, each kind of step is one of the stream's, or leaves it alone.
LEMMA StreamStep ==
  ASSUME FifoLen >= 2, TypeOK, TypeOK', RingInv, RingInv', Kinds
  PROVE  [Stream!Next]_(Stream!streamVars)
<1> DEFINE q == QueuedSamples
           s == Since(log, tail)
<1>1. /\ head \in Nat /\ tail \in Nat /\ tail <= head /\ head - tail <= FifoLen /\ head = Len(log)
      /\ log \in Seq(Samples) /\ hw \in Seq(Samples) /\ tail \in 0..Len(log)
      /\ FifoLen \in Nat /\ FifoLen \div 2 \in 0..FifoLen
  <2>1. /\ head \in Nat /\ tail \in Nat /\ tail <= head /\ head - tail <= FifoLen
        /\ head = Len(log) /\ log \in Seq(Samples) /\ hw \in Seq(Samples)
    BY Zenon DEF TypeOK, RingInv, Window
  <2>2. FifoLen \in Nat /\ FifoLen \div 2 \in 0..FifoLen
    BY FifoLenAssumption
  <2>3. QED
    BY <2>1, <2>2
<1>2. q = s \o hw
  BY QueueIs
<1>3. q' = Since(log', tail') \o hw'
  <2>1. TypeOK' /\ RingInv' => (QueuedSamples = Since(log, tail) \o hw)'
    BY QueueIs, PTL
  <2>2. QED
    BY <2>1
<1>4. s \in Seq(Samples) /\ Len(s) = head - tail
  BY <1>1, SinceProperties
<1>5. q \in Seq(Samples) /\ Len(q) = (head - tail) + Len(hw)
  <2>1. s \o hw \in Seq(Samples) /\ Len(s \o hw) = Len(s) + Len(hw)
    <3> HIDE DEF s
    <3>1. QED
      BY <1>1, <1>4, ConcatProperties
  <2>2. QED
    BY <1>2, <1>4, <2>1
<1> HIDE DEF q
<1>6. CASE Pulse
  <2>1. /\ stamped' = stamped + 1 /\ UNCHANGED <<log, tail, out>>
        /\ hw' = IF Len(hw) < HwLen THEN Append(hw, stamped + 1) ELSE hw
    BY <1>6 DEF Pulse, ringVars
  <2>2. stamped + 1 \in Samples
    BY <2>1 DEF TypeOK
  <2>3. CASE Len(hw) < HwLen
    <3>1. q' = Append(q, stamped + 1)
      <4> HIDE DEF s
      <4>1. q' = Since(log, tail) \o Append(hw, stamped + 1)
        BY <1>3, <2>1, <2>3
      <4>2. s \o Append(hw, stamped + 1) = Append(s \o hw, stamped + 1)
        BY <1>1, <1>4, <2>2, JoinAppend
      <4>3. QED
        BY <1>2, <4>1, <4>2 DEF s
    <3>2. Stream!Stamp
      BY <2>1, <3>1 DEF Stream!Stamp, q
    <3>3. QED
      BY <3>2 DEF Stream!Next
  <2>4. CASE ~(Len(hw) < HwLen)
    <3>1. hw' = hw
      BY <2>1, <2>4
    <3>2. q' = q
      BY <1>2, <1>3, <2>1, <3>1
    <3>3. Len(q) >= HwLen
      BY <1>1, <1>5, <2>4, BoundsAssumption
    <3>4. Stream!Miss
      BY <2>1, <3>2, <3>3 DEF Stream!Miss, q
    <3>5. QED
      BY <3>4 DEF Stream!Next
  <2>5. QED
    BY <2>3, <2>4
<1>7. CASE Fetches
  <2>1. /\ hw # <<>> /\ hw' = Tail(hw) /\ log' = Append(log, hw[1]) /\ UNCHANGED <<stamped, out>>
        /\ tail' = IF head - tail >= FifoLen THEN tail + FifoLen \div 2 ELSE tail
    BY <1>7 DEF Fetches
  <2>2. CASE head - tail >= FifoLen
    <3> DEFINE d == FifoLen \div 2
    <3>1. head - tail = FifoLen /\ tail' = tail + d /\ d \in 0..Len(log)-tail
          /\ tail + d \in 0..Len(log)
      BY <1>1, <2>1, <2>2
    <3> HIDE DEF d
    <3>2. q' = Since(log, tail + d) \o hw
      BY <1>1, <1>3, <2>1, <3>1, JoinMove
    <3>3. q' = SubSeq(q, d + 1, Len(q))
      <4>1. Since(log, tail + d) \o hw = SubSeq(s \o hw, d + 1, Len(s \o hw))
        BY <1>1, <3>1, JoinDrop
      <4> HIDE DEF s
      <4>2. QED
        BY <1>2, <3>2, <4>1
    <3>4. Len(q) > FifoLen
      <4>1. Len(hw) >= 1
        BY <1>1, <2>1
      <4>2. QED
        BY <1>1, <1>5, <3>1, <4>1
    <3>5. Stream!DropHalf
      BY <2>1, <3>3, <3>4 DEF Stream!DropHalf, q, d
    <3>6. QED
      BY <3>5 DEF Stream!Next
  <2>3. CASE ~(head - tail >= FifoLen)
    <3>1. tail' = tail
      BY <2>1, <2>3
    <3>2. q' = s \o hw
      BY <1>1, <1>3, <2>1, <3>1, JoinMove
    <3>3. q' = q
      BY <1>2, <3>2
    <3>4. QED
      BY <2>1, <3>3 DEF Stream!streamVars, q
  <2>4. QED
    BY <2>2, <2>3
<1>8. CASE Takes
  <2>1. /\ tail < head /\ tail' = tail + 1 /\ out' = Append(out, log[tail + 1])
        /\ UNCHANGED <<stamped, hw, log>>
    BY <1>8 DEF Takes
  <2>2. 1 \in 0..Len(log)-tail /\ 1 \in 1..Len(log)-tail
    BY <1>1, <2>1
  <2>3. q' = SubSeq(q, 2, Len(q))
    <3>1. Since(log, tail + 1) \o hw = SubSeq(s \o hw, 1 + 1, Len(s \o hw))
      BY <1>1, <2>2, JoinDrop
    <3>2. q' = Since(log, tail + 1) \o hw
      BY <1>3, <2>1
    <3> HIDE DEF s, q
    <3>3. 1 + 1 = 2
      OBVIOUS
    <3>4. QED
      BY <1>2, <3>1, <3>2, <3>3
  <2>4. q # <<>>
    BY <1>1, <1>5, <2>1
  <2>5. Tail(q) = SubSeq(q, 2, Len(q))
    BY <1>5, <2>4, TailIsSubSeq
  <2>6. Head(q) = log[tail + 1]
    <3>1. (s \o hw)[1] = log[tail + 1]
      BY <1>1, <2>2, JoinProperties
    <3>2. q[1] = log[tail + 1]
      BY <1>2, <3>1
    <3>3. QED
      BY <2>4, <3>2
  <2>7. Stream!HandOut
    BY <2>1, <2>3, <2>4, <2>5, <2>6 DEF Stream!HandOut, q
  <2>8. QED
    BY <2>7 DEF Stream!Next
<1>9. CASE UNCHANGED Stream1
  <2>1. UNCHANGED <<stamped, hw, tail, log, out>>
    BY <1>9 DEF Stream1
  <2>2. q' = q
    BY <1>2, <1>3, <2>1
  <2>3. QED
    BY <2>1, <2>2 DEF Stream!streamVars, q
<1>10. QED
  BY <1>6, <1>7, <1>8, <1>9 DEF Kinds

\* At first the queue is empty.
LEMMA StreamInit == TypeOK /\ RingInv /\ Init => Stream!Init
<1> SUFFICES ASSUME TypeOK, RingInv, Init PROVE Stream!Init
  OBVIOUS
<1>1. QueuedSamples = Since(log, tail) \o hw /\ log = <<>> /\ hw = <<>> /\ tail = 0
  BY QueueIs DEF Init
<1>2. log \in Seq(Samples) /\ hw \in Seq(Samples) /\ tail \in 0..Len(log)
      /\ Len(log) = 0 /\ Len(hw) = 0
  BY <1>1 DEF TypeOK
<1>3. QueuedSamples = <<>>
  <2> DEFINE w == Since(log, tail) \o hw
  <2>1. w \in Seq(Samples) /\ Len(w) = Len(log) - tail + Len(hw)
    BY <1>2, JoinProperties
  <2> HIDE DEF w
  <2>2. w = <<>>
    BY <1>1, <1>2, <2>1
  <2>3. QED
    BY <1>1, <2>2 DEF w
<1>4. QED
  BY <1>1, <1>3 DEF Stream!Init, Init

\* A behaviour in which nobody purges the hardware fifo is a behaviour of SampleStream:
\* whatever the interrupt, the tasklet, the timer and the processes do, samples are handed
\* out in order, and the only ones lost are those that found the hardware full and the
\* oldest half of a full software fifo.
THEOREM StreamRefined == FifoLen >= 2 => (Spec /\ [](purges = 0) => RefinesStream)
<1> SUFFICES ASSUME FifoLen >= 2 PROVE Spec /\ [](purges = 0) => RefinesStream
  OBVIOUS
<1> DEFINE Inv == TypeOK /\ Path /\ Order
<1>1. Inv /\ Init => Stream!Init
  BY StreamInit DEF Path, Ring
<1>2. Inv /\ Inv' /\ (purges = 0)' /\ [Next]_vars => [Stream!Next]_(Stream!streamVars)
  <2> SUFFICES ASSUME Inv, Inv', (purges = 0)', [Next]_vars
               PROVE  [Stream!Next]_(Stream!streamVars)
    OBVIOUS
  <2>1. Kinds
    BY StepKinds DEF Path, Order, Kinds
  <2>2. RingInv /\ RingInv'
    BY DEF Path, Ring
  <2>3. QED
    BY <2>1, <2>2, StreamStep
<1>3. Spec => []Inv
  BY OrderHolds
<1> HIDE DEF Inv
<1>4. QED
  BY <1>1, <1>2, <1>3, PTL DEF Spec, RefinesStream, Stream!Spec
============================================================================
