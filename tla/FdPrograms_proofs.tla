-------------------------- MODULE FdPrograms_proofs --------------------------
(***************************************************************************)
(* Theorems about the programs that read stamps: for every set of them,    *)
(* size of the sequence numbers, of the buffer and of the blocks.          *)
(***************************************************************************)
EXTENDS FdPrograms, SequenceTheorems, TLAPS

\* The sizes that the assumption bounds are numbers above zero.
LEMMA Sizes ==
  /\ SeqSize \in Nat \ {0} /\ BufLen \in Nat \ {0} /\ BlockLen \in Nat \ {0}
  /\ ReadLen \in Nat \ {0} /\ Retries \in Nat /\ MaxSamples \in Nat /\ MaxRuns \in Nat
BY ProgramsAssumption

----------------------------------------------------------------------------
(* The samples that a program has read and those that wait for it.         *)

Blocks == [at : 0..MaxSamples, n : 1..BlockLen]

After(a, b) == a.at + a.n <= b.at

\* Blocks wait in the order of their numbers, after all those that were read; the driver
\* has numbered them all, and puts one sample in each unless the mode is raw.
InOrder ==
  /\ \A j, k \in 1..Len(queue) : j < k => After(queue[j], queue[k])
  /\ \A j, k \in 1..Len(got) : j < k => After(got[j], got[k])
  /\ \A j \in 1..Len(got), k \in 1..Len(queue) : After(got[j], queue[k])
  /\ \A k \in 1..Len(queue) : queue[k].at + queue[k].n <= sent /\ (~raw => queue[k].n = 1)
  /\ \A k \in 1..Len(got) : got[k].at + got[k].n <= sent /\ (~raw => got[k].n = 1)

DeviceInv ==
  /\ raw \in BOOLEAN /\ sent \in 0..MaxSamples
  /\ queue \in Seq(Blocks) /\ Len(queue) <= BufLen /\ got \in Seq(Blocks)
  /\ InOrder

\* What a step may do to them.
Reads == Take /\ got' = Append(got, Head(queue))

\* What a step can do to the device and to what was read: nothing, a sample that comes,
\* a block that is read, or a program that starts with nothing read.
LEMMA StepKinds ==
  ASSUME [Next]_vars
  PROVE  \/ UNCHANGED <<device, got>>
         \/ \E n \in 1..BlockLen : \E m \in n..MaxSamples : Arrive(n, m)
         \/ Reads
         \/ UNCHANGED device /\ got' = <<>>
<1>1. ASSUME NEW p \in Programs, NEW want, NEW offset, NEW last, Start(p, want, offset, last)
      PROVE  UNCHANGED device /\ got' = <<>>
  BY <1>1 DEF Start, Fresh
<1>2. CASE GetConfig \/ SetTermination \/ WrLocked \/ WrNotLocked \/ WriteOffset
  BY <1>2 DEF GetConfig, SetTermination, WrLocked, WrNotLocked, WriteOffset
<1>3. CASE Killed \/ Ends \/ ReadAgain \/ ReadFails \/ CloseBoard
  BY <1>3 DEF Killed, Ends, ReadAgain, ReadFails, CloseBoard
<1>4. CASE ReadTwice \/ PerfReport
  BY <1>4 DEF ReadTwice, PerfReport
<1>5. CASE ReadOne \/ RawInput \/ RawPerf
  BY <1>5 DEF ReadOne, RawInput, RawPerf, Reads
<1>6. CASE RawBlock
  BY <1>6 DEF RawBlock, Reads
<1>7. CASE GsSample \/ DumplogSample
  BY <1>7 DEF GsSample, DumplogSample, Reads
<1>8. CASE SecondPasses \/ EnterReadout \/ LogWrite \/ LeaveReadout
  BY <1>8 DEF SecondPasses, EnterReadout, LogWrite, LeaveReadout
<1>9. CASE UNCHANGED vars
  BY <1>9 DEF vars
<1>10. QED
  BY <1>1, <1>2, <1>3, <1>4, <1>5, <1>6, <1>7, <1>8, <1>9 DEF Next

\* What is read is the first of those that wait.
LEMMA ReadsStep ==
  ASSUME DeviceInv, Reads
  PROVE  /\ Head(queue) = queue[1] /\ Head(queue) \in Blocks /\ Len(queue) \in Nat \ {0}
         /\ queue' \in Seq(Blocks) /\ Len(queue') = Len(queue) - 1
         /\ \A k \in 1..Len(queue') : queue'[k] = queue[k + 1]
         /\ got' \in Seq(Blocks) /\ Len(got') = Len(got) + 1 /\ Len(got) \in Nat
         /\ \A k \in 1..Len(got) : got'[k] = got[k]
         /\ got'[Len(got) + 1] = Head(queue)
         /\ raw' = raw /\ sent' = sent
<1>1. /\ queue \in Seq(Blocks) /\ queue # <<>> /\ queue' = Tail(queue)
      /\ got \in Seq(Blocks) /\ got' = Append(got, Head(queue))
      /\ raw' = raw /\ sent' = sent
  BY DEF DeviceInv, Reads, Take
<1>2. /\ Head(queue) \in Blocks /\ queue' \in Seq(Blocks) /\ Len(queue') = Len(queue) - 1
      /\ \A k \in 1..Len(queue') : queue'[k] = queue[k + 1]
  BY <1>1, HeadTailProperties
<1>3. Head(queue) = queue[1] /\ Len(queue) \in Nat \ {0} /\ Len(got) \in Nat
  BY <1>1, EmptySeq, LenProperties
<1>4. /\ got' \in Seq(Blocks) /\ Len(got') = Len(got) + 1
      /\ \A k \in 1..Len(got) : got'[k] = got[k]
      /\ got'[Len(got) + 1] = Head(queue)
  BY <1>1, <1>2, <1>3
<1>5. QED
  BY <1>1, <1>2, <1>3, <1>4

\* Reading the oldest block keeps the blocks in order.
LEMMA ReadsOrder ==
  ASSUME DeviceInv, Reads
  PROVE  DeviceInv'
<1> DEFINE m == Len(queue)   n == Len(got)
<1>1. /\ Head(queue) = queue[1] /\ m \in Nat \ {0} /\ m <= BufLen /\ BufLen \in Nat
      /\ queue' \in Seq(Blocks) /\ Len(queue') = m - 1
      /\ \A k \in 1..Len(queue') : queue'[k] = queue[k + 1]
      /\ got' \in Seq(Blocks) /\ Len(got') = n + 1 /\ n \in Nat
      /\ \A k \in 1..n : got'[k] = got[k]
      /\ got'[n + 1] = Head(queue)
      /\ raw' = raw /\ sent' = sent
  BY ReadsStep, Sizes DEF DeviceInv
<1>2. /\ \A j, k \in 1..m : j < k => After(queue[j], queue[k])
      /\ \A j, k \in 1..n : j < k => After(got[j], got[k])
      /\ \A j \in 1..n, k \in 1..m : After(got[j], queue[k])
      /\ \A k \in 1..m : queue[k].at + queue[k].n <= sent /\ (~raw => queue[k].n = 1)
      /\ \A k \in 1..n : got[k].at + got[k].n <= sent /\ (~raw => got[k].n = 1)
  BY DEF DeviceInv, InOrder
<1> HIDE DEF m, n
<1>3. \A k \in 1..m-1 : queue'[k] = queue[k + 1] /\ k + 1 \in 1..m
  BY <1>1
<1>4. \A k \in 1..n+1 : \/ k \in 1..n /\ got'[k] = got[k]
                        \/ k = n + 1 /\ got'[k] = queue[1]
  BY <1>1
<1>5. 1 \in 1..m
  BY <1>1
<1>6. \A j, k \in 1..m-1 : j < k => After(queue'[j], queue'[k])
  <2>1. SUFFICES ASSUME NEW j \in 1..m-1, NEW k \in 1..m-1, j < k
                 PROVE  After(queue'[j], queue'[k])
    OBVIOUS
  <2>2. j + 1 \in 1..m /\ k + 1 \in 1..m /\ j + 1 < k + 1
    BY <1>3, <2>1
  <2>3. QED
    BY <1>2, <1>3, <2>2
<1>7. \A j, k \in 1..n+1 : j < k => After(got'[j], got'[k])
  <2>1. SUFFICES ASSUME NEW j \in 1..n+1, NEW k \in 1..n+1, j < k
                 PROVE  After(got'[j], got'[k])
    OBVIOUS
  <2>2. j \in 1..n /\ got'[j] = got[j]
    BY <1>1, <1>4, <2>1
  <2>3. CASE k \in 1..n /\ got'[k] = got[k]
    BY <1>2, <2>1, <2>2, <2>3
  <2>4. CASE got'[k] = queue[1]
    BY <1>2, <1>5, <2>2, <2>4
  <2>5. QED
    BY <1>4, <2>3, <2>4
<1>8. \A j \in 1..n+1, k \in 1..m-1 : After(got'[j], queue'[k])
  <2>1. SUFFICES ASSUME NEW j \in 1..n+1, NEW k \in 1..m-1
                 PROVE  After(got'[j], queue'[k])
    OBVIOUS
  <2>2. queue'[k] = queue[k + 1] /\ k + 1 \in 1..m /\ 1 < k + 1
    BY <1>3
  <2>3. CASE j \in 1..n /\ got'[j] = got[j]
    BY <1>2, <2>2, <2>3
  <2>4. CASE got'[j] = queue[1]
    BY <1>2, <1>5, <2>2, <2>4
  <2>5. QED
    BY <1>4, <2>3, <2>4
<1>9. \A k \in 1..m-1 : queue'[k].at + queue'[k].n <= sent /\ (~raw => queue'[k].n = 1)
  BY <1>2, <1>3
<1>10. \A k \in 1..n+1 : got'[k].at + got'[k].n <= sent /\ (~raw => got'[k].n = 1)
  BY <1>2, <1>4, <1>5
<1>11. InOrder'
  BY <1>1, <1>6, <1>7, <1>8, <1>9, <1>10 DEF InOrder
<1>12. Len(queue') <= BufLen
  BY <1>1
<1>13. QED
  BY <1>1, <1>11, <1>12 DEF DeviceInv

\* Samples arrive.
LEMMA ArriveOrder ==
  ASSUME DeviceInv, NEW c \in 1..BlockLen, NEW w \in c..MaxSamples, Arrive(c, w)
  PROVE  DeviceInv'
<1> DEFINE m == Len(queue)   n == Len(got)   b == [at |-> sent, n |-> c]
<1>1. /\ raw \in BOOLEAN /\ sent \in Nat /\ sent + w <= MaxSamples /\ sent' = sent + w
      /\ raw' = raw /\ got' = got /\ (c > 1 => raw) /\ c \in Nat /\ c >= 1
      /\ w \in Nat /\ w >= c
      /\ queue \in Seq(Blocks) /\ got \in Seq(Blocks) /\ m <= BufLen
      /\ MaxSamples \in Nat /\ BufLen \in Nat
  BY Sizes DEF DeviceInv, Arrive, device
<1>2. b \in Blocks
  BY <1>1 DEF Blocks
<1>3. m \in Nat /\ n \in Nat
  BY <1>1, LenProperties
<1>4. /\ \A j, k \in 1..m : j < k => After(queue[j], queue[k])
      /\ \A j, k \in 1..n : j < k => After(got[j], got[k])
      /\ \A j \in 1..n, k \in 1..m : After(got[j], queue[k])
      /\ \A k \in 1..m : queue[k].at + queue[k].n <= sent /\ (~raw => queue[k].n = 1)
      /\ \A k \in 1..n : got[k].at + got[k].n <= sent /\ (~raw => got[k].n = 1)
  BY DEF DeviceInv, InOrder
<1>5. /\ \A k \in 1..m : queue[k] \in Blocks
      /\ \A k \in 1..n : got[k] \in Blocks
  BY <1>1, ElementOfSeq
<1>6. sent \in Nat /\ sent' \in Nat /\ sent <= sent'
  BY <1>1
<1>7. sent' \in 0..MaxSamples
  BY <1>1
<1>before. ASSUME NEW x \in Blocks, x.at + x.n <= sent PROVE x.at + x.n <= sent'
  <2>1. x.at \in Nat /\ x.n \in Nat
    BY DEF Blocks
  <2>2. QED
    BY <1>6, <1>before, <2>1
<1>8. CASE m < BufLen
  <2>1. queue' = Append(queue, b)
    BY <1>8 DEF Arrive
  <2>2. /\ queue' \in Seq(Blocks) /\ Len(queue') = m + 1
        /\ \A k \in 1..m : queue'[k] = queue[k]
        /\ queue'[m + 1] = b
    BY <1>1, <1>2, <1>3, <2>1
  <2> HIDE DEF m, n
  <2>3. b.at = sent /\ b.n = c
    OBVIOUS
  <2> HIDE DEF b
  <2>4. \A k \in 1..m+1 : \/ k \in 1..m /\ queue'[k] = queue[k]
                          \/ k = m + 1 /\ queue'[k] = b
    BY <1>3, <2>2
  <2>5. \A j, k \in 1..m+1 : j < k => After(queue'[j], queue'[k])
    <3>1. SUFFICES ASSUME NEW j \in 1..m+1, NEW k \in 1..m+1, j < k
                   PROVE  After(queue'[j], queue'[k])
      OBVIOUS
    <3>2. j \in 1..m /\ queue'[j] = queue[j]
      BY <1>3, <2>4, <3>1
    <3>3. CASE k \in 1..m /\ queue'[k] = queue[k]
      BY <1>4, <3>1, <3>2, <3>3
    <3>4. CASE queue'[k] = b
      BY <1>4, <2>3, <3>2, <3>4 DEF After
    <3>5. QED
      BY <2>4, <3>3, <3>4
  <2>6. \A j \in 1..n, k \in 1..m+1 : After(got[j], queue'[k])
    <3>1. SUFFICES ASSUME NEW j \in 1..n, NEW k \in 1..m+1
                   PROVE  After(got[j], queue'[k])
      OBVIOUS
    <3>2. CASE k \in 1..m /\ queue'[k] = queue[k]
      BY <1>4, <3>2
    <3>3. CASE queue'[k] = b
      BY <1>4, <2>3, <3>3 DEF After
    <3>4. QED
      BY <2>4, <3>2, <3>3
  <2>7. \A k \in 1..m+1 : queue'[k].at + queue'[k].n <= sent' /\ (~raw => queue'[k].n = 1)
    <3>1. SUFFICES ASSUME NEW k \in 1..m+1
                   PROVE  queue'[k].at + queue'[k].n <= sent' /\ (~raw => queue'[k].n = 1)
      OBVIOUS
    <3>2. CASE k \in 1..m /\ queue'[k] = queue[k]
      <4>1. /\ queue[k].at + queue[k].n <= sent /\ (~raw => queue[k].n = 1)
            /\ queue[k] \in Blocks
        BY <1>4, <1>5, <3>2
      <4>2. queue[k].at + queue[k].n <= sent'
        BY <1>before, <4>1
      <4>3. QED
        BY <3>2, <4>1, <4>2
    <3>3. CASE queue'[k] = b
      <4>1. b.at + b.n <= sent' /\ (~raw => b.n = 1)
        BY <1>1, <2>3
      <4>2. QED
        BY <3>3, <4>1
    <3>4. QED
      BY <2>4, <3>2, <3>3
  <2>8. \A k \in 1..n : got[k].at + got[k].n <= sent' /\ (~raw => got[k].n = 1)
    BY <1>4, <1>5, <1>before
  <2>9. InOrder'
    BY <1>1, <1>4, <2>2, <2>5, <2>6, <2>7, <2>8 DEF InOrder, n
  <2>10. Len(queue') <= BufLen
    BY <1>1, <1>3, <1>8, <2>2
  <2>11. QED
    BY <1>1, <1>7, <2>2, <2>9, <2>10 DEF DeviceInv
<1>9. CASE ~(m < BufLen)
  <2>1. queue' = queue
    BY <1>9 DEF Arrive
  <2> HIDE DEF m, n
  <2>2. \A k \in 1..m : queue[k].at + queue[k].n <= sent'
    <3>1. SUFFICES ASSUME NEW k \in 1..m PROVE queue[k].at + queue[k].n <= sent'
      OBVIOUS
    <3>2. queue[k].at + queue[k].n <= sent /\ queue[k] \in Blocks
      BY <1>4, <1>5
    <3>3. QED
      BY <1>before, <3>2
  <2>3. \A k \in 1..n : got[k].at + got[k].n <= sent'
    <3>1. SUFFICES ASSUME NEW k \in 1..n PROVE got[k].at + got[k].n <= sent'
      OBVIOUS
    <3>2. got[k].at + got[k].n <= sent /\ got[k] \in Blocks
      BY <1>4, <1>5
    <3>3. QED
      BY <1>before, <3>2
  <2>4. InOrder'
    BY <1>1, <1>4, <2>1, <2>2, <2>3 DEF InOrder, m, n
  <2>5. QED
    BY <1>1, <1>7, <2>1, <2>4 DEF DeviceInv, m
<1>10. QED
  BY <1>8, <1>9

\* Samples that come, get lost or are read keep the blocks in order.
LEMMA DeviceStep == DeviceInv /\ [Next]_vars => DeviceInv'
<1> SUFFICES ASSUME DeviceInv, [Next]_vars PROVE DeviceInv'
  OBVIOUS
<1>1. CASE UNCHANGED <<device, got>>
  BY <1>1 DEF DeviceInv, InOrder, device
<1>2. CASE UNCHANGED device /\ got' = <<>>
  <2>1. got' \in Seq(Blocks) /\ Len(got') = 0
    BY <1>2, EmptySeq
  <2>2. \A k \in 1..Len(got') : FALSE
    BY <2>1
  <2>3. raw' = raw /\ sent' = sent /\ queue' = queue
    BY <1>2 DEF device
  <2>4. InOrder'
    BY <2>2, <2>3 DEF DeviceInv, InOrder
  <2>5. QED
    BY <2>1, <2>3, <2>4 DEF DeviceInv
<1>3. QED
  BY <1>1, <1>2, StepKinds, ReadsOrder, ArriveOrder

\* An empty device is in order.
LEMMA DeviceInit == Init => DeviceInv
<1> SUFFICES ASSUME Init PROVE DeviceInv
  OBVIOUS
<1>1. /\ queue \in Seq(Blocks) /\ Len(queue) = 0 /\ got \in Seq(Blocks) /\ Len(got) = 0
  BY EmptySeq DEF Init
<1>2. \A k \in 1..0 : FALSE
  OBVIOUS
<1>3. QED
  BY <1>1, <1>2, Sizes DEF Init, DeviceInv, InOrder

----------------------------------------------------------------------------
(* Types, and where the programs can be.                                   *)

Places == {"over", "get", "set", "lock", "offset", "select", "call", "returned",
           "readout", "log", "failed", "finished"}

Configurers == Raw \cup Loggers \cup {"term"}

\* The termination is read and written by the programs that configure the board, the lock
\* is of the loggers; a record is written of a sample that was read.
ControlInv ==
  /\ term \in BOOLEAN /\ prog \in Programs \cup {"none"} /\ pc \in Places
  /\ tries \in 0..Retries+3 /\ done \in BOOLEAN /\ warm \in BOOLEAN
  /\ pc \in {"get", "set"} => prog \in Configurers
  /\ pc \in {"call", "returned"} => prog \in Library
  /\ pc = "set" => tries \in 1..3
  /\ pc = "log" => got # <<>>

\* Before the first program nothing runs.
LEMMA ControlInit == Init => ControlInv
<1> SUFFICES ASSUME Init PROVE ControlInv
  OBVIOUS
<1>1. term \in BOOLEAN /\ done \in BOOLEAN /\ warm \in BOOLEAN
  BY Zenon DEF Init
<1>2. prog = "none" /\ pc = "over" /\ tries = 0
  BY DEF Init
<1>3. QED
  BY <1>1, <1>2, Sizes DEF ControlInv, Places

\* Steps that no program takes, and those that change no variable of this invariant but pc.
LEMMA ControlStep ==
  ASSUME DeviceInv, ControlInv, [Next]_vars
  PROVE  ControlInv'
<1> USE Sizes
<1>1. ASSUME NEW n \in 1..BlockLen, NEW m \in n..MaxSamples, Arrive(n, m)
      PROVE  ControlInv'
  BY <1>1 DEF Arrive, ControlInv, board, config, call, compare, logging
<1>2. ASSUME NEW p \in Programs, NEW want \in {"on", "off", "keep"}, NEW offset \in OffsetBits,
             NEW last \in BOOLEAN, Start(p, want, offset, last)
      PROVE  ControlInv'
  <2>1. prog' = p /\ pc' = FirstPc(p) /\ tries' \in 0..1 /\ term' = term
    BY <1>2 DEF Start, board
  <2>2. done' \in BOOLEAN /\ warm' \in BOOLEAN
    BY <1>2, Zenon DEF Start, Fresh
  <2>3. /\ FirstPc(p) \in {"call", "get", "select"}
        /\ FirstPc(p) = "get" => p \in Configurers
        /\ FirstPc(p) = "call" => p \in Library
    BY ProgramsAssumption DEF FirstPc, Configurers, Library, Raw, Loggers
  <2>4. QED
    BY <2>1, <2>2, <2>3 DEF ControlInv, Places
<1>3. CASE GetConfig
  BY <1>3 DEF GetConfig, ControlInv, Places, device, board, call, compare, logging
<1>4. CASE SetTermination
  <2>1. term' \in BOOLEAN
    <3>1. \A e : ("TERM" \in e) \in BOOLEAN
      OBVIOUS
    <3>2. QED
      BY <1>4, <3>1, Zenon DEF SetTermination, SetConfig, ControlInv, board
  <2>2. tries \in 1..3 /\ prog \in Configurers /\ prog' = prog /\ got' = got
        /\ done' = done /\ warm' = warm
    BY <1>4 DEF SetTermination, ControlInv, logging
  <2>3. CASE tries = 1
    <3>1. tries' \in 0..Retries /\ pc' \in {"finished", "lock", "offset"}
      BY <1>4, <2>2, <2>3 DEF SetTermination, AfterToggles, Configurers, Raw, Loggers
    <3>2. QED
      BY <2>1, <2>2, <3>1 DEF ControlInv, Places
  <2>4. CASE tries # 1
    <3>1. tries' = tries - 1 /\ pc' = "set"
      BY <1>4, <2>4 DEF SetTermination, AfterToggles
    <3>2. QED
      BY <2>1, <2>2, <2>4, <3>1 DEF ControlInv, Places
  <2>5. QED
    BY <2>3, <2>4
<1>5. CASE WrLocked
  BY <1>5 DEF WrLocked, ControlInv, Places, board, logging
<1>6. CASE WrNotLocked
  BY <1>6 DEF WrNotLocked, ControlInv, Places, board, logging
<1>7. CASE WriteOffset
  BY <1>7 DEF WriteOffset, ControlInv, Places, config, logging
<1>8. CASE Killed \/ Ends \/ ReadFails \/ CloseBoard
  BY <1>8 DEF Killed, Ends, ReadFails, CloseBoard, ControlInv, Places, board, config, logging
<1>9. CASE ReadOne \/ ReadAgain
  <2>1. /\ term' = term /\ prog' = prog /\ tries' = tries /\ done' = done /\ warm' = warm
        /\ pc' \in {"call", "returned"} /\ pc = "call"
    BY <1>9 DEF ReadOne, ReadAgain, Return, board, config, logging
  <2>2. QED
    BY <2>1 DEF ControlInv, Places
<1>10. CASE ReadTwice
  BY <1>10 DEF ReadTwice, ControlInv, Places, board, logging
<1>11. CASE RawInput \/ RawPerf \/ RawBlock
  <2>1. /\ term' = term /\ prog' = prog /\ tries' = tries /\ done' = done /\ warm' = warm
        /\ pc' = "select"
    BY <1>11 DEF RawInput, RawPerf, RawBlock, board, config, logging
  <2>2. QED
    BY <2>1 DEF ControlInv, Places
<1>12. CASE PerfReport
  BY <1>12 DEF PerfReport, ControlInv, Places, board, config, logging
<1>13. CASE SecondPasses
  BY <1>13 DEF SecondPasses, ControlInv, board, config
<1>14. CASE EnterReadout
  BY <1>14 DEF EnterReadout, ControlInv, Places, board, config
<1>15. CASE GsSample \/ DumplogSample
  <2>1. /\ term' = term /\ prog' = prog /\ tries' = tries /\ warm' = warm
        /\ pc' \in {"log", "readout"} /\ Reads
    BY <1>15 DEF GsSample, DumplogSample, Reads, board, config, logging
  <2>2. got' # <<>>
    BY <2>1, ReadsStep, EmptySeq
  <2>3. done' \in BOOLEAN
    BY <1>15 DEF GsSample, DumplogSample, ControlInv, logging
  <2>4. QED
    BY <2>1, <2>2, <2>3 DEF ControlInv, Places
<1>16. CASE LogWrite
  BY <1>16 DEF LogWrite, ControlInv, Places, board, config
<1>17. CASE LeaveReadout
  BY <1>17 DEF LeaveReadout, ControlInv, Places, board, config, logging
<1>18. CASE UNCHANGED vars
  BY <1>18 DEF vars, ControlInv, board, config, logging
<1>19. QED
  BY <1>1, <1>2, <1>3, <1>4, <1>5, <1>6, <1>7, <1>8, <1>9, <1>10, <1>11, <1>12, <1>13, <1>14,
     <1>15, <1>16, <1>17, <1>18 DEF Next

----------------------------------------------------------------------------
(* The calls of fdelay_read().                                             *)

\* The variables of the library calls, and what a call may still take.
CallInv ==
  /\ i \in 0..ReadLen-1 /\ base \in 0..ReadLen-1 /\ ret \in -1..ReadLen
  /\ dest \in [0..ReadLen-1 -> 0..MaxSamples] /\ ends \in Seq(Nat)
  /\ pc = "call" => i + base < ReadLen

\* Before the first program no call is under way.
LEMMA CallInit == Init => CallInv
BY Sizes, EmptySeq DEF Init, CallInv

\* The steps of the calls, and of the others what matters to them.
Aside == /\ UNCHANGED call
         /\ pc' \in {"call", "returned"} => pc' = pc /\ UNCHANGED <<got, prog, tries>>

Begins(p) == /\ Fresh /\ prog' = p /\ pc' \in {"call", "get", "select"}
             /\ tries' = IF p = "read" THEN 1 ELSE 0

\* The steps that change a library call; every other one leaves it alone.
LEMMA CallKinds ==
  ASSUME ControlInv, [Next]_vars
  PROVE  \/ Aside
         \/ \E p \in Programs : Begins(p)
         \/ ReadOne \/ ReadAgain \/ ReadFails \/ ReadTwice
<1>1. ASSUME NEW n \in 1..BlockLen, NEW m \in n..MaxSamples, Arrive(n, m)
      PROVE  Aside
  BY <1>1 DEF Arrive, Aside, config
<1>2. ASSUME NEW p \in Programs, NEW want, NEW offset, NEW last, Start(p, want, offset, last)
      PROVE  Begins(p)
  <2>1. FirstPc(p) \in {"call", "get", "select"}
    BY ProgramsAssumption DEF FirstPc, Library, Raw, Loggers
  <2>2. QED
    BY <1>2, <2>1 DEF Start, Begins
<1>3. CASE GetConfig
  BY <1>3 DEF GetConfig, Aside
<1>4. CASE SetTermination
  <2>1. prog \in Configurers
    BY <1>4 DEF SetTermination, ControlInv
  <2>2. pc' \in {"set", "finished", "lock", "offset"}
    BY <1>4, <2>1 DEF SetTermination, Configurers, Raw, Loggers
  <2>3. UNCHANGED call
    BY <1>4 DEF SetTermination
  <2>4. QED
    BY <2>2, <2>3 DEF Aside
<1>5. CASE WrLocked \/ WrNotLocked \/ WriteOffset
  BY <1>5 DEF WrLocked, WrNotLocked, WriteOffset, Aside
<1>6. CASE Killed \/ Ends \/ CloseBoard
  BY <1>6 DEF Killed, Ends, CloseBoard, Aside
<1>7. CASE RawInput \/ RawPerf \/ RawBlock \/ PerfReport
  BY <1>7 DEF RawInput, RawPerf, RawBlock, PerfReport, Aside
<1>8. CASE SecondPasses
  BY <1>8 DEF SecondPasses, Aside, config
<1>9. CASE EnterReadout \/ LogWrite \/ LeaveReadout
  BY <1>9 DEF EnterReadout, LogWrite, LeaveReadout, Aside
<1>10. CASE GsSample \/ DumplogSample
  BY <1>10 DEF GsSample, DumplogSample, Aside
<1>11. CASE UNCHANGED vars
  BY <1>11 DEF vars, call, config, Aside
<1>12. QED
  BY <1>1, <1>2, <1>3, <1>4, <1>5, <1>6, <1>7, <1>8, <1>9, <1>10, <1>11 DEF Next

\* A slot of the array holds a number.
LEMMA HeadFits ==
  ASSUME DeviceInv, Take
  PROVE  Head(queue).at + 1 \in 1..MaxSamples
<1>1. queue \in Seq(Blocks) /\ queue # <<>>
  BY DEF DeviceInv, Take
<1>2. Head(queue) = queue[1] /\ 1 \in 1..Len(queue) /\ Head(queue) \in Blocks
  BY <1>1, EmptySeq, LenProperties
<1>3. Head(queue).at + Head(queue).n <= sent /\ sent \in 0..MaxSamples
  BY <1>2 DEF DeviceInv, InOrder
<1>4. QED
  BY <1>2, <1>3, Sizes DEF Blocks

\* Every step keeps the account of the call under way.
LEMMA CallStep ==
  ASSUME DeviceInv, ControlInv, CallInv, [Next]_vars
  PROVE  CallInv'
<1> USE Sizes
<1>1. CASE Aside
  BY <1>1 DEF Aside, CallInv, call
<1>2. ASSUME NEW p \in Programs, Begins(p)
      PROVE  CallInv'
  BY <1>2, EmptySeq DEF Begins, Fresh, CallInv
<1>3. CASE ReadOne
  <2>1. /\ i + base < ReadLen /\ i \in Nat /\ base \in 0..ReadLen-1 /\ Take
        /\ dest' = [dest EXCEPT ![base] = Head(queue).at + 1]
    BY <1>3 DEF ReadOne, CallInv, FreadSlot
  <2>2. dest' \in [0..ReadLen-1 -> 0..MaxSamples]
    BY <2>1, HeadFits DEF CallInv
  <2>3. CASE i + 1 = AsksFor(base)
    <3>1. base + (i + 1) = ReadLen
      BY <2>1, <2>3 DEF AsksFor
    <3>2. ends' = Append(ends, base + i + 1) /\ Return(i + 1)
      BY <1>3, <2>3 DEF ReadOne
    <3>3. ends' \in Seq(Nat)
      BY <2>1, <3>2 DEF CallInv
    <3>4. ret' = base + (i + 1) /\ pc' = "returned" /\ i' = i /\ base' = base
      BY <3>1, <3>2 DEF Return
    <3>5. QED
      BY <2>1, <2>2, <3>1, <3>3, <3>4 DEF CallInv
  <2>4. CASE i + 1 # AsksFor(base)
    <3>1. i' = i + 1 /\ base' = base /\ ret' = ret /\ ends' = ends
      BY <1>3, <2>4 DEF ReadOne
    <3>2. i + 1 + base < ReadLen
      BY <2>1, <2>4 DEF AsksFor
    <3>3. QED
      BY <2>1, <2>2, <3>1, <3>2 DEF CallInv
  <2>5. QED
    BY <2>3, <2>4
<1>4. CASE ReadAgain
  <2>1. i + base < ReadLen /\ i \in Nat /\ i > 0 /\ base \in 0..ReadLen-1 /\ dest' = dest
    BY <1>4 DEF ReadAgain, CallInv
  <2>2. ends' = Append(ends, base + i) /\ Return(i)
    BY <1>4 DEF ReadAgain
  <2>3. ends' \in Seq(Nat)
    BY <2>1, <2>2 DEF CallInv
  <2>4. CASE prog = "fread" /\ i >= 0 /\ base + i < ReadLen
    <3>1. base' = base + i /\ i' = 0 /\ ret' = ret
      BY <2>2, <2>4 DEF Return
    <3>2. QED
      BY <2>1, <2>3, <2>4, <3>1 DEF CallInv
  <2>5. CASE ~(prog = "fread" /\ i >= 0 /\ base + i < ReadLen)
    <3>1. ret' = base + i /\ pc' = "returned" /\ i' = i /\ base' = base
      BY <2>2, <2>5 DEF Return
    <3>2. QED
      BY <2>1, <2>3, <3>1 DEF CallInv
  <2>6. QED
    BY <2>4, <2>5
<1>5. CASE ReadFails
  BY <1>5 DEF ReadFails, CallInv, None
<1>6. CASE ReadTwice
  BY <1>6, EmptySeq DEF ReadTwice, CallInv
<1>7. QED
  BY <1>1, <1>2, <1>3, <1>4, <1>5, <1>6, CallKinds

----------------------------------------------------------------------------
(* What the programs keep of the samples.                                  *)

\* A remainder lies below its divisor.
LEMMA Remainder ==
  ASSUME NEW x \in Int, NEW y \in Nat \ {0}
  PROVE  x % y \in 0..y-1
OBVIOUS

RecordsInv ==
  /\ expected \in -1..SeqSize+BlockLen-1
  /\ log \in Seq(-1..MaxSamples)

\* Before the first program nothing is recorded.
LEMMA RecordsInit == Init => RecordsInv
BY Sizes, EmptySeq DEF Init, RecordsInv, None

\* The steps that write the log or compare sequence numbers.
LEMMA RecordKinds ==
  ASSUME [Next]_vars
  PROVE  \/ UNCHANGED <<expected, log>>
         \/ /\ expected' \in {0, None}
            /\ \E p \in Programs, last \in BOOLEAN : log' = Starts(p, last)
         \/ Killed \/ RawInput \/ RawPerf \/ RawBlock \/ LogWrite
<1>1. ASSUME NEW n \in 1..BlockLen, NEW m \in n..MaxSamples, Arrive(n, m)
      PROVE  UNCHANGED <<expected, log>>
  BY <1>1 DEF Arrive, compare, logging
<1>2. ASSUME NEW p \in Programs, NEW want, NEW offset, NEW last \in BOOLEAN,
             Start(p, want, offset, last)
      PROVE  expected' \in {0, None} /\ log' = Starts(p, last)
  BY <1>2 DEF Start
<1>3. CASE GetConfig \/ SetTermination \/ WrLocked \/ WrNotLocked \/ WriteOffset
  BY <1>3 DEF GetConfig, SetTermination, WrLocked, WrNotLocked, WriteOffset, compare, logging
<1>4. CASE Ends \/ ReadOne \/ ReadAgain \/ ReadFails \/ CloseBoard
  BY <1>4 DEF Ends, ReadOne, ReadAgain, ReadFails, CloseBoard, compare, logging
<1>5. CASE ReadTwice \/ PerfReport
  BY <1>5 DEF ReadTwice, PerfReport, compare, logging
<1>6. CASE SecondPasses \/ EnterReadout \/ LeaveReadout
  BY <1>6 DEF SecondPasses, EnterReadout, LeaveReadout, compare, logging
<1>7. CASE GsSample \/ DumplogSample
  BY <1>7 DEF GsSample, DumplogSample, compare, logging
<1>8. CASE UNCHANGED vars
  BY <1>8 DEF vars, compare, logging
<1>9. QED
  BY <1>1, <1>2, <1>3, <1>4, <1>5, <1>6, <1>7, <1>8 DEF Next

\* The sample that was read last.
LEMMA LastFits ==
  ASSUME DeviceInv, got # <<>>
  PROVE  Last(got).at + 1 \in 1..MaxSamples
<1>1. got \in Seq(Blocks) /\ Len(got) \in Nat \ {0}
  BY EmptySeq, LenProperties DEF DeviceInv
<1>2. Last(got) = got[Len(got)] /\ got[Len(got)] \in Blocks
  BY <1>1 DEF Last
<1>3. got[Len(got)].at + got[Len(got)].n <= sent /\ sent \in 0..MaxSamples
  BY <1>1 DEF DeviceInv, InOrder
<1>4. QED
  BY <1>2, <1>3, Sizes DEF Blocks

\* Every step keeps the types of what programs record.
LEMMA RecordsStep ==
  ASSUME DeviceInv, ControlInv, RecordsInv, [Next]_vars
  PROVE  RecordsInv'
<1> USE Sizes
<1>1. CASE UNCHANGED <<expected, log>>
  BY <1>1 DEF RecordsInv
<1>2. ASSUME NEW p, NEW last, expected' \in {0, None}, log' = Starts(p, last)
      PROVE  RecordsInv'
  <2>1. LogStart \in -1..MaxSamples
    BY DEF LogStart
  <2>2. Starts(p, last) \in {<<>>, <<LogStart>>, <<LogStart, LogStart>>}
    BY DEF Starts
  <2>3. Starts(p, last) \in Seq(-1..MaxSamples)
    <3>1. /\ <<>> \in Seq(-1..MaxSamples)
          /\ <<LogStart>> \in Seq(-1..MaxSamples)
          /\ <<LogStart, LogStart>> \in Seq(-1..MaxSamples)
      BY <2>1, EmptySeq
    <3>2. QED
      BY <2>2, <3>1, Zenon
  <2>4. QED
    BY <1>2, <2>3 DEF RecordsInv, None
<1>3. CASE Killed
  <2>1. LogEnd \in -1..MaxSamples
    BY DEF LogEnd
  <2>2. Append(log, LogEnd) \in Seq(-1..MaxSamples)
    BY <2>1 DEF RecordsInv
  <2>3. expected' = expected /\ log' \in {log, Append(log, LogEnd)}
    BY <1>3 DEF Killed, compare
  <2>4. QED
    BY <2>2, <2>3 DEF RecordsInv
<1>4. CASE RawInput \/ RawPerf
  <2>1. expected' = Seq16(Head(queue)) /\ log' = log /\ Take
    BY <1>4 DEF RawInput, RawPerf, Event, PerfOne, logging
  <2>2. Head(queue) \in Blocks
    BY <2>1 DEF DeviceInv, Take
  <2>3. Head(queue).at \in Int
    BY <2>2 DEF Blocks
  <2>4. Seq16(Head(queue)) \in 0..SeqSize-1
    BY <2>3, Remainder DEF Seq16
  <2>5. QED
    BY <2>1, <2>4 DEF RecordsInv
<1>5. CASE RawBlock
  <2> DEFINE b == Head(queue)   q == Seq16(b)
  <2>1. /\ Take /\ log' = log
        /\ expected' = IF prog = "raw-dump" THEN DumpNext(q, b.n) ELSE SpeedNext(q, b.n)
    BY <1>5 DEF RawBlock, logging
  <2>2. b \in Blocks
    BY <2>1 DEF DeviceInv, Take
  <2>3. b.at \in Int /\ b.n \in Nat
    BY <2>2 DEF Blocks
  <2>4. q \in 0..SeqSize-1
    BY <2>3, Remainder DEF Seq16
  <2> HIDE DEF b, q
  <2>5. (q + b.n) % SeqSize \in 0..SeqSize-1
    <3>1. q + b.n \in Int
      BY <2>3, <2>4
    <3>2. QED
      BY <3>1, Remainder
  <2>6. DumpNext(q, b.n) \in 0..SeqSize-1 /\ SpeedNext(q, b.n) \in 0..SeqSize-1
    BY <2>3, <2>4, <2>5 DEF DumpNext, SpeedNext
  <2>7. QED
    BY <2>1, <2>6 DEF RecordsInv
<1>6. CASE LogWrite
  <2>1. Last(got).at + 1 \in -1..MaxSamples
    BY <1>6, LastFits DEF LogWrite, ControlInv
  <2>2. QED
    BY <1>6, <2>1 DEF LogWrite, RecordsInv, compare
<1>7. QED
  BY <1>1, <1>2, <1>3, <1>4, <1>5, <1>6, RecordKinds

----------------------------------------------------------------------------
StateInv == DeviceInv /\ ControlInv /\ CallInv /\ RecordsInv

\* The four parts hold at the start.
LEMMA StateInit == Init => StateInv
BY DeviceInit, ControlInit, CallInit, RecordsInit DEF StateInv

\* The four parts together are inductive.
LEMMA StateStep == StateInv /\ [Next]_vars => StateInv'
BY DeviceStep, ControlStep, CallStep, RecordsStep DEF StateInv

\* They hold in every state of every behaviour.
LEMMA StateHolds == Spec => []StateInv
BY StateInit, StateStep, PTL DEF Spec

\* The programs keep their variables in range: no slot of the array beyond those asked
\* for is written, and no number but one that the driver gave is written to the log.
THEOREM ProgramsTyped == Spec => []TypeOK
<1>1. StateInv => TypeOK
  BY DEF StateInv, DeviceInv, ControlInv, CallInv, RecordsInv, TypeOK, Blocks, Places
<1>2. QED
  BY <1>1, StateHolds, PTL

----------------------------------------------------------------------------
(* The termination.                                                        *)

WantsOn == asked.term = "on"
InFlags == "TERM" \in flags
InCopy  == "TERM" \in hwval

\* The writes of a program that switches three times: each puts the other value into the
\* flags, so that the last is a change, to the value asked for.
Switching ==
  /\ tries = 3 => (InCopy <=> WantsOn)
  /\ tries = 2 => (InCopy <=> ~WantsOn) /\ (InFlags <=> WantsOn)
  /\ tries = 1 => (InCopy <=> WantsOn) /\ (InFlags <=> ~WantsOn)

Told == ~misread /\ asked.term # "keep"

\* The one write of fdelay-term. If the flags did not tell the termination, it changes the
\* termination to what it is, or not at all.
WritesOnce ==
  /\ tries = 1 /\ before = term
  /\ IF asked.term = "keep" THEN InCopy <=> InFlags ELSE InCopy <=> WantsOn
  /\ IF misread THEN InFlags <=> ~term ELSE InFlags <=> term

TermInv ==
  /\ prog \in Raw \cup Loggers => asked.term \in {"on", "off"}
  /\ asked.term \in {"on", "off", "keep"}
  /\ pc = "get" => before = term
  /\ pc = "set" /\ ~(hwval \subseteq ConfigMask) => before = term
  /\ pc = "set" /\ hwval \subseteq ConfigMask =>
       /\ prog \in Raw \cup Loggers => Switching
       /\ prog = "term" => WritesOnce
  /\ TerminationAsAsked

\* Before the first program nobody asked for a termination.
LEMMA TermInit == Init => TermInv
BY DEF Init, TermInv, TerminationAsAsked, Configured, Raw, Loggers

\* The steps that have to do with the termination.
Indifferent ==
  /\ UNCHANGED <<flags, term, prog, asked, hwval, misread, before>>
  /\ pc' = "get" => pc = "get"
  /\ pc' = "set" => pc = "set" /\ tries' = tries
  /\ Configured' => Configured

\* The steps that touch the flags or the termination.
LEMMA TermKinds ==
  ASSUME [Next]_vars
  PROVE  \/ Indifferent
         \/ \E p \in Programs, want \in {"on", "off", "keep"}, offset \in OffsetBits,
               last \in BOOLEAN : Start(p, want, offset, last)
         \/ GetConfig \/ SetTermination \/ WriteOffset
<1> USE DEF Indifferent, Configured
<1>1. ASSUME NEW n \in 1..BlockLen, NEW m \in n..MaxSamples, Arrive(n, m)
      PROVE  Indifferent
  BY <1>1 DEF Arrive, board, config
<1>2. CASE WrLocked \/ WrNotLocked
  BY <1>2 DEF WrLocked, WrNotLocked, board
<1>3. CASE Killed \/ Ends \/ CloseBoard
  BY <1>3 DEF Killed, Ends, CloseBoard, board, config
<1>4. CASE ReadOne \/ ReadAgain
  BY <1>4 DEF ReadOne, ReadAgain, Return, board, config
<1>5. CASE ReadFails \/ ReadTwice
  BY <1>5 DEF ReadFails, ReadTwice, board, config
<1>6. CASE RawInput \/ RawPerf \/ RawBlock
  BY <1>6 DEF RawInput, RawPerf, RawBlock, board, config
<1>7. CASE PerfReport
  BY <1>7 DEF PerfReport, board, config
<1>8. CASE SecondPasses \/ EnterReadout \/ LeaveReadout
  BY <1>8 DEF SecondPasses, EnterReadout, LeaveReadout, board, config
<1>9. CASE GsSample \/ DumplogSample \/ LogWrite
  BY <1>9 DEF GsSample, DumplogSample, LogWrite, board, config
<1>10. CASE UNCHANGED vars
  BY <1>10 DEF vars, board, config
<1>11. QED
  BY <1>1, <1>2, <1>3, <1>4, <1>5, <1>6, <1>7, <1>8, <1>9, <1>10 DEF Next

\* The three conditions are truth values.
LEMMA Booleans == InCopy \in BOOLEAN /\ InFlags \in BOOLEAN /\ WantsOn \in BOOLEAN
<1>1. ("TERM" \in hwval) \in BOOLEAN /\ ("TERM" \in flags) \in BOOLEAN
  OBVIOUS
<1>2. (asked.term = "on") \in BOOLEAN
  OBVIOUS
<1>3. QED
  BY <1>1, <1>2, Zenon DEF InCopy, InFlags, WantsOn

\* A write of the flags, and the change of the program's copy after it.
LEMMA Written ==
  ASSUME hwval \subseteq ConfigMask, SetConfig(hwval), term \in BOOLEAN
  PROVE  /\ InFlags' <=> InCopy
         /\ (InCopy <=> InFlags) => term' = term
         /\ ~(InCopy <=> InFlags) => term' = InCopy
<1>1. flags' = hwval
  BY DEF SetConfig
<1>2. term' = IF InCopy = InFlags THEN term ELSE InCopy
  BY Zenon DEF SetConfig, InCopy, InFlags
<1>3. InCopy \in BOOLEAN /\ InFlags \in BOOLEAN
  BY Booleans
<1>4. (InCopy <=> InFlags) <=> (InCopy = InFlags)
  BY <1>3, Zenon
<1>5. QED
  BY <1>1, <1>2, <1>4, Zenon DEF InCopy, InFlags

\* Switching the bit of the termination in the copy switches nothing else.
LEMMA Flipped ==
  ASSUME hwval' = Toggled(hwval)
  PROVE  /\ hwval' \subseteq ConfigMask <=> hwval \subseteq ConfigMask
         /\ InCopy' <=> ~InCopy
BY DEF Toggled, ConfigMask, InCopy

\* The last write of a program puts the termination where it was asked for.
LEMMA LastWrite ==
  ASSUME tries = 1, SetConfig(hwval), hwval \subseteq ConfigMask, term \in BOOLEAN,
         prog \in Configurers,
         prog \in Raw \cup Loggers => Switching, prog = "term" => WritesOnce
  PROVE  term' = IF prog = "term" => Told THEN WantsOn ELSE before
<1>1. /\ InFlags' <=> InCopy
      /\ (InCopy <=> InFlags) => term' = term
      /\ ~(InCopy <=> InFlags) => term' = InCopy
  BY Written
<1>2. WantsOn \in BOOLEAN /\ InCopy \in BOOLEAN /\ InFlags \in BOOLEAN
  BY Booleans
<1>3. CASE prog \in Raw \cup Loggers
  <2>1. (InCopy <=> WantsOn) /\ (InFlags <=> ~WantsOn) /\ prog # "term"
    BY <1>3 DEF Switching, Raw, Loggers
  <2>2. InCopy = WantsOn
    BY <1>2, <2>1, Zenon
  <2>3. term' = InCopy
    BY <1>1, <2>1
  <2>4. QED
    BY <2>1, <2>2, <2>3
<1>4. CASE prog = "term"
  <2>1. WritesOnce
    BY <1>4
  <2>2. CASE Told
    <3>1. (InCopy <=> WantsOn) /\ (InFlags <=> term)
      BY <2>1, <2>2 DEF WritesOnce, Told
    <3>2. InCopy = WantsOn
      BY <1>2, <3>1, Zenon
    <3>3. CASE InCopy <=> InFlags
      <4>1. term' = term /\ (term <=> WantsOn)
        BY <1>1, <3>1, <3>3
      <4>2. term = WantsOn
        BY <1>2, <4>1, Zenon
      <4>3. QED
        BY <2>2, <4>1, <4>2
    <3>4. CASE ~(InCopy <=> InFlags)
      BY <1>1, <2>2, <3>2, <3>4
    <3>5. QED
      BY <3>3, <3>4
  <2>3. CASE ~Told
    <3>1. before = term
      BY <2>1 DEF WritesOnce
    <3>2. term' = term
      <4>1. CASE InCopy <=> InFlags
        BY <1>1, <4>1
      <4>2. CASE ~(InCopy <=> InFlags)
        <5>1. asked.term # "keep"
          BY <2>1, <4>2 DEF WritesOnce
        <5>2. misread
          BY <2>3, <5>1 DEF Told
        <5>3. InFlags <=> ~term
          BY <2>1, <5>2 DEF WritesOnce
        <5>4. InCopy <=> term
          BY <4>2, <5>3
        <5>5. InCopy = term
          BY <1>2, <5>4, Zenon
        <5>6. QED
          BY <1>1, <4>2, <5>5
      <4>3. QED
        BY <4>1, <4>2
    <3>3. QED
      BY <1>4, <2>3, <3>1, <3>2
  <2>4. QED
    BY <2>2, <2>3
<1>5. QED
  BY <1>3, <1>4 DEF Configurers

\* Three writes, each switching the bit, end where the program wants it; a refused write
\* changes nothing.
LEMMA TermStep ==
  ASSUME ControlInv, TermInv, [Next]_vars
  PROVE  TermInv'
<1>1. CASE Indifferent
  <2>1. TerminationAsAsked => TerminationAsAsked'
    BY <1>1 DEF Indifferent, TerminationAsAsked, Heard
  <2>2. UNCHANGED <<WantsOn, InFlags, InCopy>>
    BY <1>1 DEF Indifferent, WantsOn, InFlags, InCopy
  <2>3. tries' = tries => (Switching => Switching')
    BY <2>2 DEF Switching
  <2>4. tries' = tries => (WritesOnce => WritesOnce')
    BY <1>1, <2>2 DEF Indifferent, WritesOnce
  <2>5. QED
    BY <1>1, <2>1, <2>3, <2>4 DEF Indifferent, TermInv
<1>2. ASSUME NEW p \in Programs, NEW want \in {"on", "off", "keep"}, NEW offset \in OffsetBits,
             NEW last \in BOOLEAN, Start(p, want, offset, last)
      PROVE  TermInv'
  <2>1. prog' = p /\ pc' = FirstPc(p) /\ asked'.term = IF p \in Raw THEN "off" ELSE want
    BY <1>2 DEF Start
  <2>2. want = "keep" => p = "term"
    BY <1>2 DEF Start
  <2>3. p \in Configurers => FirstPc(p) = "get"
    BY DEF FirstPc, Configurers, Raw, Loggers, Library
  <2>4. pc' # "set"
    BY <2>1 DEF FirstPc
  <2>5. TerminationAsAsked'
    BY <2>1, <2>3 DEF TerminationAsAsked, Configured, Configurers
  <2>6. asked'.term \in {"on", "off", "keep"}
    BY <2>1
  <2>7. p \in Raw \cup Loggers => asked'.term \in {"on", "off"}
    BY <2>1, <2>2 DEF Raw, Loggers
  <2>8. before' = term /\ term' = term
    BY <1>2 DEF Start, board
  <2>9. QED
    BY <2>1, <2>4, <2>5, <2>6, <2>7, <2>8 DEF TermInv
<1>3. CASE GetConfig
  <2>1. /\ prog' = prog /\ asked' = asked /\ flags' = flags /\ term' = term /\ before' = before
        /\ pc = "get" /\ pc' = "set" /\ prog \in Configurers /\ term \in BOOLEAN
        /\ tries' = IF prog = "term" THEN 1 ELSE 3
    BY <1>3 DEF GetConfig, ControlInv, board
  <2>2. IF asked.term = "keep" THEN InCopy' <=> InFlags ELSE InCopy' <=> WantsOn
    BY <1>3 DEF GetConfig, TermInv, InCopy, InFlags, WantsOn
  <2>3. IF misread' THEN InFlags <=> ~term ELSE InFlags <=> term
    <3>1. misread' = (InFlags # term)
      BY <1>3, Zenon DEF GetConfig, InFlags
    <3>2. InFlags \in BOOLEAN
      BY Booleans
    <3>3. QED
      BY <2>1, <3>1, <3>2, Zenon
  <2>4. (WantsOn <=> WantsOn') /\ (InFlags <=> InFlags')
    BY <2>1 DEF WantsOn, InFlags
  <2>5. TerminationAsAsked'
    BY <2>1 DEF TerminationAsAsked, Configured
  <2>6. prog \in Raw \cup Loggers => Switching' /\ prog # "term"
    BY <2>1, <2>2, <2>4 DEF Switching, TermInv, Raw, Loggers
  <2>7. before' = term'
    BY <2>1 DEF TermInv
  <2>8. prog = "term" => WritesOnce'
    BY <2>1, <2>2, <2>3, <2>4, <2>7 DEF WritesOnce
  <2>9. QED
    BY <2>1, <2>5, <2>6, <2>7, <2>8 DEF TermInv
<1>4. CASE SetTermination
  <2>1. /\ prog' = prog /\ asked' = asked /\ misread' = misread /\ before' = before
        /\ pc = "set" /\ prog \in Configurers /\ tries \in 1..3 /\ term \in BOOLEAN
        /\ SetConfig(hwval) /\ hwval' = Toggled(hwval)
    BY <1>4 DEF SetTermination, ControlInv
  <2>2. tries # 1 => pc' = "set" /\ tries' = tries - 1
    BY <1>4 DEF SetTermination, AfterToggles
  <2>3. tries = 1 => pc' \notin {"get", "set"}
    BY <1>4, <2>1 DEF SetTermination, AfterToggles, Configurers, Raw, Loggers
  <2>4. (WantsOn <=> WantsOn') /\ (Told <=> Told') /\ pc' # "get"
    BY <2>1, <2>2, <2>3 DEF WantsOn, Told
  <2>5. /\ hwval' \subseteq ConfigMask <=> hwval \subseteq ConfigMask
        /\ InCopy' <=> ~InCopy
    BY <2>1, Flipped
  <2>6. CASE ~(hwval \subseteq ConfigMask)
    <3>1. term' = term /\ before' = term'
      BY <2>1, <2>6 DEF SetConfig, board, TermInv
    <3>2. TerminationAsAsked'
      BY <2>5, <2>6, <3>1 DEF TerminationAsAsked, Heard
    <3>3. QED
      BY <2>1, <2>4, <2>5, <2>6, <3>1, <3>2 DEF TermInv
  <2>7. CASE hwval \subseteq ConfigMask
    <3>1. /\ InFlags' <=> InCopy
          /\ (InCopy <=> InFlags) => term' = term
          /\ ~(InCopy <=> InFlags) => term' = InCopy
      BY <2>1, <2>7, Written
    <3>2. /\ prog \in Raw \cup Loggers => Switching /\ asked.term \in {"on", "off"}
          /\ prog = "term" => WritesOnce
      BY <2>1, <2>7 DEF TermInv
    <3>3. CASE tries # 1
      <4>1. prog \in Raw \cup Loggers
        BY <2>1, <3>2, <3>3 DEF Configurers, WritesOnce
      <4>2. Switching'
        BY <2>1, <2>2, <2>4, <2>5, <3>1, <3>2, <3>3, <4>1 DEF Switching
      <4>3. TerminationAsAsked'
        BY <2>2, <3>3 DEF TerminationAsAsked, Configured
      <4>4. prog # "term"
        BY <4>1 DEF Raw, Loggers
      <4>5. QED
        BY <2>1, <2>4, <2>5, <2>7, <4>2, <4>3, <4>4 DEF TermInv
    <3>4. CASE tries = 1
      <4>1. term' = IF prog = "term" => Told THEN WantsOn ELSE before
        BY <2>1, <2>7, <3>2, <3>4, LastWrite
      <4>2. TerminationAsAsked'
        BY <2>1, <2>4, <2>5, <2>7, <4>1 DEF TerminationAsAsked, Heard, WantsOn, Told
      <4>3. QED
        BY <2>1, <2>3, <2>4, <3>4, <4>2 DEF TermInv
    <3>5. QED
      BY <3>3, <3>4
  <2>8. QED
    BY <2>6, <2>7
<1>5. CASE WriteOffset
  <2>1. /\ UNCHANGED <<term, prog, asked, hwval, misread, before>>
        /\ pc = "offset" /\ pc' = "select"
    BY <1>5 DEF WriteOffset, config
  <2>2. TerminationAsAsked'
    BY <2>1 DEF TermInv, TerminationAsAsked, Configured, Heard
  <2>3. QED
    BY <2>1, <2>2 DEF TermInv
<1>6. QED
  BY <1>1, <1>2, <1>3, <1>4, <1>5, TermKinds

\* Once a program has configured the board, the termination is what it was asked for, or
\* what it was before the program where TerminationAsAsked says so.
THEOREM TerminationHolds == Spec => []TerminationAsAsked
<1>1. TermInv => TerminationAsAsked
  BY DEF TermInv
<1>2. ControlInv /\ TermInv /\ [Next]_vars => TermInv'
  BY TermStep
<1>3. StateInv => ControlInv
  BY DEF StateInv
<1>4. QED
  BY <1>1, <1>2, <1>3, TermInit, StateHolds, PTL DEF Spec

----------------------------------------------------------------------------
(* The log.                                                                *)

\* While a record is to be written, what the log holds was read before its sample.
Earlier == \A k \in Stamped : \E m \in 1..Len(got)-1 : log[k] = got[m].at + 1

LogInv ==
  /\ cold \in Nat
  /\ LogComplete
  /\ pc = "log" => Earlier

\* Before the first logger the log is empty.
LEMMA LogInit == Init => LogInv
BY DEF Init, LogInv, LogComplete, Loggers

\* The steps of the loggers that matter to the log. Those of the other programs do not.
Unlogged ==
  /\ UNCHANGED <<log, got, warm, cold, prog>>
  /\ pc \in {"log", "over"} => pc' = pc
  /\ pc' = "log" => pc = "log"

Elsewhere == prog \notin Loggers /\ prog' = prog /\ cold' = cold /\ pc' # "log"

Opens(p, last) ==
  /\ Fresh /\ prog' = p /\ pc' \in {"call", "get", "select"} /\ log' = Starts(p, last)

Samples ==
  /\ Reads /\ pc = "readout" /\ prog \in Loggers /\ UNCHANGED <<log, warm, cold, prog>>
  /\ pc' = "log" \/ (pc' = "readout" /\ prog = "gs" /\ ~warm)

\* The steps that touch the log; every other one leaves it alone or runs elsewhere.
LEMMA LogKinds ==
  ASSUME ControlInv, [Next]_vars
  PROVE  \/ Unlogged \/ Elsewhere
         \/ \E p \in Programs, last \in BOOLEAN : Opens(p, last)
         \/ Killed \/ SecondPasses \/ Samples \/ LogWrite
<1>1. ASSUME NEW n \in 1..BlockLen, NEW m \in n..MaxSamples, Arrive(n, m)
      PROVE  Unlogged
  BY <1>1 DEF Arrive, Unlogged, logging
<1>2. ASSUME NEW p \in Programs, NEW want, NEW offset, NEW last \in BOOLEAN,
             Start(p, want, offset, last)
      PROVE  Opens(p, last)
  <2>1. FirstPc(p) \in {"call", "get", "select"}
    BY ProgramsAssumption DEF FirstPc, Library, Raw, Loggers
  <2>2. QED
    BY <1>2, <2>1 DEF Start, Opens
<1>3. CASE GetConfig
  BY <1>3 DEF GetConfig, Unlogged, logging
<1>4. CASE SetTermination
  <2>1. prog \in Configurers
    BY <1>4 DEF SetTermination, ControlInv
  <2>2. pc' \in {"set", "finished", "lock", "offset"} /\ pc = "set"
    BY <1>4, <2>1 DEF SetTermination, Configurers, Raw, Loggers
  <2>3. QED
    BY <1>4, <2>2 DEF SetTermination, Unlogged, logging
<1>5. CASE WrLocked \/ WrNotLocked \/ WriteOffset
  BY <1>5 DEF WrLocked, WrNotLocked, WriteOffset, Unlogged, logging
<1>6. CASE Ends \/ CloseBoard \/ EnterReadout \/ LeaveReadout
  BY <1>6 DEF Ends, CloseBoard, EnterReadout, LeaveReadout, Unlogged, logging
<1>7. CASE ReadOne \/ ReadAgain \/ ReadFails
  <2>1. pc = "call" /\ prog' = prog /\ cold' = cold /\ pc' \in {"call", "returned"}
    BY <1>7 DEF ReadOne, ReadAgain, ReadFails, Return, logging
  <2>2. QED
    BY <2>1 DEF Elsewhere, ControlInv, Library, Loggers
<1>8. CASE ReadTwice
  BY <1>8 DEF ReadTwice, Elsewhere, ControlInv, Library, Loggers, logging
<1>9. CASE RawInput \/ RawPerf \/ RawBlock \/ PerfReport
  BY <1>9 DEF RawInput, RawPerf, RawBlock, PerfReport, Elsewhere, Raw, Loggers, logging
<1>10. CASE GsSample
  <2>1. /\ pc = "readout" /\ Take /\ got' = Append(got, Head(queue)) /\ prog = "gs"
        /\ prog' = prog /\ log' = log /\ warm' = warm /\ cold' = cold
    BY <1>10 DEF GsSample
  <2>2. (pc' = "log" /\ done') \/ (pc' = "readout" /\ ~done')
    BY <1>10 DEF GsSample
  <2>3. ~done' => ~warm
    BY <1>10 DEF GsSample
  <2>4. QED
    BY <2>1, <2>2, <2>3 DEF Samples, Reads, Loggers
<1>11. CASE DumplogSample
  BY <1>11 DEF DumplogSample, Samples, Reads, Loggers, logging
<1>12. CASE UNCHANGED vars
  BY <1>12 DEF vars, logging, Unlogged
<1>13. QED
  BY <1>1, <1>2, <1>3, <1>4, <1>5, <1>6, <1>7, <1>8, <1>9, <1>10, <1>11, <1>12 DEF Next

\* A logger that starts opens a log with nothing but marks.
LEMMA Opened ==
  ASSUME NEW p, NEW last, Opens(p, last)
  PROVE  LogInv'
<1>1. /\ cold' = 0 /\ got' = <<>> /\ warm' = FALSE /\ pc' # "log"
      /\ log' \in {<<>>, <<LogStart>>, <<LogStart, LogStart>>}
  BY DEF Opens, Fresh, Starts
<1>2. \A k \in DOMAIN log' : log'[k] = 0
  <2>1. /\ \A k \in DOMAIN <<>> : FALSE
        /\ \A k \in DOMAIN <<LogStart>> : <<LogStart>>[k] = 0
        /\ \A k \in DOMAIN <<LogStart, LogStart>> : <<LogStart, LogStart>>[k] = 0
    BY DEF LogStart
  <2>2. QED
    BY <1>1, <2>1
<1>3. Stamped' = {}
  BY <1>2 DEF Stamped
<1>4. Stamps' = {}
  BY <1>3 DEF Stamps
<1>5. MustLog' = {}
  BY <1>1 DEF MustLog
<1>6. LogComplete'
  BY <1>2, <1>3, <1>4, <1>5 DEF LogComplete, LogEnd
<1>7. QED
  BY <1>1, <1>6 DEF LogInv

\* The signal handler adds its mark to the log and no stamp.
LEMMA EndOfLog ==
  ASSUME LogInv, RecordsInv, Killed
  PROVE  LogInv'
<1>1. /\ UNCHANGED <<prog, got, warm, cold>> /\ pc' = "over" /\ pc # "over"
      /\ log' = IF prog \in Loggers THEN Append(log, LogEnd) ELSE log
  BY DEF Killed
<1>2. SUFFICES ASSUME prog \in Loggers PROVE LogInv'
  BY <1>1 DEF LogInv, LogComplete
<1> DEFINE n == Len(log)
<1>3. /\ log \in Seq(-1..MaxSamples) /\ n \in Nat /\ DOMAIN log = 1..n
      /\ DOMAIN log' = 1..n+1 /\ Len(log') = n + 1 /\ log'[n + 1] = -1
      /\ \A k \in 1..n : log'[k] = log[k]
  BY <1>1, <1>2, LenProperties DEF RecordsInv, LogEnd
<1> HIDE DEF n
<1>4. Stamped' = Stamped /\ \A k \in Stamped : k \in 1..n /\ log'[k] = log[k]
  BY <1>3 DEF Stamped
<1>5. Stamps' = Stamps
  BY <1>4 DEF Stamps
<1>6. MustLog' = MustLog
  BY <1>1 DEF MustLog
<1>7. /\ \A j, k \in Stamped : j < k => log[j] < log[k]
      /\ Stamps \subseteq {got[k].at + 1 : k \in DOMAIN got}
      /\ MustLog \ Stamps \subseteq
           IF got # <<>> /\ pc \in {"log", "over"} THEN {Last(got).at + 1} ELSE {}
      /\ \A k \in DOMAIN log : log[k] # LogEnd
  BY <1>1, <1>2 DEF LogInv, LogComplete
<1>8. \A k \in DOMAIN log' : log'[k] = LogEnd => k = Len(log')
  BY <1>3, <1>7
<1>9. \A j, k \in Stamped' : j < k => log'[j] < log'[k]
  BY <1>4, <1>7
<1>10. LogComplete'
  BY <1>1, <1>5, <1>6, <1>7, <1>8, <1>9 DEF LogComplete
<1>11. QED
  BY <1>1, <1>10 DEF LogInv

\* The first second of fdelay-gs ends: what it read so far need not be in the log.
LEMMA Warmed ==
  ASSUME DeviceInv, LogInv, SecondPasses
  PROVE  LogInv'
<1>1. /\ UNCHANGED <<prog, pc, got, log>> /\ prog = "gs" /\ warm' = TRUE /\ cold' = Len(got)
  BY DEF SecondPasses
<1>2. Len(got) \in Nat
  BY LenProperties DEF DeviceInv
<1>3. MustLog' = {}
  BY <1>1, <1>2 DEF MustLog
<1>4. Stamped' = Stamped /\ Stamps' = Stamps /\ (Earlier => Earlier')
  BY <1>1 DEF Stamped, Stamps, Earlier
<1>5. LogComplete'
  BY <1>1, <1>3, <1>4 DEF LogInv, LogComplete, Loggers
<1>6. QED
  BY <1>1, <1>2, <1>4, <1>5 DEF LogInv

\* A sample is read: it is owed to the log, or the second has not passed.
LEMMA Sampled ==
  ASSUME DeviceInv, ControlInv, LogInv, RecordsInv, Samples
  PROVE  LogInv'
<1> DEFINE n == Len(got)
<1>1. /\ UNCHANGED <<log, warm, cold, prog>> /\ pc = "readout" /\ Reads /\ cold \in Nat
      /\ pc' = "log" \/ (pc' = "readout" /\ prog = "gs" /\ ~warm)
  BY DEF Samples, LogInv
<1>2. /\ got \in Seq(Blocks) /\ got' \in Seq(Blocks) /\ n \in Nat /\ Len(got') = n + 1
      /\ \A k \in 1..n : got'[k] = got[k]
  BY <1>1, ReadsStep DEF DeviceInv
<1>3. DOMAIN got = 1..n /\ DOMAIN got' = 1..n+1 /\ got' # <<>> /\ Last(got') = got'[n + 1]
  BY <1>2, LenProperties, EmptySeq DEF Last
<1> HIDE DEF n
<1>4. Stamped' = Stamped /\ Stamps' = Stamps
  BY <1>1 DEF Stamped, Stamps
<1>5. prog \in Loggers
  BY DEF Samples
<1>6. /\ \A j, k \in Stamped : j < k => log[j] < log[k]
      /\ Stamps \subseteq {got[k].at + 1 : k \in DOMAIN got}
      /\ MustLog \subseteq Stamps
      /\ \A k \in DOMAIN log : log[k] # LogEnd
  BY <1>1, <1>5 DEF LogInv, LogComplete
<1>7. {got[k].at + 1 : k \in DOMAIN got} \subseteq {got'[k].at + 1 : k \in DOMAIN got'}
  BY <1>2, <1>3
<1>8. MustLog' \subseteq MustLog \cup {got'[n + 1].at + 1}
  <2>1. CASE prog = "dumplog"
    BY <1>1, <1>2, <1>3, <2>1 DEF MustLog
  <2>2. CASE prog # "dumplog" /\ warm
    <3>1. MustLog = {got[k].at + 1 : k \in cold+1..n}
      BY <2>2 DEF MustLog, n
    <3>2. MustLog' = {got'[k].at + 1 : k \in cold+1..n+1}
      BY <1>1, <1>2, <2>2 DEF MustLog
    <3>3. \A k \in cold+1..n+1 : k = n + 1 \/ (k \in cold+1..n /\ got'[k] = got[k])
      BY <1>1, <1>2
    <3>4. QED
      BY <3>1, <3>2, <3>3
  <2>3. CASE prog # "dumplog" /\ ~warm
    BY <1>1, <2>3 DEF MustLog
  <2>4. QED
    BY <2>1, <2>2, <2>3
<1>9. pc' # "log" => MustLog' = {}
  BY <1>1 DEF MustLog
<1>10. MustLog' \ Stamps' \subseteq
         IF got' # <<>> /\ pc' \in {"log", "over"} THEN {Last(got').at + 1} ELSE {}
  BY <1>1, <1>3, <1>4, <1>6, <1>8, <1>9
<1>11. LogComplete'
  BY <1>1, <1>4, <1>6, <1>7, <1>10 DEF LogComplete
<1>12. Earlier'
  <2>1. SUFFICES ASSUME NEW k \in Stamped
                 PROVE  \E m \in 1..n : log[k] = got'[m].at + 1
    BY <1>1, <1>2, <1>4 DEF Earlier
  <2>2. log[k] \in Stamps
    BY DEF Stamps
  <2>3. PICK m \in 1..n : log[k] = got[m].at + 1
    BY <1>3, <1>6, <2>2
  <2>4. QED
    BY <1>2, <2>3
<1>13. cold' \in Nat
  BY <1>1
<1>14. QED
  BY <1>11, <1>12, <1>13 DEF LogInv

\* The record is written.
LEMMA Recorded ==
  ASSUME DeviceInv, ControlInv, LogInv, RecordsInv, LogWrite
  PROVE  LogInv'
<1> DEFINE n == Len(got)   l == Len(log)   x == Last(got).at + 1
<1>1. /\ UNCHANGED <<prog, got, warm, cold>> /\ pc = "log" /\ pc' = "readout"
      /\ log' = Append(log, x)
  BY DEF LogWrite, config
<1>2. /\ got \in Seq(Blocks) /\ n \in Nat \ {0} /\ DOMAIN got = 1..n /\ Last(got) = got[n]
      /\ got # <<>> /\ x \in 1..MaxSamples
  BY <1>1, EmptySeq, LenProperties, LastFits DEF ControlInv, DeviceInv, Last
<1>3. /\ log \in Seq(-1..MaxSamples) /\ l \in Nat /\ DOMAIN log = 1..l
      /\ DOMAIN log' = 1..l+1 /\ log'[l + 1] = x
      /\ \A k \in 1..l : log'[k] = log[k]
  BY <1>1, <1>2, LenProperties, Sizes DEF RecordsInv
<1>4. cold \in Nat /\ Earlier
  BY <1>1 DEF LogInv
<1>5. \A k \in Stamped : \E m \in 1..n-1 : log[k] = got[m].at + 1
  BY <1>4 DEF Earlier
<1>6. got[n].at + 1 = x /\ \A m \in 1..n-1 : got[m].at + 1 < x
  <2>1. SUFFICES ASSUME NEW m \in 1..n-1 PROVE got[m].at + 1 < x
    BY <1>2
  <2>2. got[m] \in Blocks /\ got[n] \in Blocks /\ After(got[m], got[n])
    BY <1>2 DEF DeviceInv, InOrder
  <2>3. QED
    BY <1>2, <2>2 DEF Blocks, After
<1> HIDE DEF n, l, x
<1>7. Stamped' = Stamped \cup {l + 1} /\ Stamped \subseteq 1..l
  BY <1>2, <1>3 DEF Stamped
<1>8. \A k \in Stamped : log'[k] = log[k]
  BY <1>3, <1>7
<1>9. Stamps' = Stamps \cup {x}
  <2>1. Stamps' = {log'[k] : k \in Stamped \cup {l + 1}}
    BY <1>7 DEF Stamps
  <2>2. QED
    BY <1>3, <1>8, <2>1 DEF Stamps
<1>10. SUFFICES ASSUME prog \in Loggers PROVE LogInv'
  BY <1>1, <1>4 DEF LogInv, LogComplete
<1>11. /\ \A j, k \in Stamped : j < k => log[j] < log[k]
       /\ Stamps \subseteq {got[k].at + 1 : k \in DOMAIN got}
       /\ MustLog \subseteq Stamps \cup {x}
       /\ \A k \in DOMAIN log : log[k] # LogEnd
  BY <1>1, <1>2, <1>10 DEF LogInv, LogComplete, x
<1>12. MustLog' = MustLog
  BY <1>1 DEF MustLog
<1>13. \A j, k \in Stamped' : j < k => log'[j] < log'[k]
  <2>1. SUFFICES ASSUME NEW j \in Stamped', NEW k \in Stamped', j < k
                 PROVE  log'[j] < log'[k]
    OBVIOUS
  <2>2. j \in Stamped /\ log'[j] = log[j]
    BY <1>3, <1>7, <1>8, <2>1
  <2>3. CASE k \in Stamped
    BY <1>8, <1>11, <2>1, <2>2, <2>3
  <2>4. CASE k = l + 1
    <3>1. PICK m \in 1..n-1 : log[j] = got[m].at + 1
      BY <1>5, <2>2
    <3>2. log[j] < x /\ log'[k] = x
      BY <1>3, <1>6, <2>4, <3>1
    <3>3. QED
      BY <2>2, <3>2
  <2>5. QED
    BY <1>7, <2>1, <2>3, <2>4
<1>14. \A k \in DOMAIN log' : log'[k] # LogEnd
  BY <1>2, <1>3, <1>11 DEF LogEnd
<1>15. Stamps' \subseteq {got[k].at + 1 : k \in DOMAIN got}
  BY <1>2, <1>6, <1>9, <1>11
<1>16. MustLog' \ Stamps' = {}
  BY <1>9, <1>11, <1>12
<1>17. LogComplete'
  BY <1>1, <1>13, <1>14, <1>15, <1>16 DEF LogComplete
<1>18. QED
  BY <1>1, <1>4, <1>17 DEF LogInv

\* Every step keeps the log a copy of what was read.
LEMMA LogStep ==
  ASSUME StateInv, LogInv, [Next]_vars
  PROVE  LogInv'
<1>1. DeviceInv /\ ControlInv /\ RecordsInv
  BY DEF StateInv
<1>2. CASE Unlogged
  <2>1. /\ Stamped' = Stamped /\ Stamps' = Stamps /\ MustLog' = MustLog
        /\ Earlier => Earlier'
    BY <1>2 DEF Unlogged, Stamped, Stamps, MustLog, Earlier
  <2>2. LogComplete'
    BY <1>2, <2>1 DEF Unlogged, LogInv, LogComplete
  <2>3. QED
    BY <1>2, <2>1, <2>2 DEF Unlogged, LogInv
<1>3. CASE Elsewhere
  BY <1>3 DEF Elsewhere, LogInv, LogComplete
<1>4. QED
  BY <1>1, <1>2, <1>3, LogKinds, Opened, EndOfLog, Warmed, Sampled, Recorded

\* The log holds stamps that were read, each once and in order, and leaves out none but
\* those of the first second of fdelay-gs and one that was read when the program was
\* killed; the mark at its end is there only when a signal ended the program.
THEOREM LogHolds == Spec => []LogComplete
<1>1. LogInv => LogComplete
  BY DEF LogInv
<1>2. StateInv /\ LogInv /\ [Next]_vars => LogInv'
  BY LogStep
<1>3. QED
  BY <1>1, <1>2, LogInit, StateHolds, PTL DEF Spec

----------------------------------------------------------------------------
(* The array of fdelay_read() and fdelay_fread().                          *)

\* The end of the call that a slot belongs to is the first one past the slot.
IsEnd(e, k) == e > k /\ \A f \in ToSet(ends) : f > k => e <= f

EndsTold == \A k \in Nat, e \in Nat :
              ToSet(ends) \subseteq Nat /\ e \in ToSet(ends) /\ IsEnd(e, k) => EndOfCall(k) = e

\* EndOfCall gives the end of the inner call that a slot belongs to.
LEMMA EndIs == EndsTold
<1> SUFFICES ASSUME NEW k \in Nat, NEW e \in Nat, ToSet(ends) \subseteq Nat,
                    e \in ToSet(ends), IsEnd(e, k)
             PROVE  EndOfCall(k) = e
  BY DEF EndsTold
<1>1. EndOfCall(k) \in ToSet(ends) /\ IsEnd(EndOfCall(k), k)
  BY DEF EndOfCall, IsEnd
<1>2. EndOfCall(k) <= e /\ e <= EndOfCall(k)
  BY <1>1 DEF IsEnd
<1>3. QED
  BY <1>1, <1>2

\* And so after a step.
LEMMA EndWillBe == EndsTold'
BY EndIs, PTL

\* The members of a sequence with one more are the members and that one.
LEMMA SetOfAppend ==
  ASSUME NEW S, NEW s \in Seq(S), NEW x \in S
  PROVE  ToSet(Append(s, x)) = ToSet(s) \cup {x}
<1> DEFINE t == Append(s, x)
<1>1. /\ Len(s) \in Nat /\ DOMAIN s = 1..Len(s) /\ DOMAIN t = 1..Len(s)+1
      /\ \A k \in 1..Len(s) : t[k] = s[k]
      /\ t[Len(s) + 1] = x
  BY LenProperties
<1> HIDE DEF t
<1>2. ToSet(t) = ToSet(s) \cup {x}
  BY <1>1 DEF ToSet
<1>3. QED
  BY <1>2 DEF t

\* When x samples were taken by calls that returned, the array holds the last of each.
Slot(k) == dest[k] = IF k = 0 \/ k \in ToSet(ends) THEN got[EndOfCall(k)].at + 1 ELSE 0

Settled(x) ==
  /\ ToSet(ends) \subseteq 1..x
  /\ x > 0 => x \in ToSet(ends)
  /\ \A k \in 0..x-1 : Slot(k) /\ \E e \in ToSet(ends) : IsEnd(e, k)

\* The calls: the samples taken by those that returned and by the one that runs, the slots
\* that none has reached, and who calls.
Untouched == \A k \in base+1..ReadLen-1 : dest[k] = 0
Callers   == (prog # "fread" => base = 0) /\ (tries > 0 => prog = "read")
Running   == /\ Len(got) = base + i /\ Settled(base)
             /\ i > 0 => dest[base] = got[base + i].at + 1

\* What a call that returned has left: the last sample of each inner call in the slot where
\* that call began, and nothing elsewhere.
LastKept ==
  pc = "returned" /\ ret >= 0 =>
    /\ Len(got) = ret
    /\ \A k \in 0..ReadLen-1 :
         /\ dest[k] = IF Filled(k) THEN got[EndOfCall(k)].at + 1 ELSE 0
         /\ Filled(k) => EndOfCall(k) \in k+1..ret

SamplesInv ==
  /\ pc \in {"call", "returned"} => Untouched /\ Callers
  /\ pc = "call" => Running
  /\ LastKept

\* Before the first call the array of the caller is empty.
LEMMA SamplesInit == Init => SamplesInv
BY DEF Init, SamplesInv, LastKept

\* A call returns: what it took is accounted for.
Accounted(x) ==
  /\ Len(got') = x /\ \A k \in 1..Len(got) : got'[k] = got[k]
  /\ dest'[base] = got'[x].at + 1
  /\ \A k \in 0..ReadLen-1 : k # base => dest'[k] = dest[k]
  /\ ends' = Append(ends, x)

\* An inner call that returns leaves its last sample in its first slot.
LEMMA CallReturns ==
  ASSUME CallInv, Running, Untouched, NEW x \in 1..ReadLen, x > base, Accounted(x)
  PROVE  Settled(x)'
<1>1. /\ base \in 0..ReadLen-1 /\ i \in Nat /\ ends \in Seq(Nat) /\ ReadLen \in Nat
      /\ Len(got) = base + i
  BY Sizes DEF CallInv, Running
<1>2. ToSet(ends') = ToSet(ends) \cup {x}
  BY <1>1, SetOfAppend DEF Accounted
<1>3. ToSet(ends) \subseteq 1..base /\ (base > 0 => base \in ToSet(ends))
  BY DEF Running, Settled
<1>4. ToSet(ends') \subseteq 1..x /\ x \in ToSet(ends')
  BY <1>1, <1>2, <1>3
<1>5. ASSUME NEW k \in 0..base-1
      PROVE  Slot(k)' /\ \E e \in ToSet(ends') : IsEnd(e, k)'
  <2>1. PICK e \in ToSet(ends) : IsEnd(e, k)
    BY DEF Running, Settled
  <2>2. e \in 1..base /\ e > k /\ e < x /\ k \in Nat /\ k < base
    BY <1>1, <1>3, <2>1 DEF IsEnd
  <2>3. IsEnd(e, k)' /\ e \in ToSet(ends')
    BY <1>2, <2>1, <2>2 DEF IsEnd
  <2>4. EndOfCall(k) = e
    BY <1>1, <1>3, <2>1, <2>2, EndIs DEF EndsTold
  <2>5. EndOfCall(k)' = e
    BY <1>4, <2>2, <2>3, EndWillBe DEF EndsTold
  <2>6. got'[e] = got[e] /\ dest'[k] = dest[k] /\ (k \in ToSet(ends') <=> k \in ToSet(ends))
    BY <1>1, <1>2, <2>2 DEF Accounted
  <2>7. Slot(k)
    BY DEF Running, Settled
  <2>8. QED
    BY <2>3, <2>4, <2>5, <2>6, <2>7 DEF Slot
<1>6. ASSUME NEW k \in base..x-1
      PROVE  Slot(k)' /\ IsEnd(x, k)'
  <2>1. k \in Nat /\ k >= base /\ k < x /\ x \in Nat
    BY <1>1
  <2>2. \A f \in ToSet(ends') : f > k => x <= f
    BY <1>1, <1>2, <1>3, <2>1
  <2>3. IsEnd(x, k)'
    BY <2>1, <2>2 DEF IsEnd
  <2>4. EndOfCall(k)' = x
    BY <1>4, <2>1, <2>3, EndWillBe DEF EndsTold
  <2>5. CASE k = base
    <3>1. k = 0 \/ k \in ToSet(ends')
      BY <1>1, <1>2, <1>3, <2>5
    <3>2. dest'[k] = got'[x].at + 1
      BY <2>5 DEF Accounted
    <3>3. QED
      BY <2>3, <2>4, <3>1, <3>2 DEF Slot
  <2>6. CASE k # base
    <3>1. k \notin ToSet(ends') /\ k # 0
      BY <1>1, <1>2, <1>3, <2>1, <2>6
    <3>2. k \in base+1..ReadLen-1 /\ dest'[k] = dest[k]
      BY <1>1, <2>1, <2>6 DEF Accounted
    <3>3. dest[k] = 0
      BY <3>2 DEF Untouched
    <3>4. QED
      BY <2>3, <3>1, <3>2, <3>3 DEF Slot
  <2>7. QED
    BY <2>3, <2>5, <2>6
<1>7. ASSUME NEW k \in 0..x-1
      PROVE  Slot(k)' /\ \E e \in ToSet(ends') : IsEnd(e, k)'
  <2>1. k \in 0..base-1 \/ k \in base..x-1
    BY <1>1
  <2>2. QED
    BY <1>4, <1>5, <1>6, <2>1
<1>8. QED
  BY <1>4, <1>7 DEF Settled

\* What the program is told.
LEMMA Reported ==
  ASSUME Settled(ret), ret \in 1..ReadLen, Len(got) = ret,
         \A k \in ret..ReadLen-1 : dest[k] = 0
  PROVE  LastKept
<1>1. ASSUME NEW k \in 0..ReadLen-1
      PROVE  /\ dest[k] = IF Filled(k) THEN got[EndOfCall(k)].at + 1 ELSE 0
             /\ Filled(k) => EndOfCall(k) \in k+1..ret
  <2>1. CASE k < ret
    <3>1. k \in 0..ret-1 /\ ret \in Nat
      BY <2>1, Sizes
    <3>2. Slot(k) /\ (Filled(k) <=> k = 0 \/ k \in ToSet(ends))
      BY <2>1, <3>1 DEF Settled, Filled
    <3>3. PICK e \in ToSet(ends) : IsEnd(e, k)
      BY <3>1 DEF Settled
    <3>4. e \in 1..ret /\ ToSet(ends) \subseteq Nat /\ e > k
      BY <3>1, <3>3 DEF Settled, IsEnd
    <3>5. EndOfCall(k) = e
      BY <3>1, <3>3, <3>4, EndIs DEF EndsTold
    <3>6. QED
      BY <3>1, <3>2, <3>4, <3>5 DEF Slot
  <2>2. CASE ~(k < ret)
    <3>1. k \in ret..ReadLen-1 /\ ~Filled(k)
      BY <2>2, Sizes DEF Filled
    <3>2. QED
      BY <3>1
  <2>3. QED
    BY <2>1, <2>2
<1>2. QED
  BY <1>1 DEF LastKept

ReportedFits == Settled(ret) /\ ret \in 1..ReadLen /\ Len(got) = ret
                /\ (\A k \in ret..ReadLen-1 : dest[k] = 0)

\* What the library returns after a step fits the property if its samples are settled.
LEMMA WillBeReported == (ReportedFits => LastKept)'
<1>1. ReportedFits => LastKept
  BY Reported DEF ReportedFits
<1>2. QED
  BY <1>1, PTL

\* The calls end, in a call of fdelay_fread() or in the program.
LEMMA CallEnds ==
  ASSUME StateInv, Running, Untouched, Callers, prog' = prog, tries' = tries,
         NEW value \in 1..ReadLen, base + value <= ReadLen,
         Accounted(base + value), Return(value)
  PROVE  SamplesInv'
<1>1. base \in 0..ReadLen-1 /\ ReadLen \in Nat /\ value \in Nat /\ value >= 1
  BY Sizes DEF StateInv, CallInv
<1>2. PICK x \in 1..ReadLen : x = base + value
  BY <1>1
<1>3. x > base /\ Accounted(x)
  BY <1>1, <1>2
<1>4. Settled(x)' /\ Len(got') = x
  BY <1>2, <1>3, CallReturns DEF StateInv, Accounted
<1>5. \A k \in base+1..ReadLen-1 : dest'[k] = 0
  <2>1. SUFFICES ASSUME NEW k \in base+1..ReadLen-1 PROVE dest'[k] = 0
    OBVIOUS
  <2>2. k \in 0..ReadLen-1 /\ k # base
    BY <1>1
  <2>3. QED
    BY <1>3, <2>2 DEF Accounted, Untouched
<1>6. CASE prog = "fread" /\ value >= 0 /\ base + value < ReadLen
  <2>1. base' = x /\ i' = 0 /\ pc' = "call"
    BY <1>2, <1>6 DEF Return
  <2>2. Untouched'
    <3>1. \A k \in x+1..ReadLen-1 : k \in base+1..ReadLen-1
      BY <1>1, <1>3
    <3>2. QED
      BY <1>5, <2>1, <3>1 DEF Untouched
  <2>3. Callers'
    BY <1>6 DEF Callers
  <2>4. Running'
    BY <1>4, <2>1, SMTT(30) DEF Running, Settled, Slot, IsEnd, EndOfCall
  <2>5. QED
    BY <2>1, <2>2, <2>3, <2>4 DEF SamplesInv, LastKept
<1>7. CASE ~(prog = "fread" /\ value >= 0 /\ base + value < ReadLen)
  <2>1. ret' = x /\ pc' = "returned" /\ base' = base
    BY <1>2, <1>7 DEF Return
  <2>2. Untouched' /\ Callers'
    BY <1>5, <2>1 DEF Untouched, Callers
  <2>3. \A k \in x..ReadLen-1 : dest'[k] = 0
    BY <1>1, <1>3, <1>5
  <2>4. Settled(ret)'
    BY <1>4, <2>1 DEF Settled, Slot, IsEnd, EndOfCall
  <2>5. LastKept'
    BY <1>4, <2>1, <2>3, <2>4, WillBeReported DEF ReportedFits
  <2>6. QED
    BY <2>1, <2>2, <2>5 DEF SamplesInv
<1>8. QED
  BY <1>6, <1>7

\* Reads, retries, failures and returns keep the account of the array.
LEMMA SamplesStep ==
  ASSUME StateInv, SamplesInv, [Next]_vars
  PROVE  SamplesInv'
<1>1. DeviceInv /\ ControlInv /\ CallInv /\ ReadLen \in Nat
  BY Sizes DEF StateInv
<1>2. CASE Aside
  <2>1. UNCHANGED <<i, base, dest, ret, ends>>
    BY <1>2 DEF Aside, call
  <2>2. CASE pc' \in {"call", "returned"}
    <3>1. UNCHANGED <<pc, got, prog, tries>>
      BY <1>2, <2>2 DEF Aside
    <3>2. Untouched' = Untouched /\ Callers' = Callers
      BY <2>1, <3>1 DEF Untouched, Callers
    <3>3. \A k : EndOfCall(k)' = EndOfCall(k)
      BY <2>1 DEF EndOfCall
    <3>4. \A k : (Filled(k)' <=> Filled(k)) /\ (Slot(k)' <=> Slot(k))
      BY <2>1, <3>1, <3>3 DEF Filled, Slot
    <3>5. Settled(base) => Settled(base)'
      BY <2>1, <3>4 DEF Settled, IsEnd
    <3>6. Running => Running'
      BY <2>1, <3>1, <3>5 DEF Running
    <3>7. LastKept => LastKept'
      BY <2>1, <3>1, <3>3, <3>4 DEF LastKept
    <3>8. QED
      BY <3>1, <3>2, <3>6, <3>7 DEF SamplesInv
  <2>3. CASE pc' \notin {"call", "returned"}
    BY <2>3 DEF SamplesInv, LastKept
  <2>4. QED
    BY <2>2, <2>3
<1>3. ASSUME NEW p \in Programs, Begins(p)
      PROVE  SamplesInv'
  <2>1. /\ i' = 0 /\ base' = 0 /\ dest' = [k \in 0..ReadLen-1 |-> 0] /\ ends' = <<>>
        /\ got' = <<>> /\ pc' # "returned"
    BY <1>3 DEF Begins, Fresh
  <2>2. Untouched'
    BY <2>1 DEF Untouched
  <2>3. Callers'
    BY <1>3, <2>1 DEF Begins, Callers
  <2>4. ToSet(ends') = {} /\ Len(got') = 0
    BY <2>1 DEF ToSet
  <2>5. Running'
    BY <2>1, <2>4 DEF Running, Settled
  <2>6. QED
    BY <2>1, <2>2, <2>3, <2>5 DEF SamplesInv, LastKept
<1>4. CASE ReadOne
  <2>1. /\ pc = "call" /\ Reads /\ prog' = prog /\ tries' = tries
        /\ dest' = [dest EXCEPT ![base] = Head(queue).at + 1]
    BY <1>4 DEF ReadOne, Reads, FreadSlot, config
  <2>2. Untouched /\ Callers /\ Running /\ i + base < ReadLen
        /\ i \in Nat /\ base \in 0..ReadLen-1 /\ Len(got) = base + i
        /\ dest \in [0..ReadLen-1 -> 0..MaxSamples]
    BY <1>1, <2>1 DEF SamplesInv, CallInv, Running
  <2>3. /\ Len(got') = Len(got) + 1
        /\ \A k \in 1..Len(got) : got'[k] = got[k]
        /\ got'[Len(got) + 1] = Head(queue)
    BY <1>1, <2>1, ReadsStep
  <2>4. /\ dest'[base] = Head(queue).at + 1
        /\ \A k \in 0..ReadLen-1 : k # base => dest'[k] = dest[k]
    BY <2>1, <2>2
  <2>5. CASE i + 1 = AsksFor(base)
    <3>1. Return(i + 1) /\ ends' = Append(ends, base + i + 1)
      BY <1>4, <2>5 DEF ReadOne
    <3>2. base + (i + 1) = base + i + 1 /\ base + (i + 1) = ReadLen /\ Len(got) + 1 = base + (i + 1)
      BY <1>1, <2>2, <2>5 DEF AsksFor
    <3>3. Accounted(base + (i + 1))
      BY <2>3, <2>4, <3>1, <3>2 DEF Accounted
    <3>4. PICK value \in 1..ReadLen : value = i + 1
      BY <1>1, <2>2, <3>2
    <3>5. base + value <= ReadLen /\ Accounted(base + value) /\ Return(value)
      BY <1>1, <3>1, <3>2, <3>3, <3>4
    <3>6. QED
      BY <2>1, <2>2, <3>5, CallEnds
  <2>6. CASE i + 1 # AsksFor(base)
    <3>1. i' = i + 1 /\ UNCHANGED <<base, pc, ret, ends>>
      BY <1>4, <2>6 DEF ReadOne
    <3>2. Untouched' /\ Callers'
      BY <1>1, <2>1, <2>2, <2>4, <3>1 DEF Untouched, Callers
    <3>3. Len(got) + 1 = base + i' /\ Len(got') = base' + i'
      BY <2>2, <2>3, <3>1
    <3>4. dest'[base'] = got'[base' + i'].at + 1
      BY <2>3, <2>4, <3>1, <3>3
    <3>5. Settled(base)'
      <4>1. Settled(base)
        BY <2>2 DEF Running
      <4>2. /\ ToSet(ends) \subseteq 1..base
            /\ base > 0 => base \in ToSet(ends)
            /\ \A k \in 0..base-1 : Slot(k) /\ \E e \in ToSet(ends) : IsEnd(e, k)
        BY <4>1 DEF Settled
      <4>3. ASSUME NEW k \in 0..base-1
            PROVE  Slot(k)' /\ \E e \in ToSet(ends) : IsEnd(e, k)'
        <5>1. PICK e \in ToSet(ends) : IsEnd(e, k)
          BY <4>2
        <5>2. IsEnd(e, k)' /\ EndOfCall(k)' = EndOfCall(k)
          BY <3>1, <5>1 DEF IsEnd, EndOfCall
        <5>3. EndOfCall(k) = e
          BY <2>2, <4>2, <5>1, EndIs DEF EndsTold
        <5>4. e \in 1..Len(got) /\ k \in 0..ReadLen-1 /\ k # base
          <6>1. e \in 1..base
            BY <4>2
          <6>2. QED
            BY <1>1, <2>2, <6>1
        <5>5. got'[e] = got[e] /\ dest'[k] = dest[k] /\ Slot(k)
          BY <2>3, <2>4, <4>2, <5>4
        <5>6. QED
          BY <3>1, <5>2, <5>3, <5>5 DEF Slot
      <4>4. QED
        BY <3>1, <4>2, <4>3 DEF Settled
    <3>6. QED
      BY <2>1, <3>1, <3>2, <3>3, <3>4, <3>5 DEF SamplesInv, Running, LastKept
  <2>7. QED
    BY <2>5, <2>6
<1>5. CASE ReadAgain
  <2>1. /\ pc = "call" /\ prog' = prog /\ tries' = tries /\ dest' = dest /\ got' = got /\ i > 0
        /\ Return(i) /\ ends' = Append(ends, base + i)
    BY <1>5 DEF ReadAgain, config
  <2>2. Untouched /\ Callers /\ Running /\ i + base < ReadLen
        /\ i \in Nat /\ base \in 0..ReadLen-1 /\ Len(got) = base + i
        /\ dest[base] = got[base + i].at + 1
    BY <1>1, <2>1 DEF SamplesInv, CallInv, Running
  <2>3. Accounted(base + i)
    BY <2>1, <2>2 DEF Accounted
  <2>4. PICK value \in 1..ReadLen : value = i
    BY <1>1, <2>1, <2>2
  <2>5. base + value <= ReadLen /\ Accounted(base + value) /\ Return(value)
    BY <1>1, <2>1, <2>2, <2>3, <2>4
  <2>6. QED
    BY <2>1, <2>2, <2>5, CallEnds
<1>6. CASE ReadFails
  <2>1. /\ pc = "call" /\ pc' = "returned" /\ ret' = -1 /\ UNCHANGED <<prog, tries, base, dest>>
    BY <1>6 DEF ReadFails, None, config
  <2>2. Untouched' /\ Callers'
    BY <2>1 DEF SamplesInv, Untouched, Callers
  <2>3. QED
    BY <2>1, <2>2 DEF SamplesInv, LastKept
<1>7. CASE ReadTwice
  <2>1. /\ pc = "returned" /\ tries > 0 /\ pc' = "call" /\ prog' = prog /\ dest' = dest
        /\ i' = 0 /\ base' = 0 /\ ends' = <<>> /\ got' = <<>>
    BY <1>7 DEF ReadTwice
  <2>2. prog = "read" /\ base = 0 /\ Untouched
    BY <2>1 DEF SamplesInv, Callers
  <2>3. Untouched' /\ Callers'
    BY <2>1, <2>2 DEF Untouched, Callers
  <2>4. ToSet(ends') = {} /\ Len(got') = 0
    BY <2>1 DEF ToSet
  <2>5. Running'
    BY <2>1, <2>4 DEF Running, Settled
  <2>6. QED
    BY <2>1, <2>3, <2>5 DEF SamplesInv, LastKept
<1>8. QED
  BY <1>1, <1>2, <1>3, <1>4, <1>5, <1>6, <1>7, CallKinds

\* The library calls return as many samples as they took from the device, and no inner call
\* leaves nothing of what it took.
THEOREM SamplesHold == Spec => []CallsApart
<1>1. SamplesInv => CallsApart
  <2>1. SUFFICES ASSUME SamplesInv, pc = "returned", ret >= 0, NEW k \in 0..ReadLen-1, Filled(k)
                 PROVE  \E j \in k+1..EndOfCall(k) : dest[k] = got[j].at + 1
    BY DEF SamplesInv, LastKept, CallsApart
  <2>2. dest[k] = got[EndOfCall(k)].at + 1 /\ EndOfCall(k) \in k+1..ret
    BY <2>1 DEF SamplesInv, LastKept
  <2>3. EndOfCall(k) \in k+1..EndOfCall(k)
    BY <2>2
  <2>4. QED
    BY <2>2, <2>3
<1>2. StateInv /\ SamplesInv /\ [Next]_vars => SamplesInv'
  BY SamplesStep
<1>3. QED
  BY <1>1, <1>2, SamplesInit, StateHolds, PTL DEF Spec

----------------------------------------------------------------------------
(* Sequence numbers.                                                       *)

\* Quotient and remainder.
LEMMA DivMod ==
  ASSUME NEW a \in Int, NEW k \in Nat \ {0}
  PROVE  /\ a \div k \in Int /\ a % k \in 0..k-1
         /\ a = k * (a \div k) + (a % k)
OBVIOUS

\* The remainder of a sum with a multiple.
LEMMA Residue ==
  ASSUME NEW m \in Nat \ {0}, NEW k \in Int, NEW c \in 0..m-1
  PROVE  (k * m + c) % m = c
<1> DEFINE x == k * m + c   d == x \div m   r == x % m
<1>0. x \in Int
  OBVIOUS
<1> HIDE DEF x
<1>1. d \in Int /\ r \in 0..m-1 /\ x = m * d + r
  BY <1>0, DivMod
<1>2. m * (k - d) = r - c
  BY <1>1 DEF x
<1> DEFINE e == d - k
<1>a. e \in Int /\ m * e = c - r
  BY <1>1, <1>2
<1>b. d \in Int /\ r \in 0..m-1
  BY <1>1
<1> HIDE DEF d, r, e
<1>3. e = 0
  <2>1. ~(e >= 1)
    BY <1>a, <1>b
  <2>2. ~(e <= -1)
    BY <1>a, <1>b
  <2>3. QED
    BY <1>a, <2>1, <2>2
<1>4. r = c
  BY <1>a, <1>b, <1>3
<1>5. QED
  BY <1>4 DEF r, x

Reduces(x, y, m) == ((x % m) + y) % m = (x + y) % m /\ (y - (x % m)) % m = (y - x) % m

\* Reducing a term before a sum or a difference does not change its remainder.
LEMMA Reduced ==
  ASSUME NEW m \in Nat \ {0}, NEW x \in Int, NEW y \in Int
  PROVE  Reduces(x, y, m)
<1> DEFINE q == x \div m   r == x % m
<1>1. q \in Int /\ r \in 0..m-1 /\ x = m * q + r
  BY DivMod
<1> HIDE DEF q, r
<1>2. ASSUME NEW z \in Int, NEW k \in Int
      PROVE  (k * m + z) % m = z % m
  <2> DEFINE d == z \div m   c == z % m
  <2>1. d \in Int /\ c \in 0..m-1 /\ z = m * d + c
    BY DivMod
  <2> HIDE DEF d, c
  <2>2. k + d \in Int /\ (k + d) * m = k * m + m * d
    BY <2>1
  <2>3. k * m + z = (k + d) * m + c
    BY <2>1, <2>2
  <2>4. ((k + d) * m + c) % m = c
    BY <2>1, <2>2, Residue
  <2>5. QED
    BY <2>3, <2>4 DEF c
<1>3. (r + y) % m = (x + y) % m
  <2> DEFINE z == r + y
  <2>1. z \in Int /\ q \in Int /\ x + y = q * m + z
    BY <1>1
  <2> HIDE DEF z
  <2>2. (q * m + z) % m = z % m
    BY <1>2, <2>1
  <2>3. QED
    BY <2>1, <2>2 DEF z
<1>4. (y - r) % m = (y - x) % m
  <2>1. y - r \in Int /\ -q \in Int
    BY <1>1
  <2>2. (-q) * m = -(m * q)
    BY <1>1
  <2> DEFINE z == y - r
  <2>3. y - x = (-q) * m + z
    BY <1>1, <2>2
  <2> HIDE DEF z
  <2>4. ((-q) * m + z) % m = z % m
    BY <1>2, <2>1 DEF z
  <2>5. QED
    BY <2>3, <2>4 DEF z
<1>5. QED
  BY <1>3, <1>4 DEF r, Reduces

\* The difference of two numbers tells that of the samples, up to whole turns.
LEMMA Gap ==
  ASSUME NEW x \in Nat, NEW y \in Nat, NEW c \in Nat
  PROVE  /\ ((x % SeqSize) - ((y % SeqSize) + c)) % SeqSize = (x - (y + c)) % SeqSize
         /\ (x % SeqSize = y % SeqSize) <=> (x - y) % SeqSize = 0
<1> DEFINE S == SeqSize   u == x % SeqSize   v == y % SeqSize
<1>1. S \in Nat \ {0} /\ u \in 0..S-1 /\ v \in 0..S-1 /\ x \in Int /\ y \in Int
  BY Sizes, DivMod
<1>2. (x - y) % S = (u - y) % S /\ (u - y) % S = (u - v) % S
  <2> DEFINE w == -y
  <2>1. w \in Int /\ u + w = u - y /\ x + w = x - y /\ u \in Int
    BY <1>1
  <2> HIDE DEF w
  <2>2. (u + w) % S = (x + w) % S
    <3>1. Reduces(x, w, S)
      BY <1>1, <2>1, Reduced
    <3>2. QED
      BY <3>1, <2>1 DEF Reduces, u
  <2> HIDE DEF u
  <2>3. (u - v) % S = (u - y) % S
    <3>1. Reduces(y, u, S)
      BY <1>1, <2>1, Reduced
    <3>2. QED
      BY <3>1, Zenon DEF Reduces, v
  <2>4. QED
    BY <2>1, <2>2, <2>3
<1>3. (u - (v + c)) % S = (x - (y + c)) % S
  <2> DEFINE w == -(v + c)   z == x - c
  <2>1. /\ w \in Int /\ z \in Int
        /\ u + w = u - (v + c) /\ x + w = z - v /\ z - y = x - (y + c)
    BY <1>1
  <2> HIDE DEF w, z
  <2>2. (u + w) % S = (x + w) % S
    <3>1. Reduces(x, w, S)
      BY <1>1, <2>1, Reduced
    <3>2. QED
      BY <3>1, <2>1 DEF Reduces, u
  <2>3. (z - v) % S = (z - y) % S
    <3>1. Reduces(y, z, S)
      BY <1>1, <2>1, Reduced
    <3>2. QED
      BY <3>1, Zenon DEF Reduces, v
  <2>4. QED
    BY <2>1, <2>2, <2>3
<1>4. u = v <=> (u - v) % S = 0
  <2> HIDE DEF S, u, v
  <2>1. CASE u >= v
    <3> DEFINE w == u - v
    <3>1. w \in 0..S-1 /\ 0 * S + w = w /\ (u = v <=> w = 0)
      BY <1>1, <2>1
    <3> HIDE DEF w
    <3>2. (0 * S + w) % S = w
      BY <1>1, <3>1, Residue
    <3>3. QED
      BY <3>1, <3>2 DEF w
  <2>2. CASE u < v
    <3> DEFINE w == u + S - v
    <3>1. w \in 1..S-1 /\ (-1) * S + w = u - v /\ u # v
      BY <1>1, <2>2
    <3> HIDE DEF w
    <3>2. ((-1) * S + w) % S = w
      BY <1>1, <3>1, Residue
    <3>3. QED
      BY <3>1, <3>2
  <2>3. QED
    BY <1>1, <2>1, <2>2
<1>5. QED
  BY <1>2, <1>3, <1>4

----------------------------------------------------------------------------
(* What is reported lost.                                                  *)

\* The raw programs run in the raw mode, the others but fdelay-term without it.
Modes == prog \notin {"none", "term"} => (prog \in Raw <=> raw)

Single == {"raw-input", "raw-perf"}

\* The program remembers the number of the last block, or the one it expects next.
Remembers ==
  /\ prog \in Single /\ got # <<>> => expected = Seq16(Last(got))
  /\ prog = "raw-input" /\ got = <<>> => expected = None
  /\ prog \in Raw /\ ~Crosses(Before(Len(got) + 1)) =>
       expected = (Before(Len(got) + 1).at + Before(Len(got) + 1).n) % SeqSize

\* There is a report for each block of the raw programs, for each but the first of the
\* others.
Counts ==
  /\ prog \in Single => Len(lost) = Len(got) - (IF got = <<>> THEN 0 ELSE 1)
  /\ prog \in Raw => Len(lost) = Len(got)

GapsInv ==
  /\ Modes
  /\ lost \in Seq(Int)
  /\ Remembers
  /\ Counts
  /\ GapsReported

\* Before the first block there is nothing to compare with.
LEMMA GapsInit == Init => GapsInv
<1> SUFFICES ASSUME Init PROVE GapsInv
  OBVIOUS
<1>1. prog = "none" /\ lost \in Seq(Int)
  BY EmptySeq DEF Init
<1>2. prog \notin Raw /\ prog \notin Single
  BY <1>1 DEF Raw, Single
<1>3. GapsReported
  BY <1>1, <1>2 DEF GapsReported
<1>4. QED
  BY <1>1, <1>2, <1>3 DEF GapsInv, Modes, Remembers, Counts, Single

\* The steps of the programs that compare.
Incomparable ==
  /\ UNCHANGED <<raw, lost, prog>>
  /\ UNCHANGED <<expected, got>> \/ prog \notin Raw \cup Single

Compares(p) ==
  /\ Fresh /\ prog' = p /\ raw' = raw /\ (p # "term" => (p \in Raw <=> raw))
  /\ expected' = IF p \in Raw THEN 0 ELSE None

\* The steps that compare sequence numbers or forget the last one.
LEMMA GapKinds ==
  ASSUME ControlInv, [Next]_vars
  PROVE  \/ Incomparable
         \/ \E p \in Programs : Compares(p)
         \/ RawInput \/ RawPerf \/ PerfReport \/ RawBlock
<1>1. ASSUME NEW n \in 1..BlockLen, NEW m \in n..MaxSamples, Arrive(n, m)
      PROVE  Incomparable
  BY <1>1 DEF Arrive, Incomparable, compare
<1>2. ASSUME NEW p \in Programs, NEW want, NEW offset, NEW last, Start(p, want, offset, last)
      PROVE  Compares(p)
  BY <1>2 DEF Start, Compares, device
<1>3. CASE GetConfig \/ SetTermination \/ WrLocked \/ WrNotLocked \/ WriteOffset
  BY <1>3 DEF GetConfig, SetTermination, WrLocked, WrNotLocked, WriteOffset, Incomparable,
              device, compare
<1>4. CASE Killed \/ Ends \/ CloseBoard \/ EnterReadout \/ LeaveReadout
  BY <1>4 DEF Killed, Ends, CloseBoard, EnterReadout, LeaveReadout, Incomparable, device,
              compare
<1>5. CASE ReadOne
  <2>1. pc = "call" /\ UNCHANGED <<raw, lost, prog>>
    BY <1>5 DEF ReadOne, Take, compare
  <2>2. QED
    BY <2>1 DEF Incomparable, ControlInv, Library, Raw, Single
<1>6. CASE ReadAgain \/ ReadFails
  BY <1>6 DEF ReadAgain, ReadFails, Incomparable, device, compare
<1>7. CASE ReadTwice
  BY <1>7 DEF ReadTwice, Incomparable, ControlInv, Library, Raw, Single, device, compare
<1>8. CASE SecondPasses \/ LogWrite
  BY <1>8 DEF SecondPasses, LogWrite, Incomparable, device, compare
<1>9. CASE GsSample \/ DumplogSample
  BY <1>9 DEF GsSample, DumplogSample, Take, Incomparable, Raw, Single, compare
<1>10. CASE UNCHANGED vars
  BY <1>10 DEF vars, device, compare, Incomparable
<1>11. QED
  BY <1>1, <1>2, <1>3, <1>4, <1>5, <1>6, <1>7, <1>8, <1>9, <1>10 DEF Next

\* A program that starts has nothing to compare with.
LEMMA Compared ==
  ASSUME NEW p \in Programs, Compares(p)
  PROVE  GapsInv'
<1>1. /\ lost' = <<>> /\ got' = <<>> /\ prog' = p /\ raw' = raw
      /\ p # "term" => (p \in Raw <=> raw)
      /\ expected' = IF p \in Raw THEN 0 ELSE None
  BY DEF Compares, Fresh
<1>2. Len(lost') = 0 /\ lost' \in Seq(Int) /\ Len(got') = 0
  BY <1>1, EmptySeq
<1>3. Before(Len(got) + 1)' = [at |-> 0, n |-> 0]
  BY <1>2 DEF Before
<1>4. 0 = (0 + 0) % SeqSize
  <2>1. SeqSize \in Nat \ {0} /\ 0 \in 0..SeqSize-1 /\ 0 * SeqSize + 0 = 0 + 0
    BY Sizes
  <2>2. (0 * SeqSize + 0) % SeqSize = 0
    BY <2>1, Residue
  <2>3. QED
    BY <2>1, <2>2
<1>5. Remembers'
  BY <1>1, <1>3, <1>4 DEF Remembers, Single, Raw
<1>6. Counts'
  BY <1>1, <1>2 DEF Counts
<1>7. GapsReported'
  BY <1>1, <1>2 DEF GapsReported
<1>8. QED
  BY <1>1, <1>2, <1>5, <1>6, <1>7 DEF GapsInv, Modes

\* A sequence number is a number below the size of its field.
LEMMA SeqRange ==
  ASSUME NEW b \in Blocks
  PROVE  Seq16(b) \in Nat /\ Seq16(b) \in Int /\ Seq16(b) < SeqSize
<1>1. b.at \in Int
  BY Sizes DEF Blocks
<1>2. b.at % SeqSize \in 0..SeqSize-1
  BY <1>1, Remainder, Sizes
<1>3. QED
  BY <1>2, Sizes DEF Seq16

\* A block that is read, and the one before it.
LEMMA Consecutive ==
  ASSUME DeviceInv, Reads
  PROVE  /\ Len(got) \in Nat /\ Len(got') = Len(got) + 1 /\ got' # <<>>
         /\ \A k \in 1..Len(got) : got'[k] = got[k]
         /\ got'[Len(got) + 1] = Head(queue) /\ Last(got') = Head(queue)
         /\ Head(queue) \in Blocks /\ raw' = raw /\ (got # <<>> <=> Len(got) > 0)
         /\ got # <<>> =>
              /\ Last(got) = got[Len(got)] /\ Last(got) \in Blocks
              /\ After(Last(got), Head(queue)) /\ (~raw => Last(got).n = 1)
<1>1. /\ Head(queue) = queue[1] /\ Head(queue) \in Blocks /\ Len(queue) \in Nat \ {0}
      /\ got' \in Seq(Blocks) /\ Len(got') = Len(got) + 1 /\ Len(got) \in Nat
      /\ \A k \in 1..Len(got) : got'[k] = got[k]
      /\ got'[Len(got) + 1] = Head(queue)
      /\ raw' = raw
  BY ReadsStep
<1>2. got' # <<>> /\ Last(got') = Head(queue)
  BY <1>1, EmptySeq DEF Last
<1>3. got \in Seq(Blocks) /\ (got # <<>> <=> Len(got) > 0)
  BY <1>1, EmptySeq DEF DeviceInv
<1>4. ASSUME got # <<>>
      PROVE  /\ Last(got) = got[Len(got)] /\ Last(got) \in Blocks
             /\ After(Last(got), Head(queue)) /\ (~raw => Last(got).n = 1)
  <2>1. Len(got) \in 1..Len(got) /\ 1 \in 1..Len(queue) /\ Last(got) = got[Len(got)]
    BY <1>1, <1>3, <1>4 DEF Last
  <2>2. got[Len(got)] \in Blocks
    BY <1>3, <2>1, ElementOfSeq
  <2>3. After(got[Len(got)], queue[1]) /\ (~raw => got[Len(got)].n = 1)
    BY <2>1 DEF DeviceInv, InOrder
  <2>4. QED
    BY <1>1, <2>1, <2>2, <2>3
<1>5. QED
  BY <1>1, <1>2, <1>3, <1>4

\* fd-raw-input and fd-raw-perf: what is reported between the block and the one before it.
LEMMA SingleRead ==
  ASSUME DeviceInv, GapsInv, Reads, prog \in Single, prog' = prog, NEW x \in Int,
         expected' = Seq16(Head(queue)),
         lost' = IF got = <<>> THEN lost ELSE Append(lost, x)
  PROVE  /\ lost' \in Seq(Int) /\ Counts' /\ Remembers' /\ Modes'
         /\ \A k \in 1..Len(lost) : k + 1 \in 1..Len(got) /\ k \in 1..Len(got) /\ lost'[k] = lost[k]
         /\ got = <<>> => Len(lost') = 0
         /\ got # <<>> => Len(lost') = Len(got) /\ Len(lost') = Len(lost) + 1
                          /\ lost'[Len(got)] = x
<1>1. /\ lost \in Seq(Int) /\ Len(lost) \in Nat
      /\ Len(lost) = Len(got) - (IF got = <<>> THEN 0 ELSE 1)
  BY LenProperties DEF GapsInv, Counts
<1>2. /\ Len(got) \in Nat /\ Len(got') = Len(got) + 1 /\ got' # <<>>
      /\ Last(got') = Head(queue) /\ raw' = raw /\ (got # <<>> <=> Len(got) > 0)
  BY Consecutive
<1>3. prog \notin Raw /\ prog \notin {"none", "term"}
  BY DEF Single, Raw
<1>4. lost' \in Seq(Int)
  BY <1>1
<1>5. got = <<>> => lost' = lost /\ Len(lost) = 0
  BY <1>1, <1>2
<1>6. got # <<>> => /\ Len(lost') = Len(lost) + 1 /\ Len(lost) + 1 = Len(got)
                    /\ lost'[Len(lost) + 1] = x
                    /\ \A k \in 1..Len(lost) : lost'[k] = lost[k]
  BY <1>1, <1>2
<1>7. Counts'
  BY <1>2, <1>3, <1>5, <1>6 DEF Counts
<1>8. Remembers'
  BY <1>2, <1>3 DEF Remembers
<1>9. Modes'
  BY <1>2 DEF GapsInv, Modes
<1>10. \A k \in 1..Len(lost) : k + 1 \in 1..Len(got) /\ k \in 1..Len(got) /\ lost'[k] = lost[k]
  BY <1>1, <1>2, <1>5, <1>6
<1>11. QED
  BY <1>4, <1>5, <1>6, <1>7, <1>8, <1>9, <1>10

\* event() of fd-raw-input reports a gap exactly if there is one.
LEMMA InputRead ==
  ASSUME DeviceInv, GapsInv, RawInput
  PROVE  GapsInv'
<1> DEFINE a == Last(got)   b == Head(queue)   n == Len(got)
<1>1. /\ prog = "raw-input" /\ prog' = prog /\ Reads
      /\ expected' = Seq16(b)
      /\ lost' = IF expected = None THEN lost ELSE Append(lost, LostEvents(Seq16(b)))
  BY DEF RawInput, Event, Reads
<1>2. /\ n \in Nat /\ \A k \in 1..n : got'[k] = got[k]
      /\ got'[n + 1] = b /\ b \in Blocks
      /\ got # <<>> => a = got[n] /\ a \in Blocks /\ n \in 1..n /\ (~raw => a.n = 1)
  BY <1>1, Consecutive
<1>3. ~raw /\ prog \in Single /\ (got = <<>> => expected = None)
      /\ (got # <<>> => expected = Seq16(a))
  BY <1>1 DEF GapsInv, Modes, Remembers, Single, Raw
<1>4. \A k \in 1..Len(lost) : lost[k] = Missing(got[k], got[k + 1]) % SeqSize
  BY <1>1 DEF GapsInv, GapsReported, Raw
<1> HIDE DEF a, b, n
<1>5. got # <<>> => expected # None
  BY <1>2, <1>3, SeqRange DEF None
<1>6. got # <<>> => LostEvents(Seq16(b)) = Missing(a, b) % SeqSize
  <2>1. SUFFICES ASSUME got # <<>>
                 PROVE  LostEvents(Seq16(b)) = Missing(a, b) % SeqSize
    OBVIOUS
  <2>2. a.at \in Nat /\ b.at \in Nat /\ a.n = 1
    BY <1>2, <1>3, <2>1 DEF Blocks
  <2>3. ((b.at % SeqSize) - ((a.at % SeqSize) + 1)) % SeqSize = (b.at - (a.at + 1)) % SeqSize
    BY <2>2, Gap
  <2>4. QED
    BY <1>3, <2>1, <2>2, <2>3 DEF LostEvents, Seq16, Missing
<1>7. LostEvents(Seq16(b)) \in Int
  <2>1. Seq16(b) \in Int
    BY <1>2, SeqRange
  <2>2. expected \in Int
    BY <1>2, <1>3, SeqRange DEF None
  <2>3. Seq16(b) - (expected + 1) \in Int
    BY <2>1, <2>2
  <2>4. QED
    BY <2>3, Remainder, Sizes DEF LostEvents
<1>8. lost' = IF got = <<>> THEN lost ELSE Append(lost, LostEvents(Seq16(b)))
  BY <1>1, <1>3, <1>5
<1>9. /\ lost' \in Seq(Int) /\ Counts' /\ Remembers' /\ Modes'
      /\ \A k \in 1..Len(lost) : k + 1 \in 1..n /\ k \in 1..n /\ lost'[k] = lost[k]
      /\ got = <<>> => Len(lost') = 0
      /\ got # <<>> => Len(lost') = n /\ Len(lost') = Len(lost) + 1
                       /\ lost'[n] = LostEvents(Seq16(b))
  BY <1>1, <1>3, <1>7, <1>8, SingleRead DEF b, n
<1>10. ASSUME NEW k \in 1..Len(lost')
       PROVE  lost'[k] = Missing(got'[k], got'[k + 1]) % SeqSize
  <2>1. got # <<>>
    BY <1>9, <1>10
  <2>2. k \in 1..Len(lost) \/ k = n
    BY <1>2, <1>9, <2>1
  <2>3. CASE k \in 1..Len(lost)
    BY <1>2, <1>4, <1>9, <2>3
  <2>4. CASE k = n
    BY <1>2, <1>6, <1>9, <2>1, <2>4
  <2>5. QED
    BY <2>2, <2>3, <2>4
<1>11. GapsReported'
  BY <1>1, <1>9, <1>10 DEF GapsReported, Counts, Single, Raw
<1>12. QED
  BY <1>9, <1>11 DEF GapsInv

\* perf_one() reports a gap exactly if there is one, up to half of the range.
LEMMA PerfRead ==
  ASSUME DeviceInv, RecordsInv, GapsInv, RawPerf
  PROVE  GapsInv'
<1> DEFINE a == Last(got)   b == Head(queue)   n == Len(got)
           d == Signed16(Seq16(b) - expected - 1)
<1>1. /\ prog = "raw-perf" /\ prog' = prog /\ Reads
      /\ expected' = Seq16(b)
      /\ lost' = IF got = <<>> THEN lost ELSE Append(lost, d)
  BY DEF RawPerf, PerfOne, Reads
<1>2. /\ n \in Nat /\ \A k \in 1..n : got'[k] = got[k]
      /\ got'[n + 1] = b /\ b \in Blocks
      /\ got # <<>> => a = got[n] /\ a \in Blocks /\ After(a, b) /\ (~raw => a.n = 1)
  BY <1>1, Consecutive
<1>3. ~raw /\ prog \in Single /\ (got # <<>> => expected = Seq16(a))
  BY <1>1 DEF GapsInv, Modes, Remembers, Single, Raw
<1>4. \A k \in 1..Len(lost) : Missing(got[k], got[k + 1]) < SeqSize \div 2 =>
                                lost[k] = Missing(got[k], got[k + 1])
  BY <1>1 DEF GapsInv, GapsReported, Raw
<1>5. d \in Int
  <2>1. Seq16(b) \in Int /\ expected \in Int
    BY <1>2, SeqRange, Sizes DEF RecordsInv
  <2> DEFINE z == Seq16(b) - expected - 1
  <2>2. z \in Int
    BY <2>1
  <2> HIDE DEF z
  <2>3. z % SeqSize \in Int
    BY <2>2, Remainder, Sizes
  <2>4. Signed16(z) \in Int
    BY <2>3, Sizes DEF Signed16
  <2>5. QED
    BY <2>4 DEF z
<1> HIDE DEF a, b, n, d
<1>6. got # <<>> /\ Missing(a, b) < SeqSize \div 2 => d = Missing(a, b)
  <2>1. SUFFICES ASSUME got # <<>>, Missing(a, b) < SeqSize \div 2
                 PROVE  d = Missing(a, b)
    OBVIOUS
  <2>2. a.at \in Nat /\ b.at \in Nat /\ a.n = 1 /\ a.at + 1 <= b.at
    BY <1>2, <1>3, <2>1 DEF Blocks, After
  <2> DEFINE m == Missing(a, b)   x == Seq16(b)   y == Seq16(a)
  <2>3. m \in Nat /\ m = b.at - (a.at + 1)
    BY <2>2 DEF Missing
  <2>4. (x - (y + 1)) % SeqSize = m % SeqSize
    BY <2>2, <2>3, Gap DEF Seq16
  <2>5. x \in Int /\ y \in Int
    BY <1>2, <2>1, SeqRange
  <2> HIDE DEF x, y, m
  <2>6. x - y - 1 = x - (y + 1)
    BY <2>5
  <2>7. m < SeqSize \div 2 /\ SeqSize \div 2 <= SeqSize /\ SeqSize \in Nat \ {0}
    BY <2>1, Sizes DEF m
  <2>8. m \in 0..SeqSize-1 /\ 0 * SeqSize + m = m
    BY <2>3, <2>7
  <2>9. (0 * SeqSize + m) % SeqSize = m
    BY <2>7, <2>8, Residue
  <2>10. (x - y - 1) % SeqSize = m
    BY <2>4, <2>6, <2>8, <2>9
  <2>11. Signed16(x - y - 1) = m
    BY <2>3, <2>7, <2>10 DEF Signed16
  <2>12. QED
    BY <1>3, <2>1, <2>11 DEF d, x, y, m
<1>7. /\ lost' \in Seq(Int) /\ Counts' /\ Remembers' /\ Modes'
      /\ \A k \in 1..Len(lost) : k + 1 \in 1..n /\ k \in 1..n /\ lost'[k] = lost[k]
      /\ got = <<>> => Len(lost') = 0
      /\ got # <<>> => Len(lost') = n /\ Len(lost') = Len(lost) + 1 /\ lost'[n] = d
  BY <1>1, <1>3, <1>5, SingleRead DEF b, n
<1>8. ASSUME NEW k \in 1..Len(lost'), Missing(got'[k], got'[k + 1]) < SeqSize \div 2
      PROVE  lost'[k] = Missing(got'[k], got'[k + 1])
  <2>1. got # <<>>
    BY <1>7, <1>8
  <2>2. k \in 1..Len(lost) \/ k = n
    BY <1>2, <1>7, <2>1
  <2>3. CASE k \in 1..Len(lost)
    <3>1. got'[k] = got[k] /\ got'[k + 1] = got[k + 1] /\ lost'[k] = lost[k]
      BY <1>2, <1>7, <2>3
    <3>2. QED
      BY <1>4, <1>8, <2>3, <3>1
  <2>4. CASE k = n
    <3>1. got'[k] = a /\ got'[k + 1] = b /\ lost'[k] = d
      BY <1>2, <1>7, <2>1, <2>4
    <3>2. QED
      BY <1>6, <1>8, <2>1, <3>1
  <2>5. QED
    BY <2>2, <2>3, <2>4
<1>9. GapsReported'
  BY <1>1, <1>8 DEF GapsReported, Raw
<1>10. QED
  BY <1>7, <1>9 DEF GapsInv

\* tdc_raw_dump and speed_test: what they expect after a block is the number that follows
\* its last sample, but for the block that crosses the end of the numbers in tdc_raw_dump.
LEMMA NextNumber ==
  ASSUME NEW b \in Blocks, prog \in Raw, ~Crosses(b)
  PROVE  IF prog = "raw-dump" THEN DumpNext(Seq16(b), b.n) = (b.at + b.n) % SeqSize
                              ELSE SpeedNext(Seq16(b), b.n) = (b.at + b.n) % SeqSize
<1> DEFINE x == b.at   c == b.n   q == x % SeqSize
<1>1. x \in Int /\ c \in Nat /\ c \in Int /\ SeqSize \in Nat \ {0}
  BY Sizes DEF Blocks
<1>2. q \in 0..SeqSize-1
  BY <1>1, Remainder
<1>3. (q + c) % SeqSize = (x + c) % SeqSize
  <2>1. Reduces(x, c, SeqSize)
    BY <1>1, Reduced
  <2>2. QED
    BY <2>1 DEF Reduces
<1>4. prog = "raw-dump" => q + c <= SeqSize
  BY <1>1, <1>2 DEF Crosses, Seq16
<1> HIDE DEF x, c, q
<1>5. q + c <= SeqSize - 1 => (q + c) % SeqSize = q + c
  <2>1. SUFFICES ASSUME q + c <= SeqSize - 1 PROVE (q + c) % SeqSize = q + c
    OBVIOUS
  <2> DEFINE w == q + c
  <2>2. w \in 0..SeqSize-1 /\ 0 * SeqSize + w = w
    BY <1>1, <1>2, <2>1
  <2> HIDE DEF w
  <2>3. (0 * SeqSize + w) % SeqSize = w
    BY <1>1, <2>2, Residue
  <2>4. QED
    BY <2>2, <2>3 DEF w
<1>6. q + c = SeqSize => (q + c) % SeqSize = 0
  <2>1. 1 * SeqSize + 0 = SeqSize /\ 0 \in 0..SeqSize-1
    BY <1>1
  <2>2. (1 * SeqSize + 0) % SeqSize = 0
    BY <1>1, <2>1, Residue
  <2>3. QED
    BY <2>1, <2>2
<1>7. CASE prog = "raw-dump"
  <2>1. DumpNext(q, c) = (q + c) % SeqSize
    BY <1>1, <1>2, <1>4, <1>5, <1>6, <1>7 DEF DumpNext
  <2>2. QED
    BY <1>3, <1>7, <2>1 DEF x, c, q, Seq16
<1>8. CASE prog # "raw-dump"
  <2>1. SpeedNext(q, c) = (q + c) % SeqSize
    BY <1>1, <1>2, <1>5 DEF SpeedNext
  <2>2. QED
    BY <1>3, <1>8, <2>1 DEF x, c, q, Seq16
<1>9. QED
  BY <1>7, <1>8

\* handle_readout() of tdc_raw_dump and speed_test do as GapsReported says.
LEMMA BlockRead ==
  ASSUME DeviceInv, GapsInv, RawBlock
  PROVE  GapsInv'
<1> DEFINE b == Head(queue)   n == Len(got)   e == Before(n + 1)
           v == IF expected = Seq16(b) THEN 0 ELSE 1
<1>1. /\ prog \in Raw /\ prog' = prog /\ Reads /\ lost' = Append(lost, v)
      /\ expected' = IF prog = "raw-dump" THEN DumpNext(Seq16(b), b.n)
                                          ELSE SpeedNext(Seq16(b), b.n)
  BY DEF RawBlock, Reads
<1>2. /\ n \in Nat /\ Len(got') = n + 1 /\ \A k \in 1..n : got'[k] = got[k]
      /\ got'[n + 1] = b /\ b \in Blocks /\ raw' = raw
      /\ n > 0 => Last(got) = got[n] /\ Last(got) \in Blocks /\ After(Last(got), b)
  BY <1>1, Consecutive
<1>3. prog \notin Single /\ prog # "raw-input" /\ prog # "raw-perf"
  BY <1>1 DEF Single, Raw
<1>4. /\ lost \in Seq(Int) /\ Len(lost) = n /\ Modes
      /\ ~Crosses(e) => expected = (e.at + e.n) % SeqSize
      /\ \A k \in 1..Len(lost) :
           ~Crosses(Before(k)) => (lost[k] = 0 <=> Missing(Before(k), got[k]) % SeqSize = 0)
  BY <1>1, <1>3 DEF GapsInv, Remembers, Counts, GapsReported
<1>5. v \in Int
  OBVIOUS
<1> HIDE DEF b, n, e, v
<1>6. /\ lost' \in Seq(Int) /\ Len(lost') = n + 1 /\ lost'[n + 1] = v
      /\ \A k \in 1..n : lost'[k] = lost[k]
  BY <1>1, <1>2, <1>4, <1>5
<1>7. e.at \in Nat /\ e.n \in Nat
  <2>1. CASE n = 0
    BY <1>2, <2>1 DEF e, Before
  <2>2. CASE n # 0
    <3>1. e = got[n] /\ got[n] \in Blocks
      BY <1>2, <2>2 DEF e, Before
    <3>2. QED
      BY <3>1 DEF Blocks
  <2>3. QED
    BY <2>1, <2>2
<1>8. \A k \in 1..n+1 : Before(k)' = Before(k) /\ (Crosses(Before(k))' <=> Crosses(Before(k)))
  <2>1. SUFFICES ASSUME NEW k \in 1..n+1
                 PROVE  Before(k)' = Before(k) /\ (Crosses(Before(k))' <=> Crosses(Before(k)))
    OBVIOUS
  <2>2. Before(k)' = Before(k)
    BY <1>2 DEF Before
  <2>3. QED
    BY <1>1, <2>2 DEF Crosses
<1>9. ~Crosses(e) => (v = 0 <=> Missing(e, b) % SeqSize = 0)
  <2>1. SUFFICES ASSUME ~Crosses(e) PROVE v = 0 <=> Missing(e, b) % SeqSize = 0
    OBVIOUS
  <2>2. expected = (e.at + e.n) % SeqSize
    BY <1>4, <2>1
  <2>3. b.at \in Nat /\ e.at + e.n \in Nat
    BY <1>2, <1>7 DEF Blocks
  <2>4. (b.at % SeqSize = (e.at + e.n) % SeqSize) <=> (b.at - (e.at + e.n)) % SeqSize = 0
    BY <2>3, Gap
  <2>5. QED
    BY <2>2, <2>4 DEF v, Seq16, Missing
<1>10. ASSUME NEW k \in 1..Len(lost'), ~Crosses(Before(k))'
       PROVE  lost'[k] = 0 <=> (Missing(Before(k), got[k])') % SeqSize = 0
  <2>1. k \in 1..n \/ k = n + 1
    BY <1>2, <1>6
  <2>2. Before(k)' = Before(k) /\ ~Crosses(Before(k))
    BY <1>2, <1>8, <1>10, <2>1
  <2>3. CASE k \in 1..n
    <3>1. got'[k] = got[k] /\ lost'[k] = lost[k] /\ k \in 1..Len(lost)
      BY <1>2, <1>4, <1>6, <2>3
    <3>2. QED
      BY <1>4, <2>2, <3>1 DEF Missing
  <2>4. CASE k = n + 1
    BY <1>2, <1>6, <1>9, <2>2, <2>4 DEF Missing, e
  <2>5. QED
    BY <2>1, <2>3, <2>4
<1>11. GapsReported'
  BY <1>1, <1>3, <1>10 DEF GapsReported
<1>12. Counts' /\ Modes'
  BY <1>1, <1>2, <1>3, <1>4, <1>6 DEF Counts, Modes
<1>13. Remembers'
  <2>1. Before(Len(got) + 1)' = b
    BY <1>2 DEF Before
  <2>2. Crosses(Before(Len(got) + 1))' <=> Crosses(b)
    BY <1>1, <2>1 DEF Crosses
  <2>3. ~Crosses(b) => expected' = (b.at + b.n) % SeqSize
    BY <1>1, <1>2, NextNumber
  <2>4. QED
    BY <1>1, <1>3, <2>1, <2>2, <2>3 DEF Remembers
<1>14. QED
  BY <1>6, <1>11, <1>12, <1>13 DEF GapsInv

\* Every step keeps the report of the losses true.
LEMMA GapsStep ==
  ASSUME StateInv, GapsInv, [Next]_vars
  PROVE  GapsInv'
<1>1. DeviceInv /\ ControlInv /\ RecordsInv
  BY DEF StateInv
<1>2. CASE Incomparable
  <2>1. Modes' /\ lost' \in Seq(Int)
    BY <1>2 DEF Incomparable, GapsInv, Modes
  <2>2. CASE prog \notin Raw \cup Single
    BY <1>2, <2>1, <2>2 DEF Incomparable, GapsInv, Remembers, Counts, GapsReported, Single
  <2>3. CASE UNCHANGED <<expected, got>>
    <3>1. UNCHANGED <<expected, got, lost, prog>>
      BY <1>2, <2>3 DEF Incomparable
    <3>2. \A k : Before(k)' = Before(k) /\ (Crosses(Before(k))' <=> Crosses(Before(k)))
      BY <3>1 DEF Before, Crosses
    <3>3. GapsReported'
      BY <3>1, <3>2 DEF GapsInv, GapsReported, Missing
    <3>4. Remembers' /\ Counts'
      BY <3>1, <3>2 DEF GapsInv, Remembers, Counts
    <3>5. QED
      BY <2>1, <3>3, <3>4 DEF GapsInv
  <2>4. QED
    BY <1>2, <2>2, <2>3 DEF Incomparable
<1>3. CASE PerfReport
  <2>1. /\ prog = "raw-perf" /\ prog' = prog /\ got' = <<>> /\ lost' = <<>> /\ raw' = raw
    BY <1>3 DEF PerfReport, device
  <2>2. prog \notin Raw /\ Len(lost') = 0 /\ Len(got') = 0 /\ lost' \in Seq(Int)
    BY <2>1, EmptySeq DEF Raw
  <2>3. GapsReported'
    BY <2>1, <2>2 DEF GapsReported
  <2>4. Remembers' /\ Counts' /\ Modes'
    BY <2>1, <2>2 DEF Remembers, Counts, GapsInv, Modes
  <2>5. QED
    BY <2>2, <2>3, <2>4 DEF GapsInv
<1>4. QED
  BY <1>1, <1>2, <1>3, GapKinds, Compared, InputRead, PerfRead, BlockRead

\* What the programs report as lost is what the driver lost between the blocks they read,
\* as far as the numbers can tell.
THEOREM GapsHold == Spec => []GapsReported
<1>1. GapsInv => GapsReported
  BY DEF GapsInv
<1>2. StateInv /\ GapsInv /\ [Next]_vars => GapsInv'
  BY GapsStep
<1>3. QED
  BY <1>1, <1>2, GapsInit, StateHolds, PTL DEF Spec
==============================================================================
