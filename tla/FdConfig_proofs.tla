--------------------------- MODULE FdConfig_proofs ---------------------------
(***************************************************************************)
(* Theorems about the flags of the input channel and their registers.      *)
(***************************************************************************)
EXTENDS FdConfig, TLAPS

\* A flag that no other code has set is one on which users and tdc_flags agree, ...
Agrees(flag) == flag \notin overridden => (flag \in written <=> flag \in tdcFlags)
Remembered   == conf \in {"idle", "time"} => Agrees("INPUT") /\ Agrees("TSTAMP") /\ Agrees("TERM")

\* ... and its register does what the user wrote, but for the registers that the write in
\* progress has still to touch, and for GCR while set-time holds its value.
InputKept == conf # "time" /\ "INPUT" \notin overridden => (inputEn <=> "INPUT" \notin written)
StampKept == conf # "tsbcr" /\ "TSTAMP" \notin overridden =>
               ("ENABLE" \in tsbcr <=> "TSTAMP" \notin written)
TermWaits == conf \in {"tsbcr", "term"} /\ "TERM" \in Change(tdcFlags, val)
TermKept  == ~TermWaits /\ "TERM" \notin overridden => (term <=> "TERM" \in written)
Kept      == InputKept /\ StampKept /\ TermKept

\* What the write in progress holds: the value it was given, a value of TSBCR with the
\* channel selected, or the value of GCR.
Held ==
  /\ conf \in {"tsbcr", "term"} => written = val
  /\ conf = "tsbcr" => /\ "TSTAMP" \in Change(tdcFlags, val)
                       /\ saved \in SUBSET {"ENABLE", "CHAN_MASK"}
                       /\ doInput /\ ~raced => "CHAN_MASK" \in saved
  /\ conf = "time" /\ "INPUT" \notin overridden => (Restored <=> "INPUT" \notin written)

\* The trigger is armed the first time once.
ArmedOnce == arming => ~doInput

\* The inductive invariant of the flags.
IInv == TypeOK /\ Remembered /\ Kept /\ Held /\ ArmedOnce /\ ChannelSelected

----------------------------------------------------------------------------
(* Each part is kept by each step.                                         *)

\* The initial state.
LEMMA IInvInit == Init => IInv
<1> SUFFICES ASSUME Init PROVE IInv
  OBVIOUS
<1>1. TypeOK
  BY DEF Init, TypeOK, Flags
<1>2. Remembered /\ Held /\ ArmedOnce /\ ChannelSelected
  BY DEF Init, Remembered, Agrees, Held, ArmedOnce, ChannelSelected
<1>3. Kept
  BY DEF Init, Kept, InputKept, StampKept, TermKept
<1>4. QED
  BY <1>1, <1>2, <1>3 DEF IInv

\* Every step keeps the types.
LEMMA TypeStep == TypeOK /\ Held /\ [Next]_vars => TypeOK'
<1> SUFFICES ASSUME TypeOK, Held, [Next]_vars PROVE TypeOK'
  OBVIOUS
<1> USE DEF TypeOK, With
<1>1. CASE WriteFlags
  <2>1. PICK v \in SUBSET Flags :
          /\ val' = v /\ written' = v
          /\ inputEn' = IF "INPUT" \in Change(tdcFlags, v) THEN "INPUT" \notin v ELSE inputEn
          /\ overridden' = overridden \ (Change(tdcFlags, v) \cap {"INPUT"})
          /\ \/ conf' = "tsbcr" /\ saved' = tsbcr
             \/ conf' = "term" /\ saved' = saved
    BY <1>1 DEF WriteFlags, TsbcrRead
  <2>2. inputEn' \in BOOLEAN
    BY <2>1
  <2>3. overridden' \in SUBSET Flags /\ saved' \in SUBSET {"INPUT_EN", "ENABLE", "CHAN_MASK"}
    BY <2>1
  <2>4. QED
    BY <1>1, <2>1, <2>2, <2>3 DEF WriteFlags
<1>2. CASE WriteTsbcr
  BY <1>2 DEF WriteTsbcr, Held
<1>3. CASE WriteTerm
  <2>1. term' \in BOOLEAN
    <3>1. ("TERM" \in val) \in BOOLEAN
      OBVIOUS
    <3>2. term' = term \/ term' = ("TERM" \in val)
      BY <1>3, Zenon DEF WriteTerm
    <3>3. QED
      BY <3>1, <3>2, Zenon
  <2>2. overridden' \in SUBSET Flags
    BY <1>3 DEF WriteTerm, Flags
  <2>3. QED
    BY <1>3, <2>1, <2>2 DEF WriteTerm
<1>4. CASE WriteOffset
  BY <1>4 DEF WriteOffset, Change, regVars, confVars
<1>5. CASE TimeSetBegins
  BY <1>5 DEF TimeSetBegins
<1>6. CASE TimeSetEnds
  BY <1>6 DEF TimeSetEnds, Restored
<1>7. CASE Purge
  BY <1>7 DEF Purge, confVars, Flags
<1>8. CASE ArmPurges
  BY <1>8 DEF ArmPurges, confVars, Flags
<1>9. CASE ArmEnables
  BY <1>9 DEF ArmEnables, confVars, Flags
<1>10. CASE LetItRun
  BY <1>10 DEF LetItRun, confVars, Flags
<1>11. CASE UNCHANGED vars
  BY <1>11 DEF vars, regVars, confVars
<1>12. QED
  BY <1>1, <1>2, <1>3, <1>4, <1>5, <1>6, <1>7, <1>8, <1>9, <1>10, <1>11 DEF Next

\* Users and tdc_flags.
LEMMA RememberedStep == TypeOK /\ Remembered /\ Held /\ [Next]_vars => Remembered'
<1> SUFFICES ASSUME TypeOK, Remembered, Held, [Next]_vars PROVE Remembered'
  OBVIOUS
<1> USE DEF Remembered, Agrees, Held, TypeOK, Change, With, regVars, confVars
<1>1. CASE WriteFlags
  BY <1>1 DEF WriteFlags, TsbcrRead
<1>2. CASE WriteTsbcr
  BY <1>2 DEF WriteTsbcr
<1>3. CASE WriteTerm
  BY <1>3 DEF WriteTerm
<1>4. CASE WriteOffset
  BY <1>4 DEF WriteOffset
<1>5. CASE TimeSetBegins
  BY <1>5 DEF TimeSetBegins, Restored
<1>6. CASE TimeSetEnds
  BY <1>6 DEF TimeSetEnds, Restored
<1>7. CASE Purge
  BY <1>7 DEF Purge, Asked
<1>8. CASE ArmPurges
  BY <1>8 DEF ArmPurges
<1>9. CASE ArmEnables
  BY <1>9 DEF ArmEnables, Asked
<1>10. CASE LetItRun
  BY <1>10 DEF LetItRun, Asked, Restored
<1>11. CASE UNCHANGED vars
  BY <1>11 DEF vars, Restored
<1>12. QED
  BY <1>1, <1>2, <1>3, <1>4, <1>5, <1>6, <1>7, <1>8, <1>9, <1>10, <1>11 DEF Next

\* GCR.
LEMMA InputStep == TypeOK /\ Remembered /\ InputKept /\ Held /\ [Next]_vars => InputKept'
<1> SUFFICES ASSUME TypeOK, Remembered, InputKept, Held, [Next]_vars PROVE InputKept'
  OBVIOUS
<1> USE DEF Remembered, Agrees, InputKept, Held, TypeOK, Change, With, regVars, confVars
<1>1. CASE WriteFlags
  BY <1>1 DEF WriteFlags, TsbcrRead
<1>2. CASE WriteTsbcr
  BY <1>2 DEF WriteTsbcr
<1>3. CASE WriteTerm
  BY <1>3 DEF WriteTerm
<1>4. CASE WriteOffset
  BY <1>4 DEF WriteOffset
<1>5. CASE TimeSetBegins
  BY <1>5 DEF TimeSetBegins, Restored
<1>6. CASE TimeSetEnds
  BY <1>6 DEF TimeSetEnds, Restored
<1>7. CASE Purge
  BY <1>7 DEF Purge, Asked
<1>8. CASE ArmPurges
  BY <1>8 DEF ArmPurges
<1>9. CASE ArmEnables
  BY <1>9 DEF ArmEnables, Asked
<1>10. CASE LetItRun
  BY <1>10 DEF LetItRun, Asked, Restored
<1>11. CASE UNCHANGED vars
  BY <1>11 DEF vars, Restored
<1>12. QED
  BY <1>1, <1>2, <1>3, <1>4, <1>5, <1>6, <1>7, <1>8, <1>9, <1>10, <1>11 DEF Next

\* The enable of TSBCR.
LEMMA StampStep == TypeOK /\ Remembered /\ StampKept /\ Held /\ [Next]_vars => StampKept'
<1> SUFFICES ASSUME TypeOK, Remembered, StampKept, Held, [Next]_vars PROVE StampKept'
  OBVIOUS
<1> USE DEF Remembered, Agrees, StampKept, Held, TypeOK, Change, With, regVars, confVars
<1>1. CASE WriteFlags
  BY <1>1 DEF WriteFlags, TsbcrRead
<1>2. CASE WriteTsbcr
  BY <1>2 DEF WriteTsbcr
<1>3. CASE WriteTerm
  BY <1>3 DEF WriteTerm
<1>4. CASE WriteOffset
  BY <1>4 DEF WriteOffset
<1>5. CASE TimeSetBegins
  BY <1>5 DEF TimeSetBegins, Restored
<1>6. CASE TimeSetEnds
  BY <1>6 DEF TimeSetEnds, Restored
<1>7. CASE Purge
  BY <1>7 DEF Purge, Asked
<1>8. CASE ArmPurges
  BY <1>8 DEF ArmPurges
<1>9. CASE ArmEnables
  BY <1>9 DEF ArmEnables, Asked
<1>10. CASE LetItRun
  BY <1>10 DEF LetItRun, Asked, Restored
<1>11. CASE UNCHANGED vars
  BY <1>11 DEF vars, Restored
<1>12. QED
  BY <1>1, <1>2, <1>3, <1>4, <1>5, <1>6, <1>7, <1>8, <1>9, <1>10, <1>11 DEF Next

\* The termination.
LEMMA TermStep == TypeOK /\ Remembered /\ TermKept /\ Held /\ [Next]_vars => TermKept'
<1> SUFFICES ASSUME TypeOK, Remembered, TermKept, Held, [Next]_vars PROVE TermKept'
  OBVIOUS
<1> USE DEF Remembered, Agrees, TermKept, TermWaits, Held, TypeOK, Change, With, regVars, confVars
<1>1. CASE WriteFlags
  BY <1>1 DEF WriteFlags, TsbcrRead
<1>2. CASE WriteTsbcr
  BY <1>2 DEF WriteTsbcr
<1>3. CASE WriteTerm
  BY <1>3 DEF WriteTerm
<1>4. CASE WriteOffset
  BY <1>4 DEF WriteOffset
<1>5. CASE TimeSetBegins
  BY <1>5 DEF TimeSetBegins, Restored
<1>6. CASE TimeSetEnds
  BY <1>6 DEF TimeSetEnds, Restored
<1>7. CASE Purge
  BY <1>7 DEF Purge, Asked
<1>8. CASE ArmPurges
  BY <1>8 DEF ArmPurges
<1>9. CASE ArmEnables
  BY <1>9 DEF ArmEnables, Asked
<1>10. CASE LetItRun
  BY <1>10 DEF LetItRun, Asked, Restored
<1>11. CASE UNCHANGED vars
  BY <1>11 DEF vars, Restored
<1>12. QED
  BY <1>1, <1>2, <1>3, <1>4, <1>5, <1>6, <1>7, <1>8, <1>9, <1>10, <1>11 DEF Next

\* The value that is held.
LEMMA HeldStep ==
  TypeOK /\ Remembered /\ InputKept /\ Held /\ ArmedOnce /\ ChannelSelected /\ [Next]_vars => Held'
<1> SUFFICES ASSUME TypeOK, Remembered, InputKept, Held, ArmedOnce, ChannelSelected,
                    [Next]_vars
             PROVE  Held'
  OBVIOUS
<1> USE DEF Remembered, Agrees, InputKept, Held, ArmedOnce, ChannelSelected, Restored,
             TypeOK, Change, With, regVars, confVars
<1>1. CASE WriteFlags
  BY <1>1 DEF WriteFlags, TsbcrRead
<1>2. CASE WriteTsbcr
  BY <1>2 DEF WriteTsbcr
<1>3. CASE WriteTerm
  BY <1>3 DEF WriteTerm
<1>4. CASE WriteOffset
  BY <1>4 DEF WriteOffset
<1>5. CASE TimeSetBegins
  BY <1>5 DEF TimeSetBegins
<1>6. CASE TimeSetEnds
  BY <1>6 DEF TimeSetEnds
<1>7. CASE Purge
  BY <1>7 DEF Purge, Asked
<1>8. CASE ArmPurges
  BY <1>8 DEF ArmPurges
<1>9. CASE ArmEnables
  BY <1>9 DEF ArmEnables, Asked
<1>10. CASE LetItRun
  BY <1>10 DEF LetItRun, Asked
<1>11. CASE UNCHANGED vars
  BY <1>11 DEF vars
<1>12. QED
  BY <1>1, <1>2, <1>3, <1>4, <1>5, <1>6, <1>7, <1>8, <1>9, <1>10, <1>11 DEF Next

\* The channel.
LEMMA ChannelStep ==
  TypeOK /\ Held /\ ArmedOnce /\ ChannelSelected /\ [Next]_vars
    => (ArmedOnce /\ ChannelSelected)'
<1> SUFFICES ASSUME TypeOK, Held, ArmedOnce, ChannelSelected, [Next]_vars
             PROVE  (ArmedOnce /\ ChannelSelected)'
  OBVIOUS
<1> USE DEF Held, ArmedOnce, ChannelSelected, TypeOK, Change, With, regVars, confVars
<1>1. CASE WriteFlags
  BY <1>1 DEF WriteFlags, TsbcrRead
<1>2. CASE WriteTsbcr
  BY <1>2 DEF WriteTsbcr
<1>3. CASE WriteTerm
  BY <1>3 DEF WriteTerm
<1>4. CASE WriteOffset
  BY <1>4 DEF WriteOffset
<1>5. CASE TimeSetBegins
  BY <1>5 DEF TimeSetBegins, Restored
<1>6. CASE TimeSetEnds
  BY <1>6 DEF TimeSetEnds, Restored
<1>7. CASE Purge
  BY <1>7 DEF Purge, Asked
<1>8. CASE ArmPurges
  BY <1>8 DEF ArmPurges
<1>9. CASE ArmEnables
  BY <1>9 DEF ArmEnables, Asked
<1>10. CASE LetItRun
  BY <1>10 DEF LetItRun, Asked, Restored
<1>11. CASE UNCHANGED vars
  BY <1>11 DEF vars, Restored
<1>12. QED
  BY <1>1, <1>2, <1>3, <1>4, <1>5, <1>6, <1>7, <1>8, <1>9, <1>10, <1>11 DEF Next

\* The invariant is inductive.
LEMMA IInvStep == IInv /\ [Next]_vars => IInv'
BY TypeStep, RememberedStep, InputStep, StampStep, TermStep, HeldStep, ChannelStep, Zenon
   DEF IInv, Kept

\* The invariant holds in every state of every behaviour.
LEMMA AlwaysIInv == Spec => []IInv
BY IInvInit, IInvStep, PTL DEF Spec

----------------------------------------------------------------------------
(* The theorems.                                                           *)

\* Every variable has its type: TSBCR never gets the bits of another register back, though
\* one local variable holds GCR or TSBCR between the read and the write.
THEOREM FlagsTyped == Spec => []TypeOK
<1>1. IInv => TypeOK
  BY DEF IInv
<1>2. QED
  BY <1>1, AlwaysIInv, PTL

\* Between writes every flag that no other code has set is in force as the user last wrote
\* it, in every order of writes of flags and offsets, set-time, purges, the first arming and
\* the end of fd_irq_init().
THEOREM FlagsHold == Spec => []FlagsInForce
<1>1. IInv => FlagsInForce
  <2> SUFFICES ASSUME IInv, conf = "idle", NEW flag \in Flags, flag \notin overridden
               PROVE  InForce(flag)
    BY DEF FlagsInForce
  <2>1. CASE flag = "INPUT"
    BY <2>1 DEF IInv, Kept, InputKept, InForce
  <2>2. CASE flag = "TSTAMP"
    BY <2>2 DEF IInv, Kept, StampKept, InForce
  <2>3. CASE flag = "TERM"
    BY <2>3 DEF IInv, Kept, TermKept, TermWaits, InForce
  <2>4. QED
    BY <2>1, <2>2, <2>3 DEF Flags
<1>2. QED
  BY <1>1, AlwaysIInv, PTL

\* No write of flags deselects the channel of an input in use, unless it held the register
\* while the trigger was armed for the first time.
THEOREM ChannelHolds == Spec => []ChannelSelected
<1>1. IInv => ChannelSelected
  BY DEF IInv
<1>2. QED
  BY <1>1, AlwaysIInv, PTL
============================================================================
