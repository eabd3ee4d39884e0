--------------------------- MODULE FdClock_proofs ---------------------------
(***************************************************************************)
(* Theorems about the clock, for any number of users and any times.        *)
(***************************************************************************)
EXTENDS FdClock, TLAPS

\* What every user knows; the part of the invariant that interleavings disturb.
Known == GotOneTime /\ \A p \in Procs : Getting(p) /\ Setting(p)

\* The initial state satisfies the invariant.
LEMMA InitIInv == Init => IInv
<1> SUFFICES ASSUME Init PROVE IInv
  OBVIOUS
<1>1. Zero \in AllTimes
  BY WordsAssumption DEF Zero, AllTimes
<1>2. TypeOK
  BY <1>1, TimesAssumption DEF Init, TypeOK, Labels
<1>3. QED
  BY <1>2 DEF Init, IInv, WrModeInForce, GotOneTime, Getting, Setting

\* Every step keeps the types.
LEMMA TypeStep == TypeOK /\ [Next]_vars => TypeOK'
<1> SUFFICES ASSUME TypeOK, [Next]_vars PROVE TypeOK'
  OBVIOUS
<1> USE DEF TypeOK, Labels, Goto, boardVars
<1>0. Zero \in AllTimes
  BY WordsAssumption DEF Zero, AllTimes
<1>1. ASSUME NEW p \in Procs, Get(p) PROVE TypeOK'
  <2>1. CASE GetHigh(p)
    <3>1. t' \in [Procs -> AllTimes]
      BY <2>1 DEF GetHigh, Capture, AllTimes
    <3>2. QED
      BY <2>1, <3>1 DEF GetHigh, Capture, Touch, TcrAfter
  <2>2. CASE GetLow(p)
    <3>1. t' \in [Procs -> AllTimes]
      BY <2>2 DEF GetLow, AllTimes
    <3>2. QED
      BY <2>2, <3>1 DEF GetLow
  <2>3. CASE GetCoarse(p)
    <3>1. t' \in [Procs -> AllTimes]
      BY <2>3 DEF GetCoarse, AllTimes
    <3>2. QED
      BY <2>3, <3>1 DEF GetCoarse
  <2>4. QED
    BY <1>1, <2>1, <2>2, <2>3 DEF Get
<1>2. ASSUME NEW p \in Procs, Set(p) PROVE TypeOK'
  <2>1. CASE SetCoarse(p)
    <3>1. PICK time \in Times : t' = [t EXCEPT ![p] = time]
                                /\ attr' = [attr EXCEPT !.c = time.c]
      BY <2>1 DEF SetCoarse
    <3>2. t' \in [Procs -> AllTimes] /\ attr' \in AllTimes
      BY <3>1, TimesAssumption DEF AllTimes
    <3>3. QED
      BY <2>1, <3>2 DEF SetCoarse, Touch
  <2>2. CASE SetLow(p)
    <3>1. attr' \in AllTimes
      BY <2>2 DEF SetLow, AllTimes
    <3>2. QED
      BY <2>2, <3>1 DEF SetLow
  <2>3. CASE SetHigh(p)
    <3>1. attr' \in AllTimes
      BY <2>3 DEF SetHigh, AllTimes
    <3>2. QED
      BY <2>3, <3>1 DEF SetHigh, Program, TcrAfter
  <2>4. QED
    BY <1>2, <2>1, <2>2, <2>3 DEF Set
<1>3. ASSUME NEW p \in Procs, Return(p) PROVE TypeOK'
  BY <1>0, <1>3 DEF Return
<1>4. CASE HostTime \/ Tick
  BY <1>4, TimesAssumption DEF HostTime, Tick, TcrAfter
<1>5. CASE WrOn \/ WrOff \/ WrTunes
  BY <1>5 DEF WrOn, WrOff, WrTunes
<1>6. CASE UNCHANGED vars
  BY <1>6 DEF vars
<1>7. QED
  BY <1>1, <1>2, <1>3, <1>4, <1>5, <1>6 DEF Next

\* FD_FLAG_WR_MODE and WR_ENABLE only change together.
LEMMA WrStep == WrModeInForce /\ [Next]_vars => WrModeInForce'
<1> SUFFICES ASSUME WrModeInForce, [Next]_vars PROVE WrModeInForce'
  OBVIOUS
<1> USE DEF WrModeInForce
<1>1. ASSUME NEW p \in Procs, Get(p) \/ Set(p) \/ Return(p) PROVE WrModeInForce'
  BY <1>1 DEF Get, Set, GetHigh, GetLow, GetCoarse, SetCoarse, SetLow, SetHigh, Return,
              TcrAfter, boardVars
<1>2. CASE WrOn \/ WrOff
  BY <1>2 DEF WrOn, WrOff
<1>3. CASE HostTime \/ Tick \/ WrTunes
  BY <1>3 DEF HostTime, Tick, WrTunes, TcrAfter
<1>4. CASE UNCHANGED vars
  BY <1>4 DEF vars, boardVars
<1>5. QED
  BY <1>1, <1>2, <1>3, <1>4 DEF Next

\* Whoever changes the words another user relies on also marks that user.
LEMMA KnownStep == TypeOK /\ Known /\ [Next]_vars => Known'
<1> SUFFICES ASSUME TypeOK, Known, [Next]_vars PROVE Known'
  OBVIOUS
<1>1. ASSUME NEW p \in Procs, Get(p) PROVE Known'
  <2> SUFFICES ASSUME NEW q \in Procs
               PROVE  /\ (pc[q] = "got" /\ q \notin touched => t[q] = shown[q])'
                      /\ Getting(q)' /\ Setting(q)'
    BY DEF Known, GotOneTime
  <2> USE DEF Known, GotOneTime, Getting, Setting, TypeOK, Goto, AllTimes
  <2>1. CASE GetHigh(p)
    BY <2>1 DEF GetHigh, Capture, Touch
  <2>2. CASE GetLow(p)
    BY <2>2 DEF GetLow
  <2>3. CASE GetCoarse(p)
    <3>1. CASE q = p
      BY <2>3, <3>1 DEF GetCoarse
    <3>2. CASE q # p
      BY <2>3, <3>2 DEF GetCoarse
    <3>3. QED
      BY <3>1, <3>2
  <2>4. QED
    BY <1>1, <2>1, <2>2, <2>3 DEF Get
<1>2. ASSUME NEW p \in Procs, Set(p) PROVE Known'
  <2> SUFFICES ASSUME NEW q \in Procs
               PROVE  /\ (pc[q] = "got" /\ q \notin touched => t[q] = shown[q])'
                      /\ Getting(q)' /\ Setting(q)'
    BY DEF Known, GotOneTime
  <2> USE DEF Known, GotOneTime, Getting, Setting, TypeOK, Goto
  <2>1. CASE SetCoarse(p)
    <3>1. PICK time \in Times : t' = [t EXCEPT ![p] = time]
                                /\ attr' = [attr EXCEPT !.c = time.c]
      BY <2>1 DEF SetCoarse
    <3>2. attr'.c = time.c
      BY <3>1 DEF AllTimes
    <3>3. QED
      BY <2>1, <3>1, <3>2 DEF SetCoarse, Touch
  <2>2. CASE SetLow(p)
    <3>1. attr'.c = attr.c /\ attr'.l = t[p].l
      BY <2>2 DEF SetLow, AllTimes
    <3>2. QED
      BY <2>2, <3>1 DEF SetLow
  <2>3. CASE SetHigh(p)
    <3>1. attr'.c = attr.c /\ attr'.l = attr.l
      BY <2>3 DEF SetHigh, AllTimes
    <3>2. QED
      BY <2>3, <3>1 DEF SetHigh
  <2>4. QED
    BY <1>2, <2>1, <2>2, <2>3 DEF Set
<1>3. ASSUME NEW p \in Procs, Return(p) PROVE Known'
  BY <1>3 DEF Return, Known, GotOneTime, Getting, Setting, TypeOK, Goto
<1>4. CASE HostTime \/ WrOn \/ WrOff \/ WrTunes \/ Tick
  BY <1>4 DEF HostTime, WrOn, WrOff, WrTunes, Tick, Known, GotOneTime, Getting, Setting
<1>5. CASE UNCHANGED vars
  BY <1>5 DEF vars, Known, GotOneTime, Getting, Setting
<1>6. QED
  BY <1>1, <1>2, <1>3, <1>4, <1>5 DEF Next

\* The invariant holds in every state of every behaviour.
LEMMA AlwaysIInv == Spec => []IInv
<1>1. IInv <=> TypeOK /\ WrModeInForce /\ Known
  BY DEF IInv, Known
<1>2. IInv /\ [Next]_vars => IInv'
  <2>1. IInv' <=> TypeOK' /\ WrModeInForce' /\ Known'
    BY DEF IInv, Known
  <2>2. QED
    BY <1>1, <2>1, TypeStep, WrStep, KnownStep
<1>3. QED
  BY <1>2, InitIInv, PTL DEF Spec

\* Every variable keeps its type.
THEOREM ClockTyped == Spec => []TypeOK
<1>1. IInv => TypeOK
  BY DEF IInv
<1>2. QED
  BY <1>1, AlwaysIInv, PTL

\* FD_FLAG_WR_MODE always tells what TCR holds.
THEOREM WrModeHolds == Spec => []WrModeInForce
<1>1. IInv => WrModeInForce
  BY DEF IInv
<1>2. QED
  BY <1>1, AlwaysIInv, PTL

\* fdelay_get_time() gives one time of the clock to a user who was alone in using
\* the attributes, whatever the other users did before and the clock does meanwhile.
THEOREM GetTimeAlone == Spec => []GotOneTime
<1>1. IInv => GotOneTime
  BY DEF IInv
<1>2. QED
  BY <1>1, AlwaysIInv, PTL

\* A step that ends fdelay_set_time() of such a user programs the time asked for.
LEMMA SetStep ==
  IInv /\ [Next]_vars =>
    \A p \in Procs : pc[p] = "set-h" /\ pc'[p] = "set" /\ p \notin touched => clock' = t[p]
<1> SUFFICES ASSUME IInv, [Next]_vars, NEW p \in Procs,
                    pc[p] = "set-h", pc'[p] = "set", p \notin touched
             PROVE  clock' = t[p]
  OBVIOUS
<1> USE DEF IInv, TypeOK, Goto
<1>1. PICK q \in Procs : Get(q) \/ Set(q) \/ Return(q)
  BY DEF Next, HostTime, WrOn, WrOff, WrTunes, Tick, vars
<1>2. q = p
  BY <1>1 DEF Get, Set, Return, GetHigh, GetLow, GetCoarse, SetCoarse, SetLow, SetHigh
<1>3. SetHigh(p)
  BY <1>1, <1>2 DEF Get, Set, Return, GetHigh, GetLow, GetCoarse, SetCoarse, SetLow
<1>4. attr.c = t[p].c /\ attr.l = t[p].l
  BY DEF Setting
<1>5. clock' = [attr EXCEPT !.h = t[p].h]
  BY <1>3 DEF SetHigh, Program
<1>6. QED
  BY <1>4, <1>5 DEF AllTimes

\* fdelay_set_time() programs the time its caller gave, whole, under that condition.
THEOREM SetTimeAlone == Spec => SetOneTime
<1>1. IInv /\ [Next]_vars =>
        [\A p \in Procs : pc[p] = "set-h" /\ pc'[p] = "set" /\ p \notin touched
                            => clock' = t[p]]_vars
  BY SetStep
<1>2. QED
  BY <1>1, AlwaysIInv, PTL DEF Spec, SetOneTime
============================================================================
