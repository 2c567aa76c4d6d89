--------------------------- MODULE DcsCallsProofs ---------------------------
(***************************************************************************)
(* Theorems about the ROC calls, for any number of callers, any size of    *)
(* the ring and any number of calls and faults.                            *)
(***************************************************************************)
EXTENDS DcsCallsInv, RingIndexProofs, SequenceTheorems

LEMMA Ring ==
  /\ NumBuffs \in Nat /\ NumBuffs >= 1 /\ NumBuffs >= 2
  /\ 1 \in 0 .. NumBuffs /\ 1 \in 0 .. NumBuffs - 1
  /\ 0 \in Idx(NumBuffs) /\ NumBuffs - 1 \in Idx(NumBuffs)
  /\ MaxCalls \in Nat /\ MaxFaults \in Nat /\ MaxHeld \in Nat
BY DcsAssumption DEF Idx

LEMMA Singleton ==
  ASSUME NEW x
  PROVE  Append(<<>>, x) = <<x>> /\ Head(<<x>>) = x /\ Tail(<<x>>) = <<>> /\ <<x>> # <<>>
OBVIOUS

LEMMA Plans3 ==
  ASSUME NEW c
  PROVE  /\ Head(Plan1(c)) = Access("read", "ext", None)
         /\ Head(Plan2(c)) = Access("write", "strobe", c)
         /\ Head(Plan3(c)) = Access("write", "block", c)
         /\ Len(Plan1(c)) = 1 /\ Len(Plan2(c)) = 2 /\ Len(Plan3(c)) = 3
         /\ Tail(Plan2(c)) = Plan1(c) /\ Tail(Plan3(c)) = Plan2(c)
BY DEF Plan1, Plan2, Plan3

LEMMA AppendTwo ==
  ASSUME NEW a, NEW b, NEW x
  PROVE  Append(<<a, b>>, x) = <<a, b, x>>
<1> DEFINE S == {a, b, x}
           p == Append(<<a, b>>, x)
           q == <<a, b, x>>
<1>1. <<a, b>> \in Seq(S) /\ q \in Seq(S) /\ Len(q) = 3
  OBVIOUS
<1>2. p \in Seq(S) /\ Len(p) = 3
  BY <1>1
<1>3. \A k \in 1 .. 3 : p[k] = q[k]
  BY <1>1
<1>4. p = q
  <2> HIDE DEF p, q, S
  <2> QED BY <1>1, <1>2, <1>3, SeqEqual
<1> QED BY <1>4

LEMMA PlanIs ==
  ASSUME NEW c
  PROVE  ReadExt(c) = Plan3(c)
<1> DEFINE a == Access("write", "block", c)
           b == Access("write", "strobe", c)
           x == Access("read", "ext", None)
<1>1. Append(<<a, b>>, x) = <<a, b, x>>
  <2> HIDE DEF a, b, x
  <2> QED BY AppendTwo
<1> QED BY <1>1 DEF Plan3, ReadExt, Select

LEMMA Singles ==
  ASSUME NEW c, NEW t \in Single(c)
  PROVE Len(t) = 1 /\ drains(Head(t)) /\ Head(t).at \in {"A", "B"}
BY DEF Single, Access, drains, Replied

LEMMA NextIdx ==
  ASSUME NEW i \in Idx(NumBuffs), NEW k \in 0 .. NumBuffs
  PROVE  add(i, k) \in Idx(NumBuffs)
BY Ring, AddOnRing DEF add

LEMMA DriverType ==
  ASSUME TypeOK
  PROVE  /\ hwIdx \in Idx(NumBuffs) /\ swIdx \in Idx(NumBuffs)
         /\ driver \in [hw : Idx(NumBuffs), sw : Idx(NumBuffs)]
         /\ driver.hw = hwIdx /\ driver.sw = swIdx
BY DEF TypeOK, driver

LEMMA DeltaType ==
  ASSUME NEW i \in [hw : Idx(NumBuffs), sw : Idx(NumBuffs)]
  PROVE  delta(i) \in 0 .. NumBuffs - 1 /\ (delta(i) = 0 <=> i.hw = i.sw)
BY Ring, PlacesRange DEF delta

LEMMA AddDelta ==
  ASSUME NEW i \in Idx(NumBuffs), NEW j \in Idx(NumBuffs)
  PROVE  add(i, delta_C2S(NumBuffs, j, i)) = j
<1>1. delta_C2S(NumBuffs, j, i) \in 0 .. NumBuffs
  BY Ring, PlacesRange
<1> QED BY <1>1, Ring, AddForward DEF add, delta_C2S, Idx

(* The two ends of a turn of release_all: something is given back, or the  *)
(* ring is empty.                                                          *)
LEMMA DrainGives ==
  ASSUME TypeOK, NEW c \in Callers, Drain(c), delta(driver) > 0
  PROVE  /\ swIdx' = hwIdx /\ owed' = owed - delta(driver) /\ hwIdx' = hwIdx
         /\ dev' = [dev EXCEPT ![c] = [hw |-> hwIdx, sw |-> hwIdx]]
         /\ pc' = pc /\ exposed' = exposed /\ DOMAIN buf' = Idx(NumBuffs)
<1>1. add(swIdx, delta(driver)) = hwIdx /\ driver = [hw |-> hwIdx, sw |-> swIdx]
  BY DriverType, AddDelta DEF delta, driver
<1>2. [driver EXCEPT !.sw = add(@, delta(driver))] = [hw |-> hwIdx, sw |-> hwIdx]
  BY <1>1
<1>3. GiveBack(c, driver, delta(driver)) /\ pc' = pc /\ exposed' = exposed /\ hwIdx' = hwIdx
  BY DEF Drain, info
<1>4. /\ swIdx' = add(swIdx, delta(driver)) /\ owed' = owed - delta(driver)
      /\ dev' = [dev EXCEPT ![c] = [driver EXCEPT !.sw = add(@, delta(driver))]]
  BY <1>3 DEF GiveBack
<1>5. DOMAIN buf' = Idx(NumBuffs)
  BY <1>3 DEF GiveBack
<1> QED BY <1>1, <1>2, <1>3, <1>4, <1>5

LEMMA DrainEnds ==
  ASSUME TypeOK, NEW c \in Callers, Drain(c), ~(delta(driver) > 0)
  PROVE  /\ hwIdx = swIdx /\ dev' = [dev EXCEPT ![c] = driver]
         /\ pc' = [pc EXCEPT ![c] = "send"]
         /\ exposed' = [exposed EXCEPT ![c] = @ \/ asked # <<>>]
         /\ UNCHANGED <<swIdx, buf, owed, hwIdx, asked>>
<1>1. delta(driver) = 0 /\ hwIdx = swIdx
  BY DriverType, DeltaType
<1> QED BY <1>1 DEF Drain, info, Go, cardVars

-----------------------------------------------------------------------------
LEMMA InitType == Init => TypeOK
<1> SUFFICES ASSUME Init PROVE TypeOK
  OBVIOUS
<1>1. hwIdx \in Idx(NumBuffs) /\ swIdx \in Idx(NumBuffs)
  BY Ring DEF Init
<1>2. driver \in [hw : Idx(NumBuffs), sw : Idx(NumBuffs)] /\ dev = [c \in Callers |-> driver]
  BY <1>1 DEF driver, Init
<1>3. dev \in [Callers -> [hw : Idx(NumBuffs), sw : Idx(NumBuffs)]]
  BY <1>2
<1>4. /\ drv = None /\ lib \in [Callers -> BOOLEAN]
      /\ pc \in [Callers -> {"idle", "begin", "drain", "send", "receive", "check", "throw", "end"}]
      /\ onHand \in [Callers -> BOOLEAN] /\ owed = 0
  BY DEF Init
<1>5. /\ cur \in [Callers -> Idx(NumBuffs)] /\ pos \in [Callers -> 0 .. 3]
      /\ mine \in [Callers -> 0 .. MaxCalls] /\ calls \in 0 .. MaxCalls
      /\ faults \in 0 .. MaxFaults
  BY Ring DEF Init
<1>6. /\ exposed \in [Callers -> BOOLEAN] /\ overlap \in BOOLEAN
      /\ disturbed \in [Callers -> BOOLEAN] /\ unsent \in [Callers -> BOOLEAN]
  BY DEF Init
<1> QED BY <1>1, <1>3, <1>4, <1>5, <1>6 DEF TypeOK

\* The steps of a caller but those in which it stops to wait for the lock.
TimesOut(c) == StartTimesOut(c) \/ NextTimesOut(c)
Acts(c) == Start(c) \/ (Step(c) /\ ~NextTimesOut(c)) \/ Die(c)

\* The parts every step of one caller touches alike.
LEMMA ForgetType ==
  ASSUME TypeOK, NEW c \in Callers, Forget(c)
  PROVE  /\ cur' \in [Callers -> Idx(NumBuffs)] /\ pos' \in [Callers -> 0 .. 3]
         /\ mine' \in [Callers -> 0 .. MaxCalls] /\ exposed' \in [Callers -> BOOLEAN]
         /\ disturbed' \in [Callers -> BOOLEAN] /\ overlap' \in BOOLEAN
BY Ring DEF TypeOK, Forget

LEMMA EnterType ==
  ASSUME TypeOK, NEW c \in Callers, NEW a, enter(c, a)
  PROVE  /\ drv' \in Callers \cup {None} /\ lib' \in [Callers -> BOOLEAN]
         /\ {hwIdx', swIdx'} \subseteq Idx(NumBuffs)
         /\ dev' \in [Callers -> [hw : Idx(NumBuffs), sw : Idx(NumBuffs)]]
         /\ pc' \in [Callers -> {"idle", "begin", "drain", "send", "receive", "check", "throw", "end"}]
         /\ onHand' \in [Callers -> BOOLEAN] /\ cur' \in [Callers -> Idx(NumBuffs)]
         /\ pos' \in [Callers -> 0 .. 3]
         /\ faults' \in 0 .. MaxFaults /\ owed' \in Int
         /\ exposed' \in [Callers -> BOOLEAN] /\ overlap' \in BOOLEAN
         /\ disturbed' \in [Callers -> BOOLEAN] /\ unsent' \in [Callers -> BOOLEAN]
BY DEF TypeOK, enter, Go, ringVars, readVars

LEMMA DieType ==
  ASSUME TypeOK, NEW c \in Callers, die(c), faults' \in 0 .. MaxFaults
  PROVE  TypeOK'
BY DriverType, ForgetType DEF die, TypeOK, Leave, Go, ringVars

LEMMA StepType ==
  ASSUME TypeOK, IInv, NEW c \in Callers, Acts(c)
  PROVE  TypeOK'
<1>d. driver \in [hw : Idx(NumBuffs), sw : Idx(NumBuffs)] /\ swIdx \in Idx(NumBuffs)
  BY DriverType
<1>1. CASE Start(c)
  BY <1>1, EnterType, Ring DEF Start, TypeOK
<1>2. CASE NextAccess(c)
  BY <1>2, EnterType DEF NextAccess, TypeOK
<1>3. CASE End(c)
  BY <1>3, ForgetType DEF End, TypeOK, unlock, Go, ringVars, countVars
<1>4. CASE Throw(c)
  BY <1>4, ForgetType DEF Throw, TypeOK, unlock, unlockOnThrow, Leave, Go, ringVars, countVars
<1>5. CASE Drain(c)
  <2>1. /\ swIdx' \in Idx(NumBuffs) /\ owed' \in Int
        /\ dev' \in [Callers -> [hw : Idx(NumBuffs), sw : Idx(NumBuffs)]]
        /\ pc' = pc \/ pc' = [pc EXCEPT ![c] = "send"]
        /\ exposed' \in [Callers -> BOOLEAN]
    <3>t. /\ dev \in [Callers -> [hw : Idx(NumBuffs), sw : Idx(NumBuffs)]] /\ owed \in Int
          /\ exposed \in [Callers -> BOOLEAN] /\ delta(driver) \in Int /\ hwIdx \in Idx(NumBuffs)
      BY <1>d, DeltaType, Ring DEF TypeOK
    <3>1. CASE delta(driver) > 0
      <4>1. /\ swIdx' = hwIdx /\ owed' = owed - delta(driver)
            /\ dev' = [dev EXCEPT ![c] = [hw |-> hwIdx, sw |-> hwIdx]]
            /\ pc' = pc /\ exposed' = exposed
        BY <1>5, <3>1, DrainGives
      <4>2. dev' \in [Callers -> [hw : Idx(NumBuffs), sw : Idx(NumBuffs)]]
        BY <4>1, <3>t
      <4> QED BY <4>1, <4>2, <3>t
    <3>2. CASE ~(delta(driver) > 0)
      <4>1. /\ swIdx' = swIdx /\ owed' = owed /\ dev' = [dev EXCEPT ![c] = driver]
            /\ pc' = [pc EXCEPT ![c] = "send"]
            /\ exposed' = [exposed EXCEPT ![c] = @ \/ asked # <<>>]
        BY <1>5, <3>2, DrainEnds
      <4>2. dev' \in [Callers -> [hw : Idx(NumBuffs), sw : Idx(NumBuffs)]]
        BY <4>1, <3>t, <1>d
      <4>3. exposed' \in [Callers -> BOOLEAN]
        BY <4>1, <3>t
      <4> QED BY <4>1, <4>2, <4>3, <3>t, <1>d
    <3> QED BY <3>1, <3>2
  <2> QED BY <1>5, <2>1 DEF Drain, TypeOK, lockVars, countVars
<1>6. CASE Send(c)
  BY <1>6 DEF Send, TypeOK, Go, ringVars, lockVars, readVars, countVars
<1>7. CASE SendFails(c)
  BY <1>7, ForgetType, Ring DEF SendFails, TypeOK, Leave, Go, ringVars, lockVars
<1>8. CASE Receive(c)
  <2>1. ASSUME onHand[c] PROVE UNCHANGED <<onHand, cur, dev>> /\ pos' \in [Callers -> 0 .. 3]
    <3>1. PICK p \in behind(pos[c]) : pos' = [pos EXCEPT ![c] = p]
      BY <1>8, <2>1 DEF Receive
    <3>2. pos[c] \in 1 .. 2
      BY <1>8, <2>1 DEF Receive, IInv, ReadInv
    <3>3. p \in 0 .. 3
      BY <3>1, <3>2 DEF behind
    <3> QED BY <1>8, <2>1, <3>1, <3>3 DEF Receive, TypeOK
  <2>2. ASSUME ~onHand[c]
        PROVE  /\ pos' \in [Callers -> 0 .. 3] /\ cur' \in [Callers -> Idx(NumBuffs)]
               /\ onHand' \in [Callers -> BOOLEAN]
               /\ dev' \in [Callers -> [hw : Idx(NumBuffs), sw : Idx(NumBuffs)]]
    <3>1. PICK held \in 0 .. MaxHeld :
            /\ delta(seen(c, held)) > held
            /\ dev' = [dev EXCEPT ![c] = seen(c, held)] /\ onHand' = [onHand EXCEPT ![c] = TRUE]
            /\ cur' = [cur EXCEPT ![c] = add(seen(c, held).sw, held + 1)]
            /\ pos' = [pos EXCEPT ![c] = 1]
      BY <1>8, <2>2 DEF Receive
    <3>2. seen(c, held) \in [hw : Idx(NumBuffs), sw : Idx(NumBuffs)]
      BY <1>d DEF seen, TypeOK
    <3>3. held + 1 \in 0 .. NumBuffs
      BY <3>1, <3>2, DeltaType, Ring
    <3>4. add(seen(c, held).sw, held + 1) \in Idx(NumBuffs)
      BY <3>2, <3>3, NextIdx
    <3>5. dev' \in [Callers -> [hw : Idx(NumBuffs), sw : Idx(NumBuffs)]]
      BY <3>1, <3>2 DEF TypeOK
    <3>6. onHand' \in [Callers -> BOOLEAN] /\ pos' \in [Callers -> 0 .. 3]
      BY <3>1 DEF TypeOK
    <3> QED BY <3>1, <3>4, <3>5, <3>6 DEF TypeOK
  <2>3. /\ pos' \in [Callers -> 0 .. 3] /\ cur' \in [Callers -> Idx(NumBuffs)]
        /\ onHand' \in [Callers -> BOOLEAN]
        /\ dev' \in [Callers -> [hw : Idx(NumBuffs), sw : Idx(NumBuffs)]]
    BY <2>1, <2>2 DEF TypeOK
  <2> QED BY <1>8, <2>3 DEF Receive, TypeOK, Go, ringVars, lockVars, countVars, history
<1>9. CASE GiveUp(c)
  BY <1>9, <1>d DEF GiveUp, TypeOK, Go, ringVars, lockVars, readVars, countVars, history
<1>10. CASE Invalid(c)
  <2>1. add(swIdx, 1) \in Idx(NumBuffs) /\ add(dev[c].sw, 1) \in Idx(NumBuffs)
    BY <1>d, NextIdx, Ring DEF TypeOK
  <2>2. /\ swIdx' \in Idx(NumBuffs) /\ owed' \in Int
        /\ dev' \in [Callers -> [hw : Idx(NumBuffs), sw : Idx(NumBuffs)]]
    <3>t. /\ dev \in [Callers -> [hw : Idx(NumBuffs), sw : Idx(NumBuffs)]] /\ owed \in Int
          /\ dev[c] \in [hw : Idx(NumBuffs), sw : Idx(NumBuffs)]
      BY DEF TypeOK
    <3>1. CASE delta(dev[c]) >= 1
      <4>1. /\ swIdx' = add(swIdx, 1) /\ owed' = owed - 1
            /\ dev' = [dev EXCEPT ![c] = [dev[c] EXCEPT !.sw = add(@, 1)]]
        BY <1>10, <3>1 DEF Invalid, GiveBack
      <4>2. [dev[c] EXCEPT !.sw = add(@, 1)] \in [hw : Idx(NumBuffs), sw : Idx(NumBuffs)]
        BY <2>1, <3>t
      <4>3. dev' \in [Callers -> [hw : Idx(NumBuffs), sw : Idx(NumBuffs)]]
        BY <4>1, <4>2, <3>t
      <4> QED BY <2>1, <3>t, <4>1, <4>3
    <3>2. CASE ~(delta(dev[c]) >= 1)
      <4>1. swIdx' = swIdx /\ owed' = owed /\ dev' = dev
        BY <1>10, <3>2 DEF Invalid
      <4> QED BY <1>d, <3>t, <4>1
    <3> QED BY <3>1, <3>2
  <2> QED BY <1>10, <2>2 DEF Invalid, TypeOK, Go, lockVars, readVars, countVars, history
<1>11. CASE Flagged(c)
  BY <1>11 DEF Flagged, TypeOK, Go, ringVars, lockVars, readVars, countVars, history
<1>12. CASE Mismatch(c)
  BY <1>12 DEF Mismatch, TypeOK, Go, ringVars, lockVars, readVars, countVars, history
<1>13. CASE Matched(c)
  BY <1>13 DEF Matched, TypeOK, Go, ringVars, lockVars, countVars, history
<1>14. CASE DiesOfAck(c) \/ DiesAstray(c)
  BY <1>14, DieType DEF DiesOfAck, DiesAstray, TypeOK
<1>15. CASE Die(c)
  <2>1. die(c) /\ faults' \in 0 .. MaxFaults
    BY <1>15, Ring DEF Die, TypeOK
  <2> QED BY <2>1, DieType
<1> QED BY <1>1, <1>2, <1>3, <1>4, <1>5, <1>6, <1>7, <1>8, <1>9, <1>10, <1>11, <1>12,
           <1>13, <1>14, <1>15 DEF Step, Acts

LEMMA AnswerType ==
  ASSUME TypeOK, Answer
  PROVE  TypeOK'
<1>1. add(hwIdx, 1) \in Idx(NumBuffs)
  BY DriverType, NextIdx, Ring
<1> QED BY <1>1, Ring DEF Answer, TypeOK, lockVars, readVars, history

LEMMA TimesOutType ==
  ASSUME TypeOK, NEW c \in Callers, TimesOut(c)
  PROVE  TypeOK'
<1>1. timesOut(c) /\ calls' \in 0 .. MaxCalls
  BY Ring DEF TimesOut, StartTimesOut, NextTimesOut, TypeOK
<1> QED BY <1>1, ForgetType DEF timesOut, TypeOK, Leave, Go, ringVars

LEMMA TypeStep == TypeOK /\ IInv /\ [Next]_vars => TypeOK'
<1> SUFFICES ASSUME TypeOK, IInv, [Next]_vars PROVE TypeOK'
  OBVIOUS
<1>1. CASE UNCHANGED vars
  BY <1>1 DEF TypeOK, vars, lockVars, ringVars, readVars, countVars, history
<1> QED BY <1>1, StepType, TimesOutType, AnswerType DEF Next, Acts, TimesOut

-----------------------------------------------------------------------------
(* What is a caller's own: nobody else's step changes it.                  *)
Private(d) == <<pc[d], todo[d], got[d], onHand[d], cur[d], pos[d], dev[d], mine[d]>>

LEMMA ForgetKeeps ==
  ASSUME TypeOK, DOMAIN got = Callers, NEW c \in Callers, Forget(c), NEW d \in Callers, d # c
  PROVE  UNCHANGED <<got[d], cur[d], pos[d], mine[d], exposed[d], disturbed[d]>>
BY DEF TypeOK, Forget

LEMMA EnterKeeps ==
  ASSUME TypeOK, NEW c \in Callers, NEW a, enter(c, a), NEW d \in Callers, d # c
  PROVE  UNCHANGED <<pc[d], got[d], onHand[d], cur[d], pos[d], dev[d], disturbed[d], unsent[d], lib[d]>>
BY DEF TypeOK, enter, Go, readVars

LEMMA Others ==
  ASSUME TypeOK, IInv, NEW c \in Callers, Acts(c), NEW d \in Callers, d # c
  PROVE  UNCHANGED Private(d) /\ lib'[d] = lib[d] /\ unsent'[d] = unsent[d]
<1> USE DEF Private
<1>d. DOMAIN todo = Callers /\ DOMAIN got = Callers
  BY DEF IInv
<1>1. CASE Start(c)
  BY <1>1, <1>d, EnterKeeps DEF Start, TypeOK
<1>2. CASE NextAccess(c)
  BY <1>2, <1>d, EnterKeeps DEF NextAccess
<1>3. CASE End(c)
  BY <1>3, <1>d, ForgetKeeps DEF End, TypeOK, unlock, Go
<1>4. CASE Throw(c)
  BY <1>4, <1>d, ForgetKeeps DEF Throw, TypeOK, unlock, unlockOnThrow, Leave, Go
<1>5. CASE Drain(c)
  <2>1. UNCHANGED <<pc[d], dev[d]>>
    <3>1. CASE delta(driver) > 0
      BY <1>5, <3>1, DrainGives DEF TypeOK
    <3>2. CASE ~(delta(driver) > 0)
      BY <1>5, <3>2, DrainEnds DEF TypeOK
    <3> QED BY <3>1, <3>2
  <2> QED BY <1>5, <2>1 DEF Drain, TypeOK, lockVars
<1>6. CASE Send(c)
  BY <1>6 DEF Send, TypeOK, Go, lockVars, readVars
<1>7. CASE SendFails(c)
  BY <1>7, <1>d, ForgetKeeps DEF SendFails, TypeOK, Leave, Go, lockVars
<1>8. CASE Receive(c)
  BY <1>8 DEF Receive, TypeOK, Go, lockVars, history
<1>9. CASE GiveUp(c)
  BY <1>9 DEF GiveUp, TypeOK, Go, lockVars, readVars, history
<1>10. CASE Invalid(c)
  <2>1. UNCHANGED dev[d]
    BY <1>10 DEF Invalid, GiveBack, TypeOK
  <2> QED BY <1>10, <2>1 DEF Invalid, TypeOK, Go, lockVars, readVars, history
<1>11. CASE Flagged(c)
  BY <1>11 DEF Flagged, TypeOK, Go, lockVars, readVars, history
<1>12. CASE Mismatch(c)
  BY <1>12 DEF Mismatch, TypeOK, Go, lockVars, readVars, history
<1>13. CASE Matched(c)
  BY <1>13, <1>d DEF Matched, TypeOK, Go, lockVars, history
<1>14. CASE die(c)
  BY <1>14, <1>d, ForgetKeeps DEF die, TypeOK, Leave, Go
<1>15. CASE DiesOfAck(c) \/ DiesAstray(c) \/ Die(c)
  BY <1>14, <1>15 DEF DiesOfAck, DiesAstray, Die
<1> QED BY <1>1, <1>2, <1>3, <1>4, <1>5, <1>6, <1>7, <1>8, <1>9, <1>10, <1>11, <1>12,
           <1>13, <1>15 DEF Step, Acts

LEMMA DomainStep ==
  ASSUME TypeOK, IInv, NEW c \in Callers, Acts(c)
  PROVE  /\ DOMAIN todo' = Callers /\ DOMAIN got' = Callers
         /\ DOMAIN buf' = Idx(NumBuffs) /\ DOMAIN roc' = {"block", "latch"}
<1>d. /\ DOMAIN todo = Callers /\ DOMAIN got = Callers
      /\ DOMAIN buf = Idx(NumBuffs) /\ DOMAIN roc = {"block", "latch"}
  BY DEF IInv
<1>1. CASE Start(c)
  BY <1>1, <1>d DEF Start, enter, ringVars, cardVars, readVars
<1>2. CASE NextAccess(c)
  BY <1>2, <1>d DEF NextAccess, enter, ringVars, cardVars, readVars
<1>3. CASE End(c)
  BY <1>3, <1>d DEF End, Forget, ringVars, cardVars
<1>4. CASE Throw(c)
  BY <1>4, <1>d DEF Throw, Leave, Forget, ringVars, cardVars
<1>5. CASE Drain(c)
  <2>1. DOMAIN buf' = Idx(NumBuffs)
    <3>1. CASE delta(driver) > 0
      BY <1>5, <3>1, DrainGives
    <3>2. CASE ~(delta(driver) > 0)
      BY <1>5, <3>2, <1>d, DrainEnds
    <3> QED BY <3>1, <3>2
  <2> QED BY <1>5, <1>d, <2>1 DEF Drain, cardVars
<1>6. CASE Send(c)
  <2>1. DOMAIN roc' = {"block", "latch"}
    BY <1>6, <1>d DEF Send, written
  <2> QED BY <1>6, <1>d, <2>1 DEF Send, ringVars, readVars
<1>7. CASE SendFails(c)
  BY <1>7, <1>d DEF SendFails, Leave, Forget, ringVars, cardVars
<1>8. CASE Receive(c)
  BY <1>8, <1>d DEF Receive, ringVars, cardVars
<1>9. CASE GiveUp(c)
  BY <1>9, <1>d DEF GiveUp, ringVars, cardVars, readVars
<1>10. CASE Invalid(c)
  <2>1. DOMAIN buf' = Idx(NumBuffs)
    BY <1>10, <1>d DEF Invalid, GiveBack
  <2> QED BY <1>10, <1>d, <2>1 DEF Invalid, cardVars, readVars
<1>11. CASE Flagged(c)
  BY <1>11, <1>d DEF Flagged, ringVars, cardVars, readVars
<1>12. CASE Mismatch(c)
  BY <1>12, <1>d DEF Mismatch, ringVars, cardVars, readVars
<1>13. CASE Matched(c)
  BY <1>13, <1>d DEF Matched, ringVars, cardVars
<1>14. CASE DiesOfAck(c) \/ DiesAstray(c) \/ Die(c)
  BY <1>14, <1>d DEF DiesOfAck, DiesAstray, Die, die, Leave, Forget, ringVars, cardVars
<1> QED BY <1>1, <1>2, <1>3, <1>4, <1>5, <1>6, <1>7, <1>8, <1>9, <1>10, <1>11, <1>12,
           <1>13, <1>14 DEF Step, Acts

LEMMA LockStep ==
  ASSUME TypeOK, IInv, NEW c \in Callers, Acts(c)
  PROVE  LockGivenUp'
<1>1. lib'[c] /\ ~Inside(c)' => unsent'[c]
  <2>1. CASE Start(c) \/ NextAccess(c)
    BY <2>1 DEF Start, NextAccess, enter, Go, TypeOK, Inside
  <2>2. CASE End(c) \/ Throw(c)
    BY <2>2 DEF End, Throw, unlock, unlockOnThrow, TypeOK
  <2>3. CASE Drain(c)
    <3>1. pc'[c] \in {"drain", "send"}
      BY <2>3 DEF Drain, Go, TypeOK, GiveBack
    <3> QED BY <3>1 DEF Inside
  <2>4. CASE Send(c) \/ Receive(c) \/ GiveUp(c) \/ Invalid(c) \/ Flagged(c) \/ Mismatch(c)
             \/ Matched(c)
    <3>1. pc'[c] \in {"send", "receive", "check", "throw", "end"}
      BY <2>4 DEF Send, Receive, GiveUp, Invalid, Flagged, Mismatch, Matched, Go, TypeOK
    <3> QED BY <3>1 DEF Inside
  <2>5. CASE SendFails(c)
    BY <2>5 DEF SendFails, TypeOK
  <2>6. CASE DiesOfAck(c) \/ DiesAstray(c) \/ Die(c)
    BY <2>6 DEF DiesOfAck, DiesAstray, Die, die, TypeOK
  <2> QED BY <2>1, <2>2, <2>3, <2>4, <2>5, <2>6 DEF Acts, Step
<1>2. \A d \in Callers : d # c => (lib'[d] /\ ~Inside(d)' => unsent'[d])
  BY Others DEF IInv, LockGivenUp, Inside, Private
<1> QED BY <1>1, <1>2 DEF LockGivenUp

-----------------------------------------------------------------------------
(* Extended registers are selected step by step (SelectInv).               *)
LEMMA PlanCases ==
  ASSUME NEW c, NEW t \in Plans(c)
  PROVE  /\ t \in Single(c) \/ t = Plan1(c) \/ t = Plan2(c) \/ t = Plan3(c)
         /\ t \in Single(c) => t # Plan1(c) /\ t # Plan2(c) /\ t # Plan3(c)
         /\ Plan1(c) # Plan2(c) /\ Plan1(c) # Plan3(c) /\ Plan2(c) # Plan3(c)
         /\ Len(t) > 1 <=> t = Plan2(c) \/ t = Plan3(c)
         /\ Head(t).at = "ext" => t = Plan1(c)
         /\ drains(Head(t)) => t # Plan2(c) /\ t # Plan3(c)
<1>1. t \in Single(c) \/ t = Plan1(c) \/ t = Plan2(c) \/ t = Plan3(c)
  BY DEF Plans
<1>2. Head(Plan1(c)).at = "ext" /\ Head(Plan2(c)).at = "strobe" /\ Head(Plan3(c)).at = "block"
  BY Plans3 DEF Access
<1>3. ~drains(Head(Plan2(c))) /\ ~drains(Head(Plan3(c)))
  BY Plans3 DEF Access, drains, Replied
<1> QED BY <1>1, <1>2, <1>3, Plans3, Singles

LEMMA Undisturbed ==
  ASSUME TypeOK, IInv, NEW c \in Callers, Acts(c), NEW d \in Callers, d # c,
         pc[d] # "idle", ~disturbed'[d]
  PROVE  ~disturbed[d] /\ roc' = roc
<1>d. DOMAIN got = Callers
  BY DEF IInv
<1>1. CASE Start(c) \/ NextAccess(c)
  BY <1>1 DEF Start, NextAccess, enter, cardVars
<1>2. CASE End(c) \/ Throw(c) \/ SendFails(c)
  BY <1>2, <1>d, ForgetKeeps DEF End, Throw, SendFails, cardVars
<1>3. CASE Drain(c)
  BY <1>3 DEF Drain, cardVars
<1>4. CASE Send(c)
  BY <1>4 DEF Send, TypeOK
<1>5. CASE Receive(c) \/ GiveUp(c) \/ Invalid(c) \/ Flagged(c) \/ Mismatch(c) \/ Matched(c)
  BY <1>5 DEF Receive, GiveUp, Invalid, Flagged, Mismatch, Matched, cardVars, history
<1>6. CASE DiesOfAck(c) \/ DiesAstray(c) \/ Die(c)
  BY <1>6, <1>d, ForgetKeeps DEF DiesOfAck, DiesAstray, Die, die, cardVars
<1> QED BY <1>1, <1>2, <1>3, <1>4, <1>5, <1>6 DEF Acts, Step

\* What the steps of a caller do to where it is.
LEMMA Enters ==
  ASSUME TypeOK, NEW c \in Callers, NEW a, enter(c, a)
  PROVE  /\ pc'[c] = IF drains(a) THEN "drain" ELSE "send"
         /\ UNCHANGED <<roc, got, disturbed, asked, hwIdx, swIdx, owed, dev, buf>>
BY DEF TypeOK, enter, Go, ringVars, cardVars, readVars

LEMMA Leaves ==
  ASSUME TypeOK, NEW c \in Callers, Throw(c) \/ SendFails(c) \/ DiesOfAck(c) \/ DiesAstray(c) \/ Die(c)
  PROVE  pc'[c] = "idle" /\ UNCHANGED <<roc, asked, hwIdx, swIdx, owed, buf>> /\ Forget(c)
<1>1. CASE Throw(c)
  BY <1>1 DEF TypeOK, Throw, Leave, Go, ringVars, cardVars
<1>2. CASE SendFails(c)
  BY <1>2 DEF TypeOK, SendFails, Leave, Go, ringVars, cardVars
<1>3. CASE DiesOfAck(c) \/ DiesAstray(c) \/ Die(c)
  <2>1. die(c)
    BY <1>3 DEF DiesOfAck, DiesAstray, Die
  <2> QED BY <2>1 DEF TypeOK, die, Leave, Go, ringVars, cardVars
<1> QED BY <1>1, <1>2, <1>3

LEMMA Waits ==
  ASSUME TypeOK, NEW c \in Callers,
         Receive(c) \/ GiveUp(c) \/ Invalid(c) \/ Flagged(c) \/ Mismatch(c) \/ Matched(c)
  PROVE  /\ pc[c] \in {"receive", "check"} /\ pc'[c] \in {"receive", "check", "throw", "end"}
         /\ UNCHANGED <<todo, roc, asked, mine, exposed, overlap, disturbed, hwIdx>>
BY DEF TypeOK, Receive, GiveUp, Invalid, Flagged, Mismatch, Matched, Go, cardVars, history, ringVars

LEMMA SelectStep ==
  ASSUME TypeOK, IInv, NEW c \in Callers, Acts(c)
  PROVE  \A d \in Callers : SelectInv(d)'
<1>d. DOMAIN todo = Callers /\ DOMAIN roc = {"block", "latch"}
  BY DEF IInv
<1>i. SelectInv(c) /\ ReadInv(c)
  BY DEF IInv
<1> DEFINE sel == /\ todo'[c] = Plan2(c) \/ (todo'[c] = Plan3(c) /\ pc'[c] = "end") => roc'.block = c
                  /\ todo'[c] = Plan1(c) \/ (todo'[c] = Plan2(c) /\ pc'[c] = "end") => roc'.latch = <<c, c>>
<1>1. SelectInv(c)'
  <2> SUFFICES ASSUME pc'[c] # "idle"
               PROVE  todo'[c] \in Plans(c) /\ (~disturbed'[c] => sel)
    BY DEF SelectInv, Plan1, Plan2, Plan3, Plans, Single, Access
  <2>1. CASE Start(c)
    <3>1. \E a : enter(c, a) /\ (todo'[c] \in Single(c) \/ todo'[c] = Plan3(c))
      BY <2>1, <1>d, PlanIs DEF Start
    <3>2. todo'[c] \in Plans(c) /\ todo'[c] # Plan1(c) /\ todo'[c] # Plan2(c)
      BY <3>1, PlanCases DEF Plans
    <3>3. pc'[c] # "end"
      BY <3>1, Enters
    <3> QED BY <3>2, <3>3
  <2>2. CASE NextAccess(c)
    <3>1. \E a : enter(c, a) /\ todo' = todo /\ pc[c] = "begin"
      BY <2>2 DEF NextAccess
    <3>2. pc'[c] # "end" /\ roc' = roc /\ disturbed' = disturbed
      BY <3>1, Enters
    <3> QED BY <3>1, <3>2, <1>i DEF SelectInv
  <2>3. CASE End(c)
    <3>1. /\ pc[c] = "end" /\ Len(todo[c]) > 1 /\ todo'[c] = Tail(todo[c])
          /\ pc'[c] = "begin" /\ roc' = roc
      BY <2>3, <1>d DEF End, Go, TypeOK, cardVars
    <3>2. disturbed'[c] = disturbed[c]
      BY <2>3, <3>1 DEF End, Forget, TypeOK
    <3>3. todo[c] \in Plans(c)
      BY <3>1, <1>i DEF SelectInv
    <3>4. CASE todo[c] = Plan2(c)
      <4>1. todo'[c] = Plan1(c)
        BY <3>1, <3>4, Plans3
      <4> QED BY <4>1, <3>1, <3>2, <3>3, <3>4, <1>i, PlanCases DEF SelectInv, Plans
    <3>5. CASE todo[c] = Plan3(c)
      <4>1. todo'[c] = Plan2(c)
        BY <3>1, <3>5, Plans3
      <4>2. ~disturbed[c] => roc.block = c
        BY <3>1, <3>5, <1>i DEF SelectInv
      <4>3. Plan2(c) # Plan1(c)
        BY <3>3, PlanCases
      <4> QED BY <4>1, <4>2, <4>3, <3>1, <3>2 DEF Plans
    <3> QED BY <3>1, <3>3, <3>4, <3>5, PlanCases
  <2>4. CASE Throw(c) \/ SendFails(c) \/ DiesOfAck(c) \/ DiesAstray(c) \/ Die(c)
    BY <2>4, Leaves
  <2>5. CASE Drain(c)
    <3>1. /\ pc[c] = "drain" /\ pc'[c] \in {"drain", "send"}
          /\ UNCHANGED <<todo, roc, disturbed>>
      BY <2>5 DEF Drain, Go, GiveBack, TypeOK, cardVars
    <3> QED BY <3>1, <1>i DEF SelectInv
  <2>6. CASE Send(c)
    <3>1. /\ pc[c] = "send" /\ todo' = todo /\ roc' = written(Head(todo[c]))
          /\ pc'[c] = IF drains(Head(todo[c])) THEN "receive" ELSE "end"
          /\ disturbed'[c] = disturbed[c]
      BY <2>6 DEF Send, Go, TypeOK, drains
    <3>2. todo[c] \in Plans(c)
      BY <3>1, <1>i DEF SelectInv
    <3>3. CASE todo[c] \in Single(c)
      BY <3>1, <3>2, <3>3, PlanCases
    <3>4. CASE todo[c] = Plan1(c)
      <4>1. roc' = roc
        BY <3>1, <3>4, Plans3 DEF written, Access
      <4> QED BY <4>1, <3>1, <3>2, <3>4, <1>i, PlanCases DEF SelectInv
    <3>5. CASE todo[c] = Plan2(c)
      <4>1. roc' = [roc EXCEPT !.latch = <<roc.block, c>>]
        <5>1. Head(todo[c]).at = "strobe" /\ Head(todo[c]).data = c
          BY <3>5, Plans3 DEF Access
        <5> QED BY <3>1, <5>1 DEF written
      <4>2. roc'.block = roc.block /\ roc'.latch = <<roc.block, c>>
        BY <4>1, <1>d
      <4> QED BY <4>2, <3>1, <3>2, <3>5, <1>i, PlanCases DEF SelectInv
    <3>6. CASE todo[c] = Plan3(c)
      <4>1. roc' = [roc EXCEPT !.block = c]
        <5>1. Head(todo[c]).at = "block" /\ Head(todo[c]).data = c
          BY <3>6, Plans3 DEF Access
        <5> QED BY <3>1, <5>1 DEF written
      <4>2. roc'.block = c
        BY <4>1, <1>d
      <4> QED BY <4>2, <3>1, <3>2, <3>6, PlanCases
    <3> QED BY <3>2, <3>3, <3>4, <3>5, <3>6, PlanCases
  <2>7. CASE Receive(c) \/ GiveUp(c) \/ Invalid(c) \/ Flagged(c) \/ Mismatch(c) \/ Matched(c)
    <3>1. /\ pc[c] \in {"receive", "check"} /\ UNCHANGED <<todo, roc, disturbed>>
      BY <2>7, Waits
    <3>2. todo[c] \in Plans(c) /\ todo[c] # Plan2(c) /\ todo[c] # Plan3(c)
      BY <3>1, <1>i, PlanCases DEF SelectInv, ReadInv
    <3> QED BY <3>1, <3>2, <1>i DEF SelectInv
  <2> QED BY <2>1, <2>2, <2>3, <2>4, <2>5, <2>6, <2>7 DEF Acts, Step
<1>2. ASSUME NEW d \in Callers, d # c PROVE SelectInv(d)'
  <2>1. SelectInv(d) /\ pc'[d] = pc[d] /\ todo'[d] = todo[d]
    BY <1>2, Others DEF IInv, Private
  <2>2. pc[d] # "idle" /\ ~disturbed'[d] => ~disturbed[d] /\ roc' = roc
    BY <1>2, Undisturbed
  <2> QED BY <2>1, <2>2 DEF SelectInv, Plan1, Plan2, Plan3, Plans, Single, Access
<1> QED BY <1>1, <1>2

-----------------------------------------------------------------------------
(* Reading on in a buffer (ReadInv).                                       *)
LEMMA PacketIs ==
  ASSUME NEW c, pos[c] \in 1 .. 3, Packet(c) # NoReply
  PROVE  pos[c] \in 1 .. 2 /\ (pos[c] = 2 => Packet(c) = Leftover)
BY DEF Packet

LEMMA ReadStep ==
  ASSUME TypeOK, IInv, NEW c \in Callers, Acts(c)
  PROVE  \A d \in Callers : ReadInv(d)'
<1>d. DOMAIN todo = Callers /\ DOMAIN got = Callers
  BY DEF IInv
<1>i. ReadInv(c)
  BY DEF IInv
<1> USE DEF Drained
<1>1. ReadInv(c)'
  <2>1. CASE Start(c) \/ NextAccess(c)
    <3>1. enter(c, Head(todo'[c])) /\ pc[c] # "end"
      BY <2>1, <1>d DEF Start, NextAccess
    <3> QED BY <3>1, <1>i, Enters DEF ReadInv
  <2>2. CASE End(c)
    <3>1. pc'[c] \in {"begin", "idle"} /\ got'[c] = NoReply
      BY <2>2, <1>d DEF End, Go, Forget, TypeOK
    <3> QED BY <3>1 DEF ReadInv
  <2>3. CASE Throw(c) \/ SendFails(c) \/ DiesOfAck(c) \/ DiesAstray(c) \/ Die(c)
    <3>1. pc'[c] = "idle" /\ got'[c] = NoReply
      BY <2>3, <1>d, Leaves DEF Forget
    <3> QED BY <3>1 DEF ReadInv
  <2>4. CASE Drain(c)
    <3>1. pc[c] = "drain" /\ pc'[c] \in {"drain", "send"} /\ got' = got /\ ~onHand'[c]
      BY <2>4 DEF Drain, Go, GiveBack, TypeOK
    <3> QED BY <3>1, <1>i DEF ReadInv
  <2>5. CASE Send(c)
    <3>1. /\ pc[c] = "send" /\ todo' = todo /\ got' = got /\ onHand' = onHand
          /\ pc'[c] = IF drains(Head(todo[c])) THEN "receive" ELSE "end"
      BY <2>5 DEF Send, Go, TypeOK, drains, readVars
    <3>2. got'[c] = NoReply
      BY <3>1, <1>i DEF ReadInv
    <3>3. drains(Head(todo[c])) => ~onHand'[c]
      BY <3>1, <1>i DEF ReadInv
    <3>4. Head(todo[c]).kind = "pair" => drains(Head(todo[c]))
      BY DEF drains, Replied
    <3> QED BY <3>1, <3>2, <3>3, <3>4 DEF ReadInv
  <2>6. CASE Receive(c)
    <3>1. /\ pc[c] = "receive" /\ pc'[c] = "check" /\ todo' = todo /\ got' = got
      BY <2>6 DEF Receive, Go, TypeOK
    <3>2. pos'[c] \in 1 .. 3
      <4>1. CASE onHand[c]
        <5>1. pos[c] \in 1 .. 2
          BY <3>1, <4>1, <1>i DEF ReadInv
        <5> QED BY <2>6, <4>1, <5>1 DEF Receive, TypeOK, behind
      <4>2. CASE ~onHand[c]
        BY <2>6, <4>2 DEF Receive, TypeOK
      <4> QED BY <4>1, <4>2
    <3> QED BY <3>1, <3>2, <1>i DEF ReadInv
  <2>7. CASE GiveUp(c)
    <3>1. pc[c] = "receive" /\ pc'[c] \in {"throw", "end"} /\ got' = got
      BY <2>7 DEF GiveUp, Go, TypeOK, readVars
    <3> QED BY <3>1, <1>i DEF ReadInv
  <2>8. CASE Invalid(c) \/ Flagged(c)
    <3>1. pc[c] = "check" /\ pc'[c] = "throw" /\ got' = got
      BY <2>8 DEF Invalid, Flagged, Go, TypeOK, readVars
    <3> QED BY <3>1, <1>i DEF ReadInv
  <2>9. CASE Mismatch(c)
    <3>1. /\ pc[c] = "check" /\ pc'[c] \in {"throw", "receive"} /\ got' = got /\ todo' = todo
          /\ pos' = pos /\ Packet(c) # NoReply
      BY <2>9 DEF Mismatch, Go, TypeOK, readVars
    <3>2. pos[c] \in 1 .. 2
      BY <3>1, <1>i, PacketIs DEF ReadInv
    <3> QED BY <3>1, <3>2, <1>i DEF ReadInv
  <2>10. CASE Matched(c)
    <3>1. /\ pc[c] = "check" /\ pc'[c] = "end" /\ todo' = todo /\ got'[c] = Packet(c)
          /\ Packet(c) # NoReply /\ TRUE \in Matches(c)
      BY <2>10, <1>d DEF Matched, Go, TypeOK
    <3>2. pos[c] \in 1 .. 2 /\ (pos[c] = 2 => Packet(c) = Leftover)
      BY <3>1, <1>i, PacketIs DEF ReadInv
    <3>3. Head(todo[c]).kind = "pair" => pos[c] # 1
      BY <3>1 DEF Matches
    <3> QED BY <3>1, <3>2, <3>3 DEF ReadInv
  <2> QED BY <2>1, <2>2, <2>3, <2>4, <2>5, <2>6, <2>7, <2>8, <2>9, <2>10 DEF Acts, Step
<1>2. ASSUME NEW d \in Callers, d # c PROVE ReadInv(d)'
  BY <1>2, Others DEF IInv, Private, ReadInv
<1> QED BY <1>1, <1>2

-----------------------------------------------------------------------------
(* One at most is inside, and its indices are right (OneInside).           *)
\* To step within the channel a caller is inside, or gets in.
LEMMA ActsInside ==
  ASSUME NEW c \in Callers, Acts(c)
  PROVE  Inside(c) \/ Start(c) \/ NextAccess(c)
BY DEF Acts, Step, Inside, End, Throw, Drain, Send, SendFails, Receive, GiveUp, Invalid,
       Flagged, Mismatch, Matched, DiesOfAck, DiesAstray, Die

LEMMA OverlapStays ==
  ASSUME NEW c \in Callers, Acts(c), overlap
  PROVE  overlap'
BY DEF Acts, Step, Start, NextAccess, enter, End, Throw, Drain, Send, SendFails, Receive, GiveUp,
       Invalid, Flagged, Mismatch, Matched, DiesOfAck, DiesAstray, Die, die, Forget, history

\* Who gets in where another is inside is noticed.
LEMMA EntersAlone ==
  ASSUME TypeOK, NEW c \in Callers, NEW a, enter(c, a)
  PROVE  /\ ~overlap' => \A d \in Callers : Inside(d) => d = c
         /\ ~exposed'[c] => \A d \in Callers : Inside(d) => d = c
         /\ \A d \in Callers : d # c /\ Inside(d) => exposed'[d]
         /\ \A d \in Callers : d # c /\ ~exposed'[d] => ~exposed[d]
BY DEF TypeOK, enter

LEMMA DriverDelta ==
  ASSUME TypeOK
  PROVE  /\ delta(driver) = delta_C2S(NumBuffs, hwIdx, swIdx)
         /\ delta(driver) \in 0 .. NumBuffs - 1 /\ (delta(driver) = 0 <=> hwIdx = swIdx)
         /\ \A c \in Callers : delta(dev[c]) \in 0 .. NumBuffs - 1
<1>1. \A c \in Callers : dev[c] \in [hw : Idx(NumBuffs), sw : Idx(NumBuffs)]
  BY DEF TypeOK
<1>2. driver \in [hw : Idx(NumBuffs), sw : Idx(NumBuffs)] /\ driver.hw = hwIdx /\ driver.sw = swIdx
  BY DriverType
<1> QED BY <1>1, <1>2, DeltaType DEF delta

\* A step that leaves no two inside at once had no two inside before.
LEMMA OnlyOne ==
  ASSUME TypeOK, IInv, NEW c \in Callers, Acts(c), ~overlap'
  PROVE  /\ OneInside
         /\ \A d, e \in Callers : Inside(d)' /\ Inside(e)' => d = e
<1>1. OneInside
  BY OverlapStays DEF IInv
<1>2. \A d \in Callers : d # c => pc'[d] = pc[d]
  BY Others DEF Private
<1>3. CASE Inside(c)
  BY <1>1, <1>2, <1>3 DEF OneInside, Inside
<1>4. CASE Start(c) \/ NextAccess(c)
  <2>1. \A d \in Callers : Inside(d) => d = c
    BY <1>4, EntersAlone DEF Start, NextAccess
  <2> QED BY <1>1, <1>2, <1>4, <2>1 DEF Inside
<1> QED BY <1>3, <1>4, ActsInside

LEMMA InsideStep ==
  ASSUME TypeOK, IInv, TypeOK', NEW c \in Callers, Acts(c)
  PROVE  ~overlap' => OneInside'
<1> SUFFICES ASSUME ~overlap' PROVE OneInside'
  OBVIOUS
<1> DEFINE waits(d) == Drained(d) \/ pc[d] \in {"receive", "check"}
           dl == delta_C2S(NumBuffs, hwIdx, swIdx)
<1>i. OneInside
  BY OnlyOne
<1>t. /\ hwIdx \in Idx(NumBuffs) /\ swIdx \in Idx(NumBuffs) /\ owed = dl
      /\ dl \in 0 .. NumBuffs - 1 /\ (dl = 0 <=> hwIdx = swIdx)
      /\ delta(dev[c]) \in 0 .. NumBuffs - 1
  BY <1>i, DriverType, DriverDelta DEF OneInside
<1>u. delta(driver) = dl /\ delta(driver)' = dl'
  BY DriverDelta DEF delta, driver
<1>w. waits(c) => dev[c].sw = swIdx /\ delta(dev[c]) <= dl
  BY <1>i, <1>u DEF OneInside
<1> DEFINE goal == dl' = owed' /\ (waits(c)' => dev'[c].sw = swIdx' /\ delta(dev[c])' <= dl')
<1>1. ASSUME Start(c) \/ NextAccess(c) PROVE goal
  <2>1. enter(c, Head(todo'[c]))
    BY <1>1 DEF Start, NextAccess, IInv
  <2>2. ~waits(c)' /\ UNCHANGED <<hwIdx, swIdx, owed>>
    BY <2>1, Enters DEF Drained
  <2> QED BY <2>2, <1>t
<1>2. ASSUME End(c) PROVE goal
  <2>1. ~waits(c)' /\ UNCHANGED <<hwIdx, swIdx, owed>>
    BY <1>2 DEF End, Go, TypeOK, ringVars, Drained
  <2> QED BY <2>1, <1>t
<1>3. ASSUME Throw(c) \/ SendFails(c) \/ DiesOfAck(c) \/ DiesAstray(c) \/ Die(c) PROVE goal
  <2>1. ~waits(c)' /\ UNCHANGED <<hwIdx, swIdx, owed>>
    BY <1>3, Leaves DEF Drained
  <2> QED BY <2>1, <1>t
<1>4. ASSUME Drain(c) /\ delta(driver) > 0 PROVE goal
  <2>1. swIdx' = hwIdx /\ hwIdx' = hwIdx /\ owed' = owed - dl /\ pc' = pc /\ pc[c] = "drain"
    BY <1>4, <1>u, DrainGives DEF Drain
  <2>2. dl' = 0
    BY <2>1, <1>t DEF delta_C2S, Idx
  <2> QED BY <2>1, <2>2, <1>t DEF Drained
<1>5. ASSUME Drain(c) /\ ~(delta(driver) > 0) PROVE goal
  <2>1. UNCHANGED <<hwIdx, swIdx, owed>> /\ dev'[c] = driver
    BY <1>5, DrainEnds DEF TypeOK
  <2> QED BY <2>1, <1>t, <1>u DEF delta, driver
<1>6. ASSUME Send(c) PROVE goal
  <2>1. /\ UNCHANGED <<hwIdx, swIdx, owed, dev>> /\ pc[c] = "send" /\ todo' = todo
        /\ pc'[c] = IF drains(Head(todo[c])) THEN "receive" ELSE "end"
    BY <1>6 DEF Send, Go, TypeOK, ringVars, drains
  <2>2. waits(c)' => waits(c)
    BY <2>1 DEF Drained
  <2> QED BY <2>1, <2>2, <1>t, <1>w DEF delta
<1>7. ASSUME Receive(c) PROVE goal
  <2>1. UNCHANGED <<hwIdx, swIdx, owed>> /\ pc[c] = "receive"
    BY <1>7 DEF Receive, ringVars
  <2>2. dev'[c] = dev[c] \/ dev'[c] = driver
    <3>1. CASE onHand[c]
      BY <1>7, <3>1 DEF Receive
    <3>2. CASE ~onHand[c]
      BY <1>7, <3>2 DEF Receive, TypeOK, seen
    <3> QED BY <3>1, <3>2
  <2> QED BY <2>1, <2>2, <1>t, <1>w DEF delta, driver
<1>8. ASSUME GiveUp(c) \/ Flagged(c) \/ Matched(c) PROVE goal
  <2>1. ~waits(c)' /\ UNCHANGED <<hwIdx, swIdx, owed>>
    BY <1>8 DEF GiveUp, Flagged, Matched, Go, TypeOK, ringVars, Drained
  <2> QED BY <2>1, <1>t
<1>9. ASSUME Mismatch(c) PROVE goal
  <2>1. UNCHANGED <<hwIdx, swIdx, owed, dev>> /\ waits(c)
    BY <1>9 DEF Mismatch, ringVars
  <2> QED BY <2>1, <1>t, <1>w DEF delta
<1>10. ASSUME Invalid(c) PROVE goal
  <2>1. hwIdx' = hwIdx /\ ~waits(c)' /\ waits(c)
    BY <1>10 DEF Invalid, Go, TypeOK, Drained
  <2>2. CASE delta(dev[c]) >= 1
    <3>1. swIdx' = add(swIdx, 1) /\ owed' = owed - 1
      BY <1>10, <2>2 DEF Invalid, GiveBack
    <3>2. dl >= 1
      BY <1>t, <1>w, <2>1, <2>2
    <3>3. dl' = dl - 1
      BY <2>1, <3>1, <3>2, <1>t, Ring, PlacesAfterStep DEF add
    <3> QED BY <2>1, <3>1, <3>3, <1>t
  <2>3. CASE ~(delta(dev[c]) >= 1)
    <3>1. swIdx' = swIdx /\ owed' = owed
      BY <1>10, <2>3 DEF Invalid
    <3> QED BY <2>1, <3>1, <1>t
  <2> QED BY <2>2, <2>3
<1>11. goal
  BY <1>1, <1>2, <1>3, <1>4, <1>5, <1>6, <1>7, <1>8, <1>9, <1>10 DEF Acts, Step
<1>12. ASSUME NEW d \in Callers, d # c PROVE ~waits(d)'
  <2>1. pc'[d] = pc[d]
    BY <1>12, Others DEF Private
  <2>2. CASE Start(c) \/ NextAccess(c)
    <3>1. ~Inside(d)
      BY <1>12, <2>2, EntersAlone DEF Start, NextAccess
    <3> QED BY <2>1, <3>1 DEF Inside, Drained
  <2>3. CASE Inside(c)
    <3>1. ~Inside(d)
      BY <1>12, <2>3, <1>i DEF OneInside
    <3> QED BY <2>1, <3>1 DEF Inside, Drained
  <2> QED BY <2>2, <2>3, ActsInside
<1> QED BY <1>11, <1>12, <1>u, OnlyOne DEF OneInside

-----------------------------------------------------------------------------
(* A call that is alone gets its own reply (AloneInv).                     *)
LEMMA ExposedStays ==
  ASSUME TypeOK, IInv, NEW c \in Callers, Acts(c), NEW d \in Callers, d # c, ~exposed'[d]
  PROVE  ~exposed[d]
<1>d. DOMAIN got = Callers
  BY DEF IInv
<1>1. CASE Start(c) \/ NextAccess(c)
  BY <1>1, EntersAlone DEF Start, NextAccess
<1>2. CASE End(c) \/ Throw(c) \/ SendFails(c) \/ DiesOfAck(c) \/ DiesAstray(c) \/ Die(c)
  <2>1. Forget(c)
    BY <1>2, Leaves DEF End
  <2> QED BY <2>1, <1>d, ForgetKeeps
<1>3. CASE Drain(c)
  <2>1. exposed' = exposed \/ exposed' = [exposed EXCEPT ![c] = @ \/ asked # <<>>]
    BY <1>3, DrainGives, DrainEnds
  <2> QED BY <2>1 DEF TypeOK
<1>4. CASE Send(c)
  BY <1>4 DEF Send
<1>5. CASE Receive(c) \/ GiveUp(c) \/ Invalid(c) \/ Flagged(c) \/ Mismatch(c) \/ Matched(c)
  BY <1>5, Waits
<1> QED BY <1>1, <1>2, <1>3, <1>4, <1>5 DEF Acts, Step

\* The request is for the access the call makes now, and the read of an extended
\* register comes when that has been selected.
LEMMA RequestIsOwn ==
  ASSUME IInv, NEW c \in Callers, pc[c] = "send"
  PROVE  Own(c, request(c, Head(todo[c])))
<1>1. todo[c] \in Plans(c) /\ SelectInv(c)
  BY DEF IInv, SelectInv
<1>2. Head(todo[c]).at = "ext" /\ ~disturbed[c] => roc.latch = <<c, c>>
  BY <1>1, PlanCases DEF SelectInv
<1> QED BY <1>2 DEF Own, request

LEMMA AloneOwn ==
  ASSUME TypeOK, IInv, NEW c \in Callers, Acts(c), Inside(c)', ~exposed'[c]
  PROVE  AloneInv(c)'
<1> DEFINE none == \A d \in Callers : Inside(d) => d = c
<1>d. DOMAIN todo = Callers /\ DOMAIN got = Callers
  BY DEF IInv
<1>r. ReadInv(c)
  BY DEF IInv
<1>i. Inside(c) /\ ~exposed[c] => AloneInv(c)
  BY DEF IInv
<1>o. none => none'
  <2>1. \A d \in Callers : d # c => pc'[d] = pc[d]
    BY Others DEF Private
  <2> QED BY <2>1 DEF Inside
<1>t. /\ hwIdx \in Idx(NumBuffs) /\ swIdx \in Idx(NumBuffs)
      /\ driver = [hw |-> hwIdx, sw |-> swIdx] /\ (delta(driver) = 0 <=> hwIdx = swIdx)
  BY DriverType, DriverDelta DEF driver
<1>1. ASSUME Start(c) \/ NextAccess(c) PROVE AloneInv(c)'
  <2>1. enter(c, Head(todo'[c]))
    BY <1>1, <1>d DEF Start, NextAccess
  <2>2. none'
    BY <2>1, EntersAlone, <1>o
  <2>3. ~Drained(c)' /\ pc'[c] \in {"drain", "send"}
    BY <2>1, Enters DEF Drained
  <2> QED BY <2>2, <2>3 DEF AloneInv
<1>2. ASSUME End(c) PROVE FALSE
  BY <1>2 DEF End, Go, TypeOK, Inside
<1>3. ASSUME Throw(c) \/ SendFails(c) \/ DiesOfAck(c) \/ DiesAstray(c) \/ Die(c) PROVE FALSE
  BY <1>3, Leaves DEF Inside
<1>4. ASSUME Drain(c), delta(driver) > 0 PROVE AloneInv(c)'
  <2>1. pc' = pc /\ pc[c] = "drain" /\ exposed' = exposed
    BY <1>4, DrainGives DEF Drain
  <2>2. none'
    BY <2>1, <1>i, <1>o DEF AloneInv, Inside
  <2> QED BY <2>1, <2>2 DEF AloneInv, Drained
<1>5. ASSUME Drain(c), ~(delta(driver) > 0) PROVE AloneInv(c)'
  <2>1. /\ hwIdx = swIdx /\ dev'[c] = driver /\ pc[c] = "drain" /\ pc'[c] = "send"
        /\ UNCHANGED <<swIdx, hwIdx, asked>>
    <3>1. /\ hwIdx = swIdx /\ dev' = [dev EXCEPT ![c] = driver]
          /\ pc' = [pc EXCEPT ![c] = "send"] /\ UNCHANGED <<swIdx, hwIdx, asked>>
      BY <1>5, DrainEnds
    <3>2. pc[c] = "drain" /\ c \in DOMAIN dev /\ c \in DOMAIN pc
      BY <1>5 DEF Drain, TypeOK
    <3> QED BY <3>1, <3>2
  <2>4. ~exposed[c] /\ asked = <<>>
    <3>1. exposed' = [exposed EXCEPT ![c] = @ \/ asked # <<>>] /\ exposed \in [Callers -> BOOLEAN]
      BY <1>5, DrainEnds DEF TypeOK
    <3>2. exposed'[c] = (exposed[c] \/ asked # <<>>)
      BY <3>1
    <3> QED BY <3>2
  <2>2. none'
    BY <2>1, <2>4, <1>i, <1>o DEF AloneInv, Inside
  <2>3. driver' = driver
    BY <2>1 DEF driver
  <2> QED BY <2>1, <2>2, <2>3, <2>4 DEF AloneInv
<1>6. ASSUME Send(c) PROVE AloneInv(c)'
  <2> DEFINE a == Head(todo[c])
             q == request(c, a)
  <2>1. /\ pc[c] = "send" /\ UNCHANGED <<todo, got, onHand, exposed, mine, hwIdx, swIdx, dev>>
        /\ pc'[c] = (IF drains(a) THEN "receive" ELSE "end")
        /\ disturbed'[c] = disturbed[c]
        /\ drains(a) => asked' = Append(asked, q)
    BY <1>6 DEF Send, Go, TypeOK, drains, readVars, ringVars
  <2>2. AloneInv(c) /\ got'[c] = NoReply
    BY <2>1, <1>i, <1>r DEF Inside, ReadInv
  <2>3. none'
    BY <2>2, <1>o DEF AloneInv
  <2>4. CASE drains(a)
    <3>1. asked' = <<q>> /\ asked' = <<Head(asked')>> /\ Head(asked') = q
      BY <2>1, <2>2, <2>4, Singleton DEF AloneInv, Drained
    <3>2. Own(c, q) /\ (Own(c, q) => Own(c, Head(asked))')
      BY <2>1, <3>1, RequestIsOwn DEF Own
    <3>3. ~onHand'[c] /\ hwIdx' = swIdx' /\ dev'[c] = [hw |-> swIdx', sw |-> swIdx']
      BY <2>1, <2>2, <2>4, <1>r, <1>t DEF AloneInv, Drained, ReadInv
    <3> QED BY <2>1, <2>3, <2>4, <3>1, <3>2, <3>3 DEF AloneInv, Drained
  <2>5. CASE ~drains(a)
    BY <2>1, <2>2, <2>3, <2>5 DEF AloneInv, Drained
  <2> QED BY <2>4, <2>5
<1>7. ASSUME Receive(c) \/ GiveUp(c) \/ Invalid(c) \/ Flagged(c) \/ Mismatch(c) \/ Matched(c)
      PROVE  AloneInv(c)'
  <2>1. /\ pc[c] \in {"receive", "check"} /\ pc'[c] \in {"receive", "check", "throw", "end"}
        /\ UNCHANGED <<todo, asked, mine, exposed, disturbed, hwIdx>>
    BY <1>7, Waits
  <2>2. AloneInv(c)
    BY <2>1, <1>i DEF Inside
  <2>3. none' /\ ~Drained(c)'
    BY <2>1, <2>2, <1>o DEF AloneInv, Drained
  <2>s. ASSUME NEW x, Own(c, x) PROVE x.id = mine'[c] /\ x.at = Head(todo'[c]).at
                                     /\ (x.at = "ext" /\ ~disturbed'[c] => x.ext = <<c, c>>)
    BY <2>1, <2>s DEF Own
  <2> SUFFICES ASSUME Head(todo[c]).kind # "pair"
               PROVE  /\ pc'[c] # "receive"
                      /\ pc'[c] = "check" =>
                           asked' = <<>> /\ cur'[c] = hwIdx' /\ pos'[c] = 1 /\ Own(c, buf[hwIdx].reply)'
                      /\ pc'[c] = "end" /\ got'[c] # NoReply => Own(c, got[c])'
    BY <2>1, <2>3 DEF AloneInv
  <2>4. CASE Receive(c)
    <3>1. /\ pc[c] = "receive" /\ pc'[c] = "check" /\ UNCHANGED <<buf, hwIdx, swIdx>>
      BY <2>4 DEF Receive, Go, TypeOK, ringVars
    <3>2. ~onHand[c] /\ dev[c] = [hw |-> swIdx, sw |-> swIdx]
      BY <2>2, <3>1 DEF AloneInv
    <3>3. PICK held \in 0 .. MaxHeld :
            /\ delta(seen(c, held)) > held /\ cur' = [cur EXCEPT ![c] = add(seen(c, held).sw, held + 1)]
            /\ pos' = [pos EXCEPT ![c] = 1]
      BY <2>4, <3>2 DEF Receive
    <3>4. seen(c, held) = driver
      BY <3>2, <1>t, Ring, PlacesRange DEF seen, delta
    <3>5. delta(driver) > held /\ delta(driver) # 0
      BY <3>3, <3>4, DriverDelta, Ring
    <3>6. asked = <<>> /\ hwIdx = add(swIdx, 1) /\ Own(c, buf[hwIdx].reply)
      BY <2>2, <3>1, <3>5, <1>t DEF AloneInv
    <3>7. delta(driver) = 1
      BY <3>6, <1>t, Ring, PlacesRange, PlacesBeforeStep DEF add, delta
    <3>8. held = 0
      BY <3>5, <3>7
    <3>9. cur'[c] = hwIdx /\ pos'[c] = 1
      BY <3>3, <3>4, <3>6, <3>8, <1>t DEF TypeOK
    <3>10. Own(c, buf[hwIdx].reply)'
      BY <2>s, <3>1, <3>6 DEF Own
    <3> QED BY <2>1, <3>1, <3>6, <3>9, <3>10
  <2>5. CASE GiveUp(c)
    <3>1. pc[c] = "receive" /\ pc'[c] \in {"throw", "end"} /\ got' = got
      BY <2>5 DEF GiveUp, Go, TypeOK, readVars
    <3> QED BY <3>1, <1>r DEF ReadInv
  <2>6. CASE Invalid(c) \/ Flagged(c)
    <3>1. pc'[c] = "throw"
      BY <2>6 DEF Invalid, Flagged, Go, TypeOK
    <3> QED BY <3>1
  <2>7. CASE Mismatch(c) \/ Matched(c)
    <3>1. pc[c] = "check"
      BY <2>7 DEF Mismatch, Matched
    <3>2. cur[c] = hwIdx /\ pos[c] = 1 /\ Own(c, buf[hwIdx].reply)
      BY <2>2, <3>1 DEF AloneInv
    <3>3. Packet(c) = buf[hwIdx].reply /\ FALSE \notin Matches(c)
      BY <3>2 DEF Packet, Matches, Own
    <3>4. pc'[c] = "end" /\ got'[c] = Packet(c)
      BY <2>7, <3>3, <1>d DEF Mismatch, Matched, Go, TypeOK
    <3> QED BY <3>2, <3>3, <3>4, <2>s DEF Own
  <2> QED BY <1>7, <2>4, <2>5, <2>6, <2>7
<1> QED BY <1>1, <1>2, <1>3, <1>4, <1>5, <1>6, <1>7 DEF Acts, Step

LEMMA AloneStep ==
  ASSUME TypeOK, IInv, NEW c \in Callers, Acts(c)
  PROVE  \A d \in Callers : (Inside(d) /\ ~exposed[d] => AloneInv(d))'
<1> SUFFICES ASSUME NEW d \in Callers, d # c, Inside(d)', ~exposed'[d] PROVE FALSE
  BY AloneOwn
<1>1. Inside(d) /\ ~exposed[d]
  BY Others, ExposedStays DEF Private, Inside
<1>2. ~Inside(c)
  BY <1>1 DEF IInv, AloneInv
<1>3. CASE Start(c) \/ NextAccess(c)
  BY <1>1, <1>3, EntersAlone DEF Start, NextAccess
<1> QED BY <1>2, <1>3, ActsInside

-----------------------------------------------------------------------------
LEMMA CallerStep ==
  ASSUME TypeOK, IInv, TypeOK', NEW c \in Callers, Acts(c)
  PROVE  IInv'
BY DomainStep, LockStep, InsideStep, SelectStep, ReadStep, AloneStep DEF IInv

LEMMA AnswerStep ==
  ASSUME TypeOK, IInv, TypeOK', Answer
  PROVE  IInv'
<1> DEFINE a == Head(asked)
           dl == delta_C2S(NumBuffs, hwIdx, swIdx)
<1>k. UNCHANGED <<drv, lib, roc, swIdx, dev, pc, todo, onHand, cur, pos, got,
                  mine, exposed, overlap, disturbed, unsent>>
  BY DEF Answer, lockVars, readVars, history
<1>a. /\ asked # <<>> /\ asked' = Tail(asked) /\ hwIdx' = add(hwIdx, 1) /\ hwIdx' # swIdx
      /\ owed' = owed + 1
  BY DEF Answer
<1>t. /\ hwIdx \in Idx(NumBuffs) /\ swIdx \in Idx(NumBuffs) /\ hwIdx' \in Idx(NumBuffs)
      /\ \A c \in Callers : delta(dev[c]) \in 0 .. NumBuffs - 1
  BY DriverType, DriverDelta, <1>a, NextIdx, Ring
<1>b. /\ DOMAIN buf' = Idx(NumBuffs)
      /\ buf'[hwIdx'].reply.id = a.id /\ buf'[hwIdx'].reply.at = a.at
      /\ buf'[hwIdx'].reply.ext = a.ext
  <2>1. PICK flagged \in BOOLEAN :
          buf' = [buf EXCEPT ![hwIdx'] = [tail |-> a.long \/ @.tail,
                    reply |-> [id |-> a.id, at |-> a.at, flagged |-> flagged, ext |-> a.ext]]]
    BY DEF Answer
  <2>2. DOMAIN buf = Idx(NumBuffs)
    BY DEF IInv
  <2> QED BY <2>1, <2>2, <1>t
<1>1. LockGivenUp'
  BY <1>k DEF IInv, LockGivenUp, Inside
<1>2. ~overlap' => OneInside'
  <2> SUFFICES ASSUME ~overlap PROVE OneInside'
    BY <1>k
  <2>1. OneInside
    BY DEF IInv
  <2>2. delta(driver) = dl /\ delta(driver)' = dl'
    BY DriverDelta DEF delta, driver
  <2>3. dl' = dl + 1
    <3>1. dl' = IF dl = NumBuffs - 1 THEN 0 ELSE dl + 1
      BY <1>a, <1>k, <1>t, Ring, PlacesBeforeStep DEF add
    <3>2. dl' # 0
      BY <1>a, <1>k, <1>t, Ring, PlacesRange
    <3> QED BY <3>1, <3>2
  <2>4. dl \in 0 .. NumBuffs - 1
    BY <1>t, Ring, PlacesRange
  <2>5. \A c \in Callers : Drained(c)' \/ pc'[c] \in {"receive", "check"} =>
          dev'[c].sw = swIdx' /\ delta(dev[c])' <= dl'
    BY <1>k, <1>t, <2>1, <2>2, <2>3, <2>4 DEF OneInside, Drained, delta
  <2>6. \A c, d \in Callers : Inside(c)' /\ Inside(d)' => c = d
    BY <1>k, <2>1 DEF OneInside, Inside
  <2> QED BY <1>a, <2>1, <2>2, <2>3, <2>5, <2>6 DEF OneInside
<1>3. ASSUME NEW c \in Callers PROVE SelectInv(c)' /\ ReadInv(c)'
  BY <1>k DEF IInv, SelectInv, ReadInv, Drained, Plans, Plan1, Plan2, Plan3, Single, Access
<1>4. ASSUME NEW c \in Callers, Inside(c)', ~exposed'[c] PROVE AloneInv(c)'
  <2>1. AloneInv(c)
    BY <1>4, <1>k DEF IInv, Inside
  <2>2. \A d \in Callers : Inside(d)' => d = c
    BY <1>k, <2>1 DEF AloneInv, Inside
  <2>3. ~Drained(c)'
    BY <1>a, <1>k, <2>1 DEF AloneInv, Drained
  <2> SUFFICES ASSUME Head(todo[c]).kind # "pair"
               PROVE  /\ pc[c] = "receive" =>
                           /\ ~onHand[c] /\ dev[c] = [hw |-> swIdx, sw |-> swIdx]
                           /\ asked' = <<>> /\ hwIdx' = add(swIdx, 1) /\ Own(c, buf[hwIdx].reply)'
                      /\ pc[c] # "check"
                      /\ pc[c] = "end" /\ got[c] # NoReply => Own(c, got[c])'
    BY <1>k, <2>2, <2>3 DEF AloneInv
  <2>4. CASE pc[c] = "receive"
    <3>1. /\ ~onHand[c] /\ dev[c] = [hw |-> swIdx, sw |-> swIdx]
          /\ hwIdx = swIdx /\ asked = <<a>> /\ Own(c, a)
      BY <1>a, <2>1, <2>4 DEF AloneInv
    <3>2. asked' = <<>> /\ hwIdx' = add(swIdx, 1)
      BY <1>a, <3>1, Singleton
    <3>3. Own(c, buf[hwIdx].reply)'
      BY <1>k, <1>b, <3>1 DEF Own
    <3> QED BY <2>4, <3>1, <3>2, <3>3
  <2>5. CASE pc[c] # "receive"
    BY <1>a, <1>k, <2>1, <2>5 DEF AloneInv, Own
  <2> QED BY <2>4, <2>5
<1>5. DOMAIN todo' = Callers /\ DOMAIN got' = Callers /\ DOMAIN roc' = {"block", "latch"}
  BY <1>k DEF IInv
<1> QED BY <1>b, <1>1, <1>2, <1>3, <1>4, <1>5 DEF IInv

\* Who waited in vain was not inside, and touches the lock and itself alone.
LEMMA TimesOutStep ==
  ASSUME TypeOK, IInv, NEW c \in Callers, TimesOut(c)
  PROVE  IInv'
<1>d. DOMAIN todo = Callers /\ DOMAIN got = Callers
  BY DEF IInv
<1>1. /\ ~Inside(c) /\ pc' = [pc EXCEPT ![c] = "idle"] /\ todo' = [todo EXCEPT ![c] = <<>>]
      /\ Forget(c) /\ ~lib[c]
      /\ UNCHANGED <<lib, buf, hwIdx, swIdx, owed, asked, roc, dev, onHand, unsent>>
  BY DEF TimesOut, StartTimesOut, NextTimesOut, timesOut, Leave, Go, Inside, ringVars, cardVars
<1>2. pc'[c] = "idle" /\ got'[c] = NoReply /\ overlap' = overlap
  BY <1>1, <1>d DEF Forget, TypeOK
<1>3. ASSUME NEW d \in Callers, d # c
      PROVE  UNCHANGED <<pc[d], todo[d], got[d], cur[d], pos[d], mine[d], exposed[d], disturbed[d]>>
  BY <1>1, <1>3, <1>d, ForgetKeeps DEF TypeOK
<1>4. \A d \in Callers : Inside(d)' = Inside(d)
  BY <1>1, <1>2, <1>3 DEF Inside
<1>5. LockGivenUp'
  BY <1>1, <1>4 DEF IInv, LockGivenUp
<1>6. ~overlap' => OneInside'
  <2>1. \A d \in Callers : Drained(d)' \/ pc'[d] \in {"receive", "check"} =>
                             Drained(d) \/ pc[d] \in {"receive", "check"}
    BY <1>2, <1>3 DEF Drained
  <2> QED BY <1>1, <1>2, <1>4, <2>1 DEF IInv, OneInside, delta, driver
<1>7. SelectInv(c)' /\ ReadInv(c)'
  BY <1>2 DEF SelectInv, ReadInv, Drained
<1>8. ASSUME NEW d \in Callers, d # c
      PROVE  SelectInv(d)' /\ ReadInv(d)' /\ (AloneInv(d) => AloneInv(d)')
  <2>1. SelectInv(d)'
    BY <1>1, <1>3, <1>8 DEF IInv, SelectInv, Plans, Plan1, Plan2, Plan3, Single, Access
  <2>2. ReadInv(d)'
    BY <1>1, <1>3, <1>8 DEF IInv, ReadInv, Drained
  <2>3. AloneInv(d) => AloneInv(d)'
    BY <1>1, <1>3, <1>4, <1>8 DEF AloneInv, Drained, Own, driver
  <2> QED BY <2>1, <2>2, <2>3
<1>9. DOMAIN todo' = Callers /\ DOMAIN got' = Callers
  BY <1>1, <1>d DEF Forget
<1>10. ASSUME NEW d \in Callers, Inside(d)', ~exposed'[d] PROVE AloneInv(d)'
  <2>1. d # c /\ Inside(d) /\ ~exposed[d]
    BY <1>1, <1>3, <1>4, <1>10
  <2> QED BY <1>8, <2>1 DEF IInv
<1> QED BY <1>1, <1>5, <1>6, <1>7, <1>8, <1>9, <1>10 DEF IInv

LEMMA StutterStep ==
  ASSUME IInv, UNCHANGED vars
  PROVE  IInv'
<1>1. UNCHANGED <<drv, lib, asked, roc, buf, hwIdx, swIdx, dev, pc, todo, onHand, cur, pos,
                  got, mine, owed, exposed, overlap, disturbed, unsent>>
  BY DEF vars, lockVars, ringVars, cardVars, readVars, countVars, history
<1>2. ASSUME NEW c \in Callers
      PROVE  /\ SelectInv(c) => SelectInv(c)'
             /\ ReadInv(c) => ReadInv(c)'
             /\ AloneInv(c) => AloneInv(c)'
             /\ Inside(c)' = Inside(c)
  <2>1. SelectInv(c) => SelectInv(c)'
    BY <1>1 DEF SelectInv, Plans, Plan1, Plan2, Plan3, Single, Access
  <2>2. ReadInv(c) => ReadInv(c)'
    BY <1>1 DEF ReadInv, Drained
  <2>3. AloneInv(c) => AloneInv(c)'
    BY <1>1 DEF AloneInv, Drained, Own, Inside, driver
  <2> QED BY <1>1, <2>1, <2>2, <2>3 DEF Inside
<1>3. OneInside => OneInside'
  BY <1>1 DEF OneInside, Inside, Drained, delta, driver
<1>4. LockGivenUp'
  BY <1>1 DEF IInv, LockGivenUp, Inside
<1> QED BY <1>1, <1>2, <1>3, <1>4 DEF IInv

LEMMA InitInv == Init => IInv
<1> SUFFICES ASSUME Init PROVE IInv
  OBVIOUS
<1>1. /\ pc = [c \in Callers |-> "idle"] /\ todo = [c \in Callers |-> <<>>]
      /\ got = [c \in Callers |-> NoReply] /\ lib = [c \in Callers |-> FALSE]
      /\ hwIdx = swIdx /\ owed = 0 /\ swIdx \in Idx(NumBuffs)
      /\ DOMAIN buf = Idx(NumBuffs) /\ DOMAIN roc = {"block", "latch"}
  BY Ring DEF Init
<1>2. \A c \in Callers : pc[c] = "idle" /\ ~Inside(c) /\ got[c] = NoReply /\ ~lib[c]
  BY <1>1 DEF Inside
<1>3. delta(driver) = 0
  BY <1>1, Ring, PlacesRange DEF delta, driver
<1>4. OneInside
  BY <1>1, <1>2, <1>3 DEF OneInside, Drained
<1>5. \A c \in Callers : SelectInv(c) /\ ReadInv(c)
  BY <1>2 DEF SelectInv, ReadInv, Drained
<1> QED BY <1>1, <1>2, <1>4, <1>5 DEF IInv, LockGivenUp

(* Types, and the inductive invariant: what each caller knows of the ring, *)
(* of the card's answers and of the registers it selected (TypeOK, IInv).  *)
THEOREM Invariance == Spec => [](TypeOK /\ IInv)
<1>1. Init => TypeOK /\ IInv
  BY InitType, InitInv
<1>2. TypeOK /\ IInv /\ [Next]_vars => TypeOK' /\ IInv'
  <2> SUFFICES ASSUME TypeOK, IInv, [Next]_vars PROVE TypeOK' /\ IInv'
    OBVIOUS
  <2>1. TypeOK'
    BY TypeStep
  <2>2. CASE \E c \in Callers : Acts(c)
    BY <2>1, <2>2, CallerStep
  <2>3. CASE Answer
    BY <2>1, <2>3, AnswerStep
  <2>4. CASE UNCHANGED vars
    BY <2>1, <2>4, StutterStep
  <2>5. CASE \E c \in Callers : TimesOut(c)
    BY <2>1, <2>5, TimesOutStep
  <2> QED BY <2>2, <2>3, <2>4, <2>5 DEF Next, Acts, TimesOut
<1> QED BY <1>1, <1>2, PTL DEF Spec

-----------------------------------------------------------------------------
(* However a call ends, end_dcs_transaction has been called for it, unless *)
(* its request could not be sent (LockGivenUp).                            *)
THEOREM GivesUp == Spec => []LockGivenUp
<1>1. IInv => LockGivenUp
  BY DEF IInv
<1> QED BY <1>1, Invariance, PTL

(* The driver's indices of the DCS ring say how many replies wait in it,   *)
(* whatever caches read_release went by, as long as the lock kept callers  *)
(* apart (RingCounts).                                                     *)
THEOREM Counted == Spec => []RingCounts
<1>1. IInv => RingCounts
  BY DEF IInv, RingCounts, OneInside
<1> QED BY <1>1, Invariance, PTL

(* A call that nobody came in on finds its own reply at the first look, so *)
(* that reading on behind a reply comes of an earlier request's answer or  *)
(* of ReadROCRegisters (ReadsOnAstray).                                    *)
THEOREM FirstLook == Spec => []ReadsOnAstray
<1>1. ASSUME IInv, NEW c \in Callers, pc[c] = "check", ~exposed[c],
             Head(todo[c]).kind # "pair"
      PROVE  pos[c] = 1
  BY <1>1 DEF IInv, AloneInv, Inside
<1>2. IInv => ReadsOnAstray
  BY <1>1 DEF ReadsOnAstray
<1> QED BY <1>2, Invariance, PTL

LEMMA NotPairNorGone ==
  ASSUME IInv, NEW c \in Callers, pc[c] = "end", got[c] # NoReply, ~exposed[c],
         Head(todo[c]).kind # "pair"
  PROVE  Own(c, got[c])
BY DEF IInv, Inside, AloneInv

(* The read of a register or a block returns the reply to its own request  *)
(* (OwnReply): ReleaseAllBuffers at its start is enough, but against late  *)
(* replies still to come.                                                  *)
THEOREM Replies == Spec => []OwnReply
<1>1. IInv => OwnReply
  BY NotPairNorGone DEF OwnReply, Own
<1> QED BY <1>1, Invariance, PTL

(* ReadExtROCRegister reads the register it selected, if nobody else wrote *)
(* the registers it selects by (ExtReadsSelected).                         *)
THEOREM Selected == Spec => []ExtReadsSelected
<1>1. ASSUME IInv PROVE ExtReadsSelected
  <2> SUFFICES ASSUME NEW c \in Callers, pc[c] = "end", got[c].at = "ext",
                      ~exposed[c], ~disturbed[c]
               PROVE  got[c].ext = <<c, c>>
    BY DEF ExtReadsSelected
  <2>1. got[c] # NoReply /\ got[c] # Leftover
    BY DEF NoReply, Leftover, None
  <2>2. Head(todo[c]).kind # "pair"
    BY <1>1, <2>1 DEF IInv, ReadInv
  <2> QED BY <1>1, <2>1, <2>2, NotPairNorGone DEF Own
<1> QED BY <1>1, Invariance, PTL
=============================================================================
