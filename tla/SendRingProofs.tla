--------------------------- MODULE SendRingProofs ---------------------------
(***************************************************************************)
(* Theorems about the send path of a channel, for rings of any size, any   *)
(* number of packets and of writers' deaths, and for one writer            *)
(* (SendRing's run SendStale refutes them for two).                        *)
(***************************************************************************)
EXTENDS SendRingInv, RingIndexProofs

Steps == {"idle", "getinfo", "copy", "xmit", "mark", "go", "swidx", "account"}

LEMMA Ring ==
  /\ NumBuffs \in Nat /\ NumBuffs >= 1 /\ NumBuffs >= 2
  /\ 1 \in 0 .. NumBuffs /\ 1 \in 0 .. NumBuffs - 1
  /\ 0 \in Idx(NumBuffs)
BY SendConstants DEF Idx

LEMMA NextIdx ==
  ASSUME NEW i \in Idx(NumBuffs) PROVE add(i, 1) \in Idx(NumBuffs)
BY Ring, AddOnRing DEF add

LEMMA Places ==
  ASSUME TypeOK, NEW i \in Idx(NumBuffs)
  PROVE  toGo(i) \in 0 .. NumBuffs - 1 /\ (toGo(i) = 0 <=> i = swNext)
<1>1. swNext \in Idx(NumBuffs)
  BY DEF TypeOK
<1> QED BY <1>1, Ring, PlacesRange DEF toGo

LEMMA SamePlace ==
  ASSUME TypeOK, NEW i \in Idx(NumBuffs), NEW j \in Idx(NumBuffs), toGo(i) = toGo(j)
  PROVE  i = j
<1>1. swNext \in Idx(NumBuffs)
  BY DEF TypeOK
<1> QED BY <1>1, Ring, PlacesInjective DEF toGo

LEMMA Counts ==
  ASSUME TypeOK
  PROVE  Len(sent) \in Nat /\ Len(accepted) \in Nat /\ hwNext \in Idx(NumBuffs)
         /\ swNext \in Idx(NumBuffs) /\ hwIdx \in Idx(NumBuffs) /\ swIdx \in Idx(NumBuffs)
<1>1. sent \in Seq([data : Nat, len : Nat]) /\ accepted \in Seq(Nat)
  BY DEF TypeOK
<1>2. Len(accepted) \in Nat
  BY <1>1
<1> DEFINE P == [data : Nat, len : Nat]
<1>3. Len(sent) \in Nat
  <2>1. sent \in Seq(P)
    BY <1>1
  <2> HIDE DEF P
  <2> QED BY <2>1
<1> QED BY <1>2, <1>3 DEF TypeOK

-----------------------------------------------------------------------------
(* The walk over the Complete flags that starts from hwIdx finds them up   *)
(* to HW_NEXT, and there one that is down, or the end of the ring's        *)
(* content.                                                                *)
LEMMA WalkEnds ==
  ASSUME TypeOK, IInv
  PROVE  walked(swNext) = hwNext
<1> DEFINE goesOn(k) == complete[add(hwIdx, k)] /\ add(hwIdx, k) # swNext
           n == toGo(hwIdx) - toGo(hwNext)
           ends(k) == ~goesOn(k) /\ \A j \in 0 .. (k - 1) : goesOn(j)
<1>t. /\ hwNext \in Idx(NumBuffs) /\ hwIdx \in Idx(NumBuffs)
      /\ swNext \in Idx(NumBuffs)
  BY Counts
<1>1. /\ toGo(hwNext) \in 0 .. NumBuffs - 1 /\ toGo(hwIdx) \in 0 .. NumBuffs - 1
      /\ toGo(hwNext) <= toGo(hwIdx)
  BY <1>t, Places DEF IInv, DrvInv
<1>2. n \in 0 .. NumBuffs - 1 /\ n \in Idx(NumBuffs)
  BY <1>1, Ring DEF Idx
<1>3. ASSUME NEW k \in 0 .. n
      PROVE  add(hwIdx, k) \in Idx(NumBuffs) /\ toGo(add(hwIdx, k)) = toGo(hwIdx) - k
  <2>1. k \in 0 .. NumBuffs - 1 /\ k \in 0 .. NumBuffs /\ k <= toGo(hwIdx)
    BY <1>1, <1>2, Ring
  <2>2. add(hwIdx, k) \in Idx(NumBuffs)
    BY <1>t, <2>1, Ring, AddOnRing DEF add
  <2>3. toGo(add(hwIdx, k)) = toGo(hwIdx) - k
    BY <1>t, <2>1, Ring, PlacesAfterStep DEF add, toGo
  <2> QED BY <2>2, <2>3
<1>4. add(hwIdx, n) = hwNext
  <2>1. n \in 0 .. n
    BY <1>2, Ring
  <2>2. toGo(add(hwIdx, n)) = toGo(hwNext)
    BY <1>1, <1>3, <2>1, Ring
  <2> QED BY <1>3, <1>t, <2>1, <2>2, SamePlace
<1>5. ~goesOn(n)
  <2>1. CASE toGo(hwNext) = 0
    BY <1>4, <1>t, <2>1, Places
  <2>2. CASE toGo(hwNext) # 0
    <3>1. toGo(hwNext) \in 1 .. toGo(hwNext)
      BY <1>1, <2>2, Ring
    <3> QED BY <1>4, <1>t, <3>1 DEF IInv, HwInv
  <2> QED BY <2>1, <2>2
<1>6. ASSUME NEW j \in 0 .. (n - 1) PROVE goesOn(j)
  <2>1. j \in 0 .. n /\ toGo(hwIdx) - j > toGo(hwNext) /\ toGo(hwIdx) - j # 0
    BY <1>1, <1>2, Ring
  <2>2. add(hwIdx, j) \in Idx(NumBuffs) /\ add(hwIdx, j) # swNext
        /\ toGo(add(hwIdx, j)) \notin 1 .. toGo(hwNext)
    BY <1>1, <1>3, <2>1, Places, Ring
  <2> QED BY <2>2 DEF IInv, HwInv
<1>7. ends(n)
  BY <1>5, <1>6
<1>8. ASSUME NEW k \in Idx(NumBuffs), ends(k) PROVE k = n
  <2>1. k \in Int /\ k >= 0
    BY Ring DEF Idx
  <2>2. CASE k < n
    <3>1. k \in 0 .. (n - 1)
      BY <2>1, <2>2, <1>2, Ring
    <3> QED BY <1>6, <1>8, <3>1
  <2>3. CASE k > n
    <3>1. n \in 0 .. (k - 1)
      BY <2>1, <2>3, <1>2, Ring
    <3> QED BY <1>5, <1>8, <3>1
  <2> QED BY <2>1, <2>2, <2>3, <1>2, Ring
<1> HIDE DEF n, goesOn
<1>9. n = CHOOSE k \in Idx(NumBuffs) : ends(k)
  BY <1>2, <1>7, <1>8
<1> QED BY <1>4, <1>9 DEF walked, goesOn

-----------------------------------------------------------------------------
(* Type correctness, with the invariant for the walk. *)
LEMMA InitType == Init => TypeOK
<1> SUFFICES ASSUME Init PROVE TypeOK
  OBVIOUS
<1>1. 0 \in Idx(NumBuffs) /\ 0 \in Nat
  BY Ring
<1> QED BY <1>1 DEF Init, TypeOK

LEMMA WalkOnRing ==
  ASSUME TypeOK, IInv, NEW i \in Idx(NumBuffs), i = swNext
  PROVE  walked(i) = hwNext
BY WalkEnds

\* Who is not at the end of BUF_XMIT has the driver's swIdx at SW_NEXT.
LEMMA AtSwNext ==
  ASSUME OneWriter, IInv, NEW w \in Writer, pc[w] # "swidx"
  PROVE  swIdx = swNext
BY DEF OneWriter, IInv, DrvInv

LEMMA HwSendType ==
  ASSUME TypeOK, HwSend PROVE TypeOK'
<1> DEFINE P == [data : Nat, len : Nat]
<1>1. sent \in Seq(P) /\ [data |-> data[hwNext], len |-> byteCount[hwNext]] \in P
  BY DEF TypeOK
<1>2. sent' \in Seq(P)
  <2> HIDE DEF P
  <2> QED BY <1>1 DEF HwSend
<1>3. add(hwNext, 1) \in Idx(NumBuffs)
  BY Counts, NextIdx
<1>4. complete' \in [Idx(NumBuffs) -> BOOLEAN]
  BY DEF TypeOK, HwSend
<1> QED BY <1>2, <1>3, <1>4 DEF TypeOK, HwSend, drvVars, devVars, callVars

LEMMA WriterType ==
  ASSUME OneWriter, TypeOK, IInv, NEW w \in Writer,
         WriteData(w) \/ Call(w) \/ Restart(w)
  PROVE  TypeOK'
<1>1. CASE WriteData(w)
  <2>1. written + 1 \in Nat
    <3>1. {written, restarts} \subseteq Nat
      BY DEF TypeOK
    <3>2. written \in Nat
      BY <3>1
    <3> QED BY <3>2
  <2> QED BY <1>1, <2>1 DEF TypeOK, WriteData, goto, hwVars, memVars, drvVars, devVars
<1>2. CASE WriteGetInfo(w)
  <2>1. hwIdx' \in Idx(NumBuffs)
    BY <1>2, AtSwNext, WalkEnds, Counts DEF WriteGetInfo, getInfo
  <2> QED BY <1>2, <2>1 DEF TypeOK, WriteGetInfo, getInfo, goto, hwVars, memVars
<1>3. CASE WriteTimeout(w)
  BY <1>3 DEF TypeOK, WriteTimeout, goto, hwVars, memVars, drvVars, devVars
<1>4. CASE WriteCopy(w)
  BY <1>4 DEF TypeOK, WriteCopy, goto, hwVars, drvVars, devVars
<1>5. CASE XmitCheck(w)
  BY <1>5 DEF TypeOK, XmitCheck, goto, hwVars, memVars, drvVars, devVars
<1>6. CASE XmitMark(w)
  BY <1>6 DEF TypeOK, XmitMark, goto, hwVars, drvVars, devVars
<1>7. CASE XmitGo(w)
  <2>1. myIdx[w] \in Idx(NumBuffs) /\ packet[w] \in Nat /\ accepted \in Seq(Nat)
    BY DEF TypeOK
  <2>2. myIdx[w] = swNext
    BY <1>7, AtSwNext DEF XmitGo, IInv, DevInv
  <2>3. hwIdx' \in Idx(NumBuffs)
    BY <1>7, <2>2, WalkEnds, Counts DEF XmitGo
  <2>4. swNext' \in Idx(NumBuffs)
    BY <1>7, <2>1, NextIdx DEF XmitGo, xmitPast
  <2>5. accepted' \in Seq(Nat)
    BY <1>7, <2>1 DEF XmitGo
  <2> QED BY <1>7, <2>3, <2>4, <2>5 DEF TypeOK, XmitGo, goto, hwVars, memVars, devVars
<1>8. CASE XmitSwIdx(w)
  <2>1. add(myIdx[w], 1) \in Idx(NumBuffs)
    BY NextIdx DEF TypeOK
  <2> QED BY <1>8, <2>1 DEF TypeOK, XmitSwIdx, goto, hwVars, memVars, devVars
<1>9. CASE WriteAccount(w)
  <2>1. add(devSw[w], 1) \in Idx(NumBuffs)
    BY NextIdx DEF TypeOK
  <2> QED BY <1>9, <2>1 DEF TypeOK, WriteAccount, goto, hwVars, memVars, drvVars
<1>10. CASE Restart(w)
  <2>1. hwIdx' \in Idx(NumBuffs)
    BY <1>10, AtSwNext, WalkEnds, Counts DEF Restart, getInfo
  <2>2. restarts' \in Nat
    <3>1. restarts \in Nat /\ restarts' = restarts + 1
      BY <1>10 DEF TypeOK, Restart
    <3> QED BY <3>1
  <2>3. pc' \in [Writer -> Steps]
    BY <1>10 DEF TypeOK, Restart, goto, Steps
  <2>4. devHw' \in [Writer -> Idx(NumBuffs)] /\ devSw' \in [Writer -> Idx(NumBuffs)]
    BY <1>10, <2>1 DEF TypeOK, Restart, getInfo
  <2> QED BY <1>10, <2>1, <2>2, <2>3, <2>4 DEF TypeOK, Restart, hwVars, memVars, Steps
<1> QED BY <1>1, <1>2, <1>3, <1>4, <1>5, <1>6, <1>7, <1>8, <1>9, <1>10 DEF Call

LEMMA StepType ==
  ASSUME OneWriter, TypeOK, IInv, [Next]_vars PROVE TypeOK'
<1>1. CASE UNCHANGED vars
  BY <1>1 DEF TypeOK, vars, hwVars, memVars, drvVars, devVars, callVars
<1> QED BY <1>1, HwSendType, WriterType DEF Next

-----------------------------------------------------------------------------
(* The invariant. *)
LEMMA InitInv == Init => IInv
<1> SUFFICES ASSUME Init PROVE IInv
  OBVIOUS
<1>t. TypeOK
  BY InitType
<1>1. /\ hwNext = 0 /\ swNext = 0 /\ hwIdx = 0 /\ swIdx = 0
      /\ sent = <<>> /\ accepted = <<>>
      /\ \A i \in Idx(NumBuffs) : complete[i]
      /\ \A w \in Writer : devHw[w] = 0 /\ devSw[w] = 0 /\ pc[w] = "idle"
  BY DEF Init
<1>2. toGo(0) = 0 /\ toGo(hwNext) = 0 /\ toGo(hwIdx) = 0
      /\ \A w \in Writer : toGo(devHw[w]) = 0
  <2>1. toGo(0) = 0
    BY <1>1, <1>t, Ring, Places
  <2> QED BY <2>1, <1>1
<1>3. Len(sent) = 0 /\ Len(accepted) = 0
  BY <1>1
<1>4. SentAsWritten
  BY <1>3 DEF SentAsWritten
<1>5. HwInv
  BY <1>1, <1>2, <1>3 DEF HwInv
<1>6. DrvInv
  BY <1>1, <1>2 DEF DrvInv
<1>7. ASSUME NEW w \in Writer PROVE DevInv(w)
  BY <1>1, <1>2 DEF DevInv
<1> QED BY <1>4, <1>5, <1>6, <1>7 DEF IInv

(* The card sends the packet due from the buffer at HW_NEXT.               *)
LEMMA HwSendStep ==
  ASSUME TypeOK, IInv, HwSend PROVE IInv'
<1> DEFINE d == toGo(hwNext)
           P == [data |-> data[hwNext], len |-> byteCount[hwNext]]
<1>t. /\ Len(sent) \in Nat /\ Len(accepted) \in Nat
      /\ hwNext \in Idx(NumBuffs) /\ swNext \in Idx(NumBuffs) /\ hwIdx \in Idx(NumBuffs)
  BY Counts
<1>i. HwInv /\ DrvInv /\ SentAsWritten /\ \A w \in Writer : DevInv(w)
  BY DEF IInv
<1>u. /\ UNCHANGED <<data, byteCount, swNext, hwIdx, swIdx, devHw, devSw, pc, packet, myIdx,
                     accepted>>
      /\ hwNext' = add(hwNext, 1) /\ sent' = Append(sent, P)
      /\ hwNext # swNext
      /\ complete' = [complete EXCEPT ![hwNext] = TRUE]
  BY DEF HwSend, drvVars, devVars, callVars
<1>s. \A i \in Idx(NumBuffs) : toGo(i)' = toGo(i)
  BY <1>u DEF toGo
<1>d. d \in 1 .. NumBuffs - 1 /\ d <= toGo(hwIdx)
  BY <1>t, <1>i, <1>u, Places, Ring DEF DrvInv
<1>n. hwNext' \in Idx(NumBuffs) /\ toGo(hwNext)' = d - 1
  <2>1. toGo(add(hwNext, 1)) = d - 1
    BY <1>t, <1>d, Ring, PlacesAfterStep DEF add, toGo
  <2> QED BY <1>t, <1>u, <2>1, NextIdx DEF toGo
<1>l. /\ Len(sent') = Len(sent) + 1 /\ sent'[Len(sent) + 1] = P
      /\ \A k \in 1 .. Len(sent) : sent'[k] = sent[k]
  <2> DEFINE R == [data : Nat, len : Nat]
  <2>1. sent \in Seq(R)
    BY DEF TypeOK
  <2> HIDE DEF R, P
  <2> QED BY <2>1, <1>u
<1>1. SentAsWritten'
  <2>1. Due(hwNext) = accepted[Len(sent) + 1]
    BY <1>i, <1>t, <1>d DEF Due, HwInv
  <2>2. data[hwNext] = Due(hwNext) /\ byteCount[hwNext] = Due(hwNext)
    BY <1>i, <1>t, <1>d DEF HwInv
  <2>3. P = [data |-> accepted[Len(sent) + 1], len |-> accepted[Len(sent) + 1]]
    BY <2>1, <2>2
  <2> SUFFICES ASSUME NEW k \in 1 .. Len(sent')
               PROVE  sent'[k] = [data |-> accepted[k], len |-> accepted[k]]
    BY <1>u DEF SentAsWritten
  <2>4. CASE k = Len(sent) + 1
    BY <2>3, <2>4, <1>l
  <2>5. CASE k # Len(sent) + 1
    <3>1. k \in 1 .. Len(sent)
      BY <2>5, <1>l, <1>t
    <3> QED BY <3>1, <1>l, <1>i DEF SentAsWritten
  <2> QED BY <2>4, <2>5
<1>2. HwInv'
  <2>1. Len(accepted') = Len(sent') + toGo(hwNext)'
    BY <1>i, <1>l, <1>n, <1>t, <1>d, <1>u DEF HwInv
  <2>2. ASSUME NEW i \in Idx(NumBuffs), toGo(i)' \in 1 .. toGo(hwNext)'
        PROVE  ~complete'[i] /\ data'[i] = Due(i)' /\ byteCount'[i] = Due(i)'
    <3>1. toGo(i) \in 1 .. d /\ i # hwNext
      BY <2>2, <1>s, <1>n, <1>d
    <3>2. Due(i)' = Due(i)
      BY <1>s, <1>u DEF Due
    <3>3. ~complete[i] /\ data[i] = Due(i) /\ byteCount[i] = Due(i)
      BY <3>1, <1>i DEF HwInv
    <3> QED BY <1>u, <3>1, <3>2, <3>3 DEF TypeOK
  <2>3. ASSUME NEW i \in Idx(NumBuffs), toGo(i)' \notin 1 .. toGo(hwNext)'
        PROVE  complete'[i] \/ (i = swNext' /\ \E w \in Writer : pc'[w] = "go")
    <3>1. CASE i = hwNext
      BY <3>1, <1>u, <1>t DEF TypeOK
    <3>2. CASE i # hwNext
      <4>1. toGo(i) # d /\ toGo(i) \in 0 .. NumBuffs - 1
        BY <3>2, <1>t, SamePlace, Places
      <4>2. toGo(i) \notin 1 .. d
        BY <2>3, <4>1, <1>s, <1>n, <1>d
      <4>3. complete[i] \/ (i = swNext /\ \E w \in Writer : pc[w] = "go")
        BY <4>2, <1>i DEF HwInv
      <4> QED BY <3>2, <4>3, <1>u DEF TypeOK
    <3> QED BY <3>1, <3>2
  <2> QED BY <2>1, <2>2, <2>3 DEF HwInv
<1>3. DrvInv'
  <2>1. toGo(hwIdx)' = toGo(hwIdx)
    BY <1>u DEF toGo
  <2> QED BY <2>1, <1>n, <1>d, <1>i, <1>u, <1>t, Places DEF DrvInv
<1>4. ASSUME NEW w \in Writer PROVE DevInv(w)'
  <2>1. toGo(hwIdx)' = toGo(hwIdx) /\ toGo(devHw[w])' = toGo(devHw[w])
    BY <1>u DEF toGo
  <2>2. pc[w] = "go" => ~complete'[swNext]
    BY <1>i, <1>u, <1>t DEF DevInv, TypeOK
  <2> QED BY <2>1, <2>2, <1>i, <1>u DEF DevInv
<1> QED BY <1>1, <1>2, <1>3, <1>4 DEF IInv

-----------------------------------------------------------------------------
(* The writer. *)

\* What write_data takes for room is room for one packet.
LEMMA RoomIs ==
  ASSUME TypeOK, NEW h \in Idx(NumBuffs)
  PROVE  room(h, swNext) <=> toGo(h) <= NumBuffs - 2
<1>1. swNext \in Idx(NumBuffs)
  BY Counts
<1> QED BY <1>1, Ring DEF room, toGo, delta_C2S, delta_S2C, Idx

\* What all of the invariant depends on besides the writer's own state.
Shared == <<hwNext, swNext, sent, accepted>>

LEMMA SharedFrame ==
  ASSUME UNCHANGED Shared
  PROVE  /\ \A i \in Idx(NumBuffs) : toGo(i)' = toGo(i) /\ Due(i)' = Due(i)
         /\ SentAsWritten => SentAsWritten'
         /\ toGo(hwNext)' = toGo(hwNext)
BY DEF Shared, toGo, Due, SentAsWritten

LEMMA HwFrame ==
  ASSUME HwInv, UNCHANGED Shared, UNCHANGED memVars,
         (\E w \in Writer : pc[w] = "go") => (\E w \in Writer : pc'[w] = "go")
  PROVE  HwInv'
<1>1. UNCHANGED <<hwNext, swNext, sent, accepted, data, complete, byteCount>>
  BY DEF Shared, memVars
<1> QED BY <1>1, SharedFrame DEF HwInv

LEMMA OneDev ==
  ASSUME OneWriter, NEW w \in Writer, DevInv(w)'
  PROVE  \A v \in Writer : DevInv(v)'
BY DEF OneWriter

\* A step within the library, that looks at the driver at most.
LEMMA LibraryStep ==
  ASSUME OneWriter, TypeOK, IInv, NEW w \in Writer,
         WriteData(w) \/ WriteTimeout(w) \/ XmitCheck(w) \/ WriteAccount(w)
  PROVE  IInv'
<1>t. /\ swNext \in Idx(NumBuffs) /\ hwIdx \in Idx(NumBuffs)
      /\ devHw[w] \in Idx(NumBuffs) /\ devSw[w] \in Idx(NumBuffs)
      /\ w \in DOMAIN pc /\ w \in DOMAIN packet /\ w \in DOMAIN myIdx /\ w \in DOMAIN devSw
  BY Counts DEF TypeOK
<1>i. SentAsWritten /\ HwInv /\ DrvInv /\ DevInv(w)
  BY DEF IInv
<1>u. UNCHANGED <<hwVars, memVars, drvVars, devHw, accepted, restarts>>
  BY DEF WriteData, WriteTimeout, XmitCheck, WriteAccount, devVars
<1>s. UNCHANGED Shared
  BY <1>u DEF Shared, hwVars, drvVars
<1>p. pc[w] \notin {"go", "swidx"} /\ pc'[w] \notin {"go", "swidx"}
  BY <1>t DEF WriteData, WriteTimeout, XmitCheck, WriteAccount, goto, OneWriter
<1>1. SentAsWritten'
  BY <1>i, <1>s, SharedFrame
<1>2. HwInv'
  BY <1>i, <1>u, <1>s, <1>p, HwFrame DEF OneWriter
<1>3. DrvInv'
  <2>1. swIdx' = swNext' /\ hwIdx' = hwIdx
    BY <1>p, <1>u, <1>s, AtSwNext DEF drvVars, Shared
  <2> QED BY <2>1, <1>i, <1>s, <1>t, SharedFrame DEF DrvInv
<1>u2. /\ UNCHANGED <<data, byteCount, complete, swNext, hwIdx, swIdx, devHw>>
       /\ toGo(hwIdx)' = toGo(hwIdx) /\ toGo(devHw[w])' = toGo(devHw[w])
       /\ swIdx = swNext
  BY <1>u, <1>p, AtSwNext DEF memVars, drvVars, toGo
<1>4. CASE WriteData(w)
  <2>0. packet'[w] \in 1 .. MaxPackets
    <3>1. written \in Nat /\ written < MaxPackets /\ packet'[w] = written + 1
      BY <1>4, <1>t DEF WriteData, TypeOK
    <3> QED BY <3>1, SendConstants
  <2>1. /\ pc[w] = "idle" /\ swNext = devSw[w] /\ devSw' = devSw
        /\ packet'[w] \in 1 .. MaxPackets
    BY <2>0, <1>4, <1>i DEF WriteData, DevInv, devVars
  <2>2. pc'[w] \in {"copy", "getinfo"} /\ (pc'[w] = "copy" => room(devHw[w], devSw[w]))
    BY <1>4, <1>t DEF WriteData, goto
  <2>3. DevInv(w)'
    BY <2>1, <2>2, <1>u2, <1>i, <1>t, RoomIs DEF DevInv
  <2> QED BY <2>3, <1>1, <1>2, <1>3, OneDev DEF IInv
<1>5. CASE WriteTimeout(w)
  <2>1. DevInv(w)'
    BY <1>5, <1>u2, <1>i, <1>t DEF DevInv, WriteTimeout, goto, devVars
  <2> QED BY <2>1, <1>1, <1>2, <1>3, OneDev DEF IInv
<1>6. CASE XmitCheck(w)
  <2>1. DevInv(w)'
    BY <1>6, <1>u2, <1>i, <1>t DEF DevInv, XmitCheck, goto, devVars
  <2> QED BY <2>1, <1>1, <1>2, <1>3, OneDev DEF IInv
<1>7. CASE WriteAccount(w)
  <2>1. DevInv(w)'
    BY <1>7, <1>u2, <1>i, <1>t DEF DevInv, WriteAccount, goto
  <2> QED BY <2>1, <1>1, <1>2, <1>3, OneDev DEF IInv
<1> QED BY <1>4, <1>5, <1>6, <1>7

\* GET_INFO, when the writer asks and when a new process starts.
LEMMA GetInfoStep ==
  ASSUME OneWriter, TypeOK, IInv, NEW w \in Writer, WriteGetInfo(w) \/ Restart(w)
  PROVE  IInv'
<1>t. /\ swNext \in Idx(NumBuffs) /\ hwNext \in Idx(NumBuffs)
      /\ w \in DOMAIN pc /\ w \in DOMAIN devHw /\ w \in DOMAIN devSw
  BY Counts DEF TypeOK
<1>i. SentAsWritten /\ HwInv /\ DrvInv /\ DevInv(w)
  BY DEF IInv
<1>u. UNCHANGED <<hwVars, memVars, swNext, swIdx, packet, myIdx, accepted>>
  BY DEF WriteGetInfo, Restart
<1>s. UNCHANGED Shared
  BY <1>u DEF Shared, hwVars
<1>p. /\ pc[w] \notin {"mark", "go", "swidx"}
      /\ pc'[w] \in {"idle", "copy", "getinfo"}
      /\ pc'[w] # "idle" => pc[w] # "idle"
      /\ pc'[w] = "copy" => room(hwIdx', swIdx)
  BY <1>t DEF WriteGetInfo, Restart, goto
<1>g. /\ swIdx = swNext /\ hwIdx' = hwNext
      /\ devHw'[w] = hwNext /\ devSw'[w] = swNext
  BY <1>p, <1>t, AtSwNext, WalkEnds DEF WriteGetInfo, Restart, getInfo
<1>d. toGo(hwNext)' = toGo(hwNext) /\ toGo(hwIdx)' = toGo(hwNext)
      /\ toGo(devHw[w])' = toGo(hwNext) /\ toGo(hwNext) \in 0 .. NumBuffs - 1
  BY <1>g, <1>u, <1>t, Places DEF toGo, hwVars
<1>1. SentAsWritten'
  BY <1>i, <1>s, SharedFrame
<1>2. HwInv'
  BY <1>i, <1>u, <1>s, <1>p, HwFrame DEF OneWriter
<1>3. DrvInv'
  BY <1>g, <1>u, <1>d DEF DrvInv
<1>4. DevInv(w)'
  <2>1. pc'[w] = "copy" => toGo(hwNext) <= NumBuffs - 2
    BY <1>p, <1>g, <1>t, RoomIs
  <2> QED BY <2>1, <1>p, <1>g, <1>u, <1>d, <1>i, Ring DEF DevInv
<1> QED BY <1>1, <1>2, <1>3, <1>4, OneDev DEF IInv

\* The memcpy, into a buffer outside of what the card has still to send.
LEMMA CopyStep ==
  ASSUME OneWriter, TypeOK, IInv, NEW w \in Writer, WriteCopy(w)
  PROVE  IInv'
<1>t. /\ swNext \in Idx(NumBuffs) /\ hwIdx \in Idx(NumBuffs) /\ w \in DOMAIN pc
      /\ data \in [Idx(NumBuffs) -> Nat] /\ devHw[w] \in Idx(NumBuffs)
  BY Counts DEF TypeOK
<1>i. SentAsWritten /\ HwInv /\ DrvInv /\ DevInv(w)
  BY DEF IInv
<1>u. UNCHANGED <<hwNext, sent, complete, byteCount, swNext, hwIdx, swIdx, devHw, devSw,
                  packet, myIdx, accepted>>
  BY DEF WriteCopy, hwVars, drvVars, devVars
<1>s. UNCHANGED Shared
  BY <1>u DEF Shared
<1>p. pc[w] = "copy" /\ pc'[w] = "xmit"
      /\ data' = [data EXCEPT ![swNext] = packet[w]]
  BY <1>t, <1>i DEF WriteCopy, goto, copyIdx, DevInv
<1>1. SentAsWritten'
  BY <1>i, <1>s, SharedFrame
<1>2. HwInv'
  <2>1. ASSUME NEW i \in Idx(NumBuffs), toGo(i) \in 1 .. toGo(hwNext) PROVE data'[i] = data[i]
    <3>1. i # swNext
      BY <2>1, Places
    <3> QED BY <3>1, <1>p, <1>t
  <2>2. \A v \in Writer : pc[v] # "go"
    BY <1>p DEF OneWriter
  <2> QED BY <2>1, <2>2, <1>i, <1>u, <1>s, SharedFrame DEF HwInv
<1>3. DrvInv'
  <2>1. swIdx' = swNext'
    BY <1>p, <1>u, AtSwNext
  <2> QED BY <2>1, <1>i, <1>u, <1>t, <1>s, SharedFrame DEF DrvInv
<1>4. DevInv(w)'
  <2>1. toGo(hwIdx)' = toGo(hwIdx) /\ toGo(devHw[w])' = toGo(devHw[w])
    BY <1>u DEF toGo
  <2>2. data'[swNext] = packet[w]
    BY <1>p, <1>t
  <2> QED BY <2>1, <2>2, <1>p, <1>i, <1>u DEF DevInv
<1> QED BY <1>1, <1>2, <1>3, <1>4, OneDev DEF IInv

-----------------------------------------------------------------------------
(* BUF_XMIT. *)
LEMMA MarkStep ==
  ASSUME OneWriter, TypeOK, IInv, NEW w \in Writer, XmitMark(w)
  PROVE  IInv'
<1>t. /\ swNext \in Idx(NumBuffs) /\ hwIdx \in Idx(NumBuffs) /\ hwNext \in Idx(NumBuffs)
      /\ w \in DOMAIN pc /\ devHw[w] \in Idx(NumBuffs)
      /\ complete \in [Idx(NumBuffs) -> BOOLEAN] /\ byteCount \in [Idx(NumBuffs) -> Nat]
  BY Counts DEF TypeOK
<1>i. SentAsWritten /\ HwInv /\ DrvInv /\ DevInv(w)
  BY DEF IInv
<1>u. UNCHANGED <<hwNext, sent, data, swNext, hwIdx, swIdx, devHw, devSw, packet, myIdx,
                  accepted>>
  BY DEF XmitMark, hwVars, drvVars, devVars
<1>s. UNCHANGED Shared
  BY <1>u DEF Shared
<1>p. /\ pc[w] = "mark" /\ pc'[w] = "go" /\ swIdx = swNext
      /\ complete' = [complete EXCEPT ![swNext] = FALSE]
      /\ byteCount' = [byteCount EXCEPT ![swNext] = packet[w]]
  <2>1. pc[w] = "mark" /\ pc'[w] = "go"
    BY <1>t DEF XmitMark, goto
  <2>2. swIdx = swNext /\ myIdx[w] = swNext
    BY <2>1, <1>i, AtSwNext DEF DevInv
  <2> QED BY <2>1, <2>2 DEF XmitMark
<1>1. SentAsWritten'
  BY <1>i, <1>s, SharedFrame
<1>2. HwInv'
  <2>1. ASSUME NEW i \in Idx(NumBuffs), i # swNext
        PROVE  complete'[i] = complete[i] /\ byteCount'[i] = byteCount[i]
    BY <2>1, <1>p, <1>t
  <2>2. \A i \in Idx(NumBuffs) : toGo(i) \in 1 .. toGo(hwNext) => i # swNext
    BY Places
  <2> QED BY <2>1, <2>2, <1>i, <1>p, <1>u, <1>s, SharedFrame DEF HwInv
<1>3. DrvInv'
  BY <1>p, <1>i, <1>u, <1>t, <1>s, SharedFrame DEF DrvInv
<1>4. DevInv(w)'
  <2>1. toGo(hwIdx)' = toGo(hwIdx) /\ toGo(devHw[w])' = toGo(devHw[w])
    BY <1>u DEF toGo
  <2>2. byteCount'[swNext] = packet[w] /\ ~complete'[swNext]
    BY <1>p, <1>t
  <2> QED BY <2>1, <2>2, <1>p, <1>i, <1>u DEF DevInv
<1> QED BY <1>1, <1>2, <1>3, <1>4, OneDev DEF IInv

\* SW_NEXT moves past the packet: everything is one place further away.
LEMMA GoStep ==
  ASSUME OneWriter, TypeOK, IInv, NEW w \in Writer, XmitGo(w)
  PROVE  IInv'
<1> DEFINE d == toGo(hwNext)
<1>t. /\ swNext \in Idx(NumBuffs) /\ hwIdx \in Idx(NumBuffs) /\ hwNext \in Idx(NumBuffs)
      /\ w \in DOMAIN pc /\ devHw[w] \in Idx(NumBuffs)
      /\ Len(sent) \in Nat /\ Len(accepted) \in Nat /\ accepted \in Seq(Nat)
      /\ packet[w] \in Nat
  BY Counts DEF TypeOK
<1>i. SentAsWritten /\ HwInv /\ DrvInv /\ DevInv(w)
  BY DEF IInv
<1>u. UNCHANGED <<hwNext, sent, data, complete, byteCount, swIdx, devHw, devSw, packet,
                  myIdx>>
  BY DEF XmitGo, hwVars, memVars, devVars
<1>p. pc[w] = "go" /\ pc'[w] = "swidx" /\ swIdx = swNext /\ myIdx[w] = swNext
  <2>1. pc[w] = "go" /\ pc'[w] = "swidx"
    BY <1>t DEF XmitGo, goto
  <2> QED BY <2>1, <1>i, AtSwNext DEF DevInv
<1>g. /\ swNext' = add(swNext, 1) /\ hwIdx' = hwNext
      /\ accepted' = Append(accepted, packet[w])
  BY <1>p, WalkEnds DEF XmitGo, xmitPast
<1>a. /\ Len(accepted') = Len(accepted) + 1
      /\ accepted'[Len(accepted) + 1] = packet[w]
      /\ \A k \in 1 .. Len(accepted) : accepted'[k] = accepted[k]
  BY <1>g, <1>t
<1>f. \A i \in Idx(NumBuffs) :
        toGo(i)' = IF toGo(i) = NumBuffs - 1 THEN 0 ELSE toGo(i) + 1
  BY <1>g, <1>t, Ring, PlacesBeforeStep DEF toGo, add
<1>d. /\ d \in 0 .. NumBuffs - 2 /\ d <= toGo(hwIdx) /\ toGo(hwIdx) <= toGo(devHw[w])
      /\ toGo(hwIdx) \in 0 .. NumBuffs - 1
      /\ toGo(devHw[w]) \in 0 .. NumBuffs - 2
  <2>1. d <= toGo(hwIdx) /\ toGo(hwIdx) <= toGo(devHw[w]) /\ toGo(devHw[w]) <= NumBuffs - 2
    BY <1>i, <1>p DEF DrvInv, DevInv
  <2>2. d \in 0 .. NumBuffs - 1 /\ toGo(hwIdx) \in 0 .. NumBuffs - 1
        /\ toGo(devHw[w]) \in 0 .. NumBuffs - 1
    BY <1>t, Places
  <2> QED BY <2>1, <2>2, Ring
<1>n. toGo(hwNext)' = d + 1 /\ toGo(hwIdx)' = d + 1 /\ toGo(devHw[w])' = toGo(devHw[w]) + 1
  <2>1. toGo(hwNext)' = d + 1
    <3>1. delta_C2S(NumBuffs, swNext', hwNext) = d + 1
      BY <1>f, <1>d, <1>t, <1>u, Ring DEF toGo
    <3> QED BY <3>1, <1>u DEF toGo
  <2>2. toGo(hwIdx)' = toGo(hwNext)'
    BY <1>g, <1>u DEF toGo
  <2>3. delta_C2S(NumBuffs, swNext', devHw[w]) = toGo(devHw[w]) + 1
    BY <1>f, <1>d, <1>t, <1>u, Ring DEF toGo
  <2> QED BY <2>1, <2>2, <2>3, <1>u DEF toGo
<1>1. SentAsWritten'
  <2>1. Len(accepted) = Len(sent) + d
    BY <1>i DEF HwInv
  <2>2. \A k \in 1 .. Len(sent) : k \in 1 .. Len(accepted)
    BY <2>1, <1>d, <1>t, Ring
  <2> QED BY <2>2, <1>a, <1>i, <1>u DEF SentAsWritten
<1>2. HwInv'
  <2>1. Len(accepted') = Len(sent') + toGo(hwNext)'
    BY <1>a, <1>n, <1>i, <1>u, <1>t, <1>d DEF HwInv
  <2>2. ASSUME NEW i \in Idx(NumBuffs), toGo(i)' \in 1 .. d + 1
        PROVE  ~complete[i] /\ data[i] = Due(i)' /\ byteCount[i] = Due(i)'
    <3>0. toGo(i) \in 0 .. NumBuffs - 1 /\ (toGo(i) = 0 => i = swNext)
      BY Places
    <3>1. toGo(i) \in 0 .. d /\ toGo(i)' = toGo(i) + 1
      BY <2>2, <3>0, <1>f, <1>d, Ring
    <3>2. Due(i)' = accepted'[Len(accepted) + 1 - toGo(i)]
      <4>1. Len(accepted') + 1 - toGo(i)' = Len(accepted) + 1 - toGo(i)
        <5>1. toGo(i) \in Int /\ toGo(i)' = toGo(i) + 1
          BY <3>0, <3>1, Ring
        <5>2. Len(accepted) \in Int /\ Len(accepted') = Len(accepted) + 1
          BY <1>a, <1>t
        <5> HIDE DEF d
        <5> QED BY <5>1, <5>2
      <4> QED BY <4>1 DEF Due
    <3>3. CASE toGo(i) = 0
      <4>1. Due(i)' = packet[w]
        BY <3>2, <3>3, <1>a, <1>t
      <4>2. i = swNext
        BY <3>0, <3>3
      <4> QED BY <4>1, <4>2, <1>i, <1>p DEF DevInv
    <3>4. CASE toGo(i) # 0
      <4>1. toGo(i) \in 1 .. d
        BY <3>1, <3>4, <1>d, Ring
      <4>2. Len(accepted) + 1 - toGo(i) \in 1 .. Len(accepted)
        <5>1. Len(accepted) = Len(sent) + d
          BY <1>i DEF HwInv
        <5>2. d \in Nat
          BY <1>d
        <5> HIDE DEF d
        <5> QED BY <4>1, <5>1, <5>2, <1>t
      <4>3. Due(i)' = Due(i)
        BY <3>2, <4>2, <1>a DEF Due
      <4> QED BY <4>1, <4>3, <1>i DEF HwInv
    <3> QED BY <3>3, <3>4
  <2>3. ASSUME NEW i \in Idx(NumBuffs), toGo(i)' \notin 1 .. d + 1 PROVE complete[i]
    <3>1. toGo(i) \in 0 .. NumBuffs - 1 /\ (i = swNext => toGo(i) = 0)
      BY Places
    <3>2. toGo(i) \notin 0 .. d
      BY <2>3, <3>1, <1>f, <1>d, Ring
    <3>3. toGo(i) \notin 1 .. d /\ i # swNext
      BY <3>1, <3>2, <1>d, Ring
    <3> QED BY <3>3, <1>i DEF HwInv
  <2> QED BY <2>1, <2>2, <2>3, <1>n, <1>u DEF HwInv
<1>3. DrvInv'
  BY <1>n, <1>p, <1>d, Ring DEF DrvInv
<1>4. DevInv(w)'
  <2>1. swNext = devSw[w] /\ swNext' = add(devSw'[w], 1) /\ swNext' = add(swIdx', 1)
        /\ packet'[w] \in 1 .. MaxPackets /\ myIdx'[w] = swIdx'
    BY <1>i, <1>p, <1>g, <1>u DEF DevInv
  <2>2. toGo(hwIdx)' <= toGo(devHw[w])'
    BY <1>n, <1>d, Ring
  <2> QED BY <2>1, <2>2, <1>p, <1>u DEF DevInv
<1> QED BY <1>1, <1>2, <1>3, <1>4, OneDev DEF IInv

LEMMA SwIdxStep ==
  ASSUME OneWriter, TypeOK, IInv, NEW w \in Writer, XmitSwIdx(w)
  PROVE  IInv'
<1>t. w \in DOMAIN pc
  BY DEF TypeOK
<1>i. SentAsWritten /\ HwInv /\ DrvInv /\ DevInv(w)
  BY DEF IInv
<1>u. UNCHANGED <<hwNext, sent, data, complete, byteCount, swNext, hwIdx, devHw, devSw,
                  packet, myIdx, accepted>>
  BY DEF XmitSwIdx, hwVars, memVars, devVars
<1>s. UNCHANGED Shared /\ UNCHANGED memVars
  BY <1>u DEF Shared, memVars
<1>p. pc[w] = "swidx" /\ pc'[w] = "account" /\ swIdx' = swNext
  BY <1>t, <1>i DEF XmitSwIdx, goto, DevInv
<1>d. toGo(hwIdx)' = toGo(hwIdx) /\ toGo(devHw[w])' = toGo(devHw[w])
  BY <1>u DEF toGo
<1>1. SentAsWritten'
  BY <1>i, <1>s, SharedFrame
<1>2. HwInv'
  BY <1>i, <1>s, <1>p, HwFrame DEF OneWriter
<1>3. DrvInv'
  BY <1>i, <1>p, <1>d, <1>u, <1>s, SharedFrame DEF DrvInv
<1>4. DevInv(w)'
  BY <1>i, <1>p, <1>d, <1>u DEF DevInv
<1> QED BY <1>1, <1>2, <1>3, <1>4, OneDev DEF IInv

-----------------------------------------------------------------------------
LEMMA StepInv ==
  ASSUME OneWriter, TypeOK, IInv, [Next]_vars PROVE IInv'
<1>1. CASE UNCHANGED vars
  <2>1. UNCHANGED <<hwNext, swNext, sent, accepted, data, complete, byteCount, hwIdx, swIdx,
                    devHw, devSw, pc, packet, myIdx>>
    BY <1>1 DEF vars, hwVars, memVars, drvVars, devVars, callVars
  <2>2. HwInv' /\ DrvInv' /\ SentAsWritten'
    BY <2>1 DEF IInv, HwInv, DrvInv, SentAsWritten, toGo, Due
  <2>3. \A w \in Writer : DevInv(w)'
    BY <2>1 DEF IInv, DevInv, toGo
  <2> QED BY <2>2, <2>3 DEF IInv
<1>2. CASE HwSend
  BY <1>2, HwSendStep
<1>3. ASSUME NEW w \in Writer, WriteData(w) \/ Call(w) \/ Restart(w) PROVE IInv'
  BY <1>3, LibraryStep, GetInfoStep, CopyStep, MarkStep, GoStep, SwIdxStep DEF Call
<1> QED BY <1>1, <1>2, <1>3 DEF Next

(* Types, and the inductive invariant: card, driver and the one writer     *)
(* agree on the state of the ring at every step (TypeOK and IInv).         *)
THEOREM Invariance ==
  ASSUME OneWriter
  PROVE  Spec => [](TypeOK /\ IInv)
<1>1. Init => TypeOK /\ IInv
  BY InitType, InitInv
<1>2. TypeOK /\ IInv /\ [Next]_vars => TypeOK' /\ IInv'
  BY StepType, StepInv
<1> QED BY <1>1, <1>2, PTL DEF Spec

(* What the card sends for a call of write_data is the packet that the     *)
(* caller passed, with its size (SentAsWritten).                           *)
THEOREM Faithful ==
  ASSUME OneWriter
  PROVE  Spec => []SentAsWritten
<1>1. IInv => SentAsWritten
  BY DEF IInv
<1> QED BY <1>1, Invariance, PTL

LEMMA HoldsAccepted == TypeOK /\ IInv => RingHoldsAccepted
<1> SUFFICES ASSUME TypeOK, IInv PROVE RingHoldsAccepted
  OBVIOUS
<1>1. Len(accepted) = Len(sent) + toGo(hwNext)
  BY DEF IInv, HwInv
<1>2. Len(sent) \in Nat /\ hwNext \in Idx(NumBuffs) /\ swNext \in Idx(NumBuffs)
  BY Counts
<1>3. toGo(hwNext) = (swNext + NumBuffs - hwNext) % NumBuffs
  BY <1>2, Ring, SMT DEF toGo, delta_C2S, Idx
<1>4. toGo(hwNext) \in Int
  BY <1>2, Places, Ring
<1> QED BY <1>1, <1>2, <1>3, <1>4 DEF RingHoldsAccepted

(* What the card sees between its two registers is what was accepted and   *)
(* not yet sent, so a full ring never looks empty (RingHoldsAccepted).     *)
THEOREM NeverMistaken ==
  ASSUME OneWriter
  PROVE  Spec => []RingHoldsAccepted
BY HoldsAccepted, Invariance, PTL

LEMMA Refuses == OneWriter /\ TypeOK /\ IInv => RefusedOnlyWhenFull
<1> SUFFICES ASSUME OneWriter, TypeOK, IInv, NEW w \in Writer
             PROVE  /\ pc[w] = "getinfo" /\ ~room(walked(swIdx), swIdx) =>
                         Len(accepted) - Len(sent) = NumBuffs - 1
                    /\ pc[w] = "xmit" => complete[swIdx]
  BY DEF RefusedOnlyWhenFull
<1>t. /\ hwNext \in Idx(NumBuffs) /\ swNext \in Idx(NumBuffs)
      /\ Len(sent) \in Nat /\ Len(accepted) \in Nat
  BY Counts
<1>d. toGo(hwNext) \in 0 .. NumBuffs - 1 /\ Len(accepted) = Len(sent) + toGo(hwNext)
  BY <1>t, Places DEF IInv, HwInv
<1>1. ASSUME pc[w] = "getinfo", ~room(walked(swIdx), swIdx)
      PROVE  Len(accepted) - Len(sent) = NumBuffs - 1
  <2>1. swIdx = swNext /\ walked(swIdx) = hwNext
    BY <1>1, AtSwNext, WalkEnds
  <2>2. ~(toGo(hwNext) <= NumBuffs - 2)
    BY <1>1, <1>t, <2>1, RoomIs
  <2> QED BY <1>d, <1>t, <2>2, Ring
<1>2. ASSUME pc[w] = "xmit" PROVE complete[swIdx]
  <2>1. swIdx = swNext /\ toGo(swNext) = 0
    BY <1>2, <1>t, AtSwNext, Places
  <2>2. \A v \in Writer : pc[v] # "go"
    BY <1>2 DEF OneWriter
  <2> QED BY <1>t, <2>1, <2>2 DEF IInv, HwInv
<1> QED BY <1>1, <1>2

(* A writer that asks is told there is no room only when there is none,    *)
(* and one that was told there is is not sent away by BUF_XMIT             *)
(* (RefusedOnlyWhenFull).                                                  *)
THEOREM RefusesWhenFull ==
  ASSUME OneWriter
  PROVE  Spec => []RefusedOnlyWhenFull
BY Refuses, Invariance, PTL

-----------------------------------------------------------------------------
(* Steps. *)
LEMMA CopyIsFree ==
  ASSUME OneWriter, TypeOK, IInv, NEW w \in Writer, WriteCopy(w), NEW i \in Idx(NumBuffs),
         data'[i] # data[i]
  PROVE  /\ complete[i]
         /\ \A k \in 0 .. (Len(accepted) - Len(sent) - 1) : add(hwNext, k) # i
<1>t. /\ swNext \in Idx(NumBuffs) /\ hwNext \in Idx(NumBuffs)
      /\ Len(sent) \in Nat /\ Len(accepted) \in Nat
  BY Counts
<1>1. i = swNext
  <2>1. copyIdx(w) = swNext
    BY DEF IInv, DevInv, WriteCopy, copyIdx
  <2> QED BY <2>1 DEF WriteCopy, TypeOK
<1>2. toGo(i) = 0
  BY <1>1, <1>t, Places
<1>3. complete[i]
  <2>1. \A v \in Writer : pc[v] # "go"
    BY DEF OneWriter, WriteCopy
  <2> QED BY <1>2, <2>1 DEF IInv, HwInv
<1>4. ASSUME NEW k \in 0 .. (Len(accepted) - Len(sent) - 1) PROVE add(hwNext, k) # i
  <2>1. toGo(hwNext) \in 0 .. NumBuffs - 1 /\ Len(accepted) - Len(sent) = toGo(hwNext)
    BY <1>t, Places DEF IInv, HwInv
  <2>2. k \in 0 .. NumBuffs - 1 /\ k < toGo(hwNext)
    BY <2>1, Ring
  <2>3. toGo(add(hwNext, k)) = toGo(hwNext) - k
    BY <1>t, <2>1, <2>2, Ring, PlacesAfterStep DEF toGo, add
  <2> QED BY <1>2, <2>1, <2>2, <2>3, Ring
<1> QED BY <1>3, <1>4

LEMMA CopiesIntoFreeSteps ==
  OneWriter /\ TypeOK /\ IInv /\ [Next]_vars =>
    [\A i \in Idx(NumBuffs) : data'[i] # data[i] =>
       complete[i] /\ \A k \in 0 .. (Len(accepted) - Len(sent) - 1) : add(hwNext, k) # i]_data
<1> SUFFICES ASSUME OneWriter, TypeOK, IInv, [Next]_vars, data' # data,
                    NEW i \in Idx(NumBuffs), data'[i] # data[i]
             PROVE  /\ complete[i]
                    /\ \A k \in 0 .. (Len(accepted) - Len(sent) - 1) : add(hwNext, k) # i
  OBVIOUS
<1>1. PICK w \in Writer : WriteCopy(w)
  BY DEF Next, vars, memVars, HwSend, WriteData, Call, WriteGetInfo, WriteTimeout, XmitCheck,
     XmitMark, XmitGo, XmitSwIdx, WriteAccount, Restart
<1> QED BY <1>1, CopyIsFree

(* A writer fills only a buffer that the card is done with                 *)
(* (CopiesIntoFree).                                                       *)
THEOREM CopySafe ==
  ASSUME OneWriter
  PROVE  Spec => CopiesIntoFree
BY CopiesIntoFreeSteps, Invariance, PTL DEF Spec, CopiesIntoFree

-----------------------------------------------------------------------------
(* The refinement of SendFifo: SW_NEXT's store accepts, the card delivers. *)
sentPackets == [k \in 1 .. Len(sent) |-> sent[k].data]

LEMMA AcceptStep ==
  ASSUME OneWriter, TypeOK, IInv, NEW w \in Writer, XmitGo(w)
  PROVE  Fifo!Accept
<1>t. /\ hwNext \in Idx(NumBuffs) /\ hwIdx \in Idx(NumBuffs) /\ devHw[w] \in Idx(NumBuffs)
      /\ Len(sent) \in Nat /\ Len(accepted) \in Nat
  BY Counts DEF TypeOK
<1>1. pc[w] = "go" /\ accepted' = Append(accepted, packet[w]) /\ sent' = sent
  BY DEF XmitGo, hwVars
<1>2. /\ toGo(hwNext) <= toGo(hwIdx) /\ toGo(hwIdx) <= toGo(devHw[w])
      /\ toGo(devHw[w]) <= NumBuffs - 2 /\ Len(accepted) = Len(sent) + toGo(hwNext)
      /\ packet[w] \in 1 .. MaxPackets
  BY <1>1 DEF IInv, HwInv, DrvInv, DevInv
<1>3. /\ toGo(hwNext) \in 0 .. NumBuffs - 1 /\ toGo(hwIdx) \in 0 .. NumBuffs - 1
      /\ toGo(devHw[w]) \in 0 .. NumBuffs - 1
  BY <1>t, Places
<1>4. Len(accepted) - Len(sent) < NumBuffs - 1
  BY <1>2, <1>3, <1>t, Ring
<1>5. Len(sentPackets) = Len(sent) /\ sentPackets' = sentPackets
  BY <1>1, <1>t DEF sentPackets
<1> QED BY <1>1, <1>2, <1>4, <1>5 DEF Fifo!Accept, sentPackets

LEMMA DeliverStep ==
  ASSUME TypeOK, IInv, HwSend
  PROVE  Fifo!Deliver
<1> DEFINE R == [data : Nat, len : Nat]
           P == [data |-> data[hwNext], len |-> byteCount[hwNext]]
<1>t. /\ hwNext \in Idx(NumBuffs) /\ swNext \in Idx(NumBuffs)
      /\ Len(sent) \in Nat /\ Len(accepted) \in Nat
  BY Counts
<1>1. accepted' = accepted /\ sent' = Append(sent, P) /\ hwNext # swNext
  BY DEF HwSend
<1>2. toGo(hwNext) \in 1 .. NumBuffs - 1 /\ Len(accepted) = Len(sent) + toGo(hwNext)
  BY <1>t, <1>1, Places, Ring DEF IInv, HwInv
<1>3. Len(sent) < Len(accepted)
  BY <1>2, <1>t, Ring
<1>4. data[hwNext] = accepted[Len(sent) + 1]
  <2>1. data[hwNext] = Due(hwNext)
    BY <1>2, <1>t DEF IInv, HwInv
  <2>2. Len(accepted) + 1 - toGo(hwNext) = Len(sent) + 1
    BY <1>2, <1>t, Ring
  <2> QED BY <2>1, <2>2 DEF Due
<1>5. /\ Len(sent') = Len(sent) + 1 /\ sent'[Len(sent) + 1] = P
      /\ \A k \in 1 .. Len(sent) : sent'[k] = sent[k]
  <2>1. sent \in Seq(R)
    BY DEF TypeOK
  <2> HIDE DEF R, P
  <2> QED BY <2>1, <1>1
<1>6. Len(sentPackets) = Len(sent)
  BY <1>t DEF sentPackets
<1>7. sentPackets' = Append(sentPackets, accepted[Len(sentPackets) + 1])
  <2>1. \A k \in 1 .. Len(sent) : sent'[k].data = sent[k].data
    BY <1>5
  <2>2. sent'[Len(sent) + 1].data = accepted[Len(sent) + 1]
    BY <1>4, <1>5
  <2>3. sentPackets' = [k \in 1 .. (Len(sent) + 1) |-> sent'[k].data]
    BY <1>5 DEF sentPackets
  <2>4. Append(sentPackets, accepted[Len(sent) + 1])
          = [k \in 1 .. (Len(sent) + 1) |-> IF k = Len(sent) + 1 THEN accepted[Len(sent) + 1]
                                             ELSE sentPackets[k]]
    BY <1>6, <1>t
  <2>5. \A k \in 1 .. (Len(sent) + 1) :
          sent'[k].data = IF k = Len(sent) + 1 THEN accepted[Len(sent) + 1] ELSE sentPackets[k]
    <3> TAKE k \in 1 .. (Len(sent) + 1)
    <3>1. CASE k = Len(sent) + 1
      BY <3>1, <2>2
    <3>2. CASE k # Len(sent) + 1
      <4>1. k \in 1 .. Len(sent)
        BY <3>2, <1>t
      <4> QED BY <4>1, <3>2, <2>1 DEF sentPackets
    <3> QED BY <3>1, <3>2
  <2> QED BY <2>3, <2>4, <2>5, <1>6
<1> QED BY <1>1, <1>3, <1>6, <1>7 DEF Fifo!Deliver, sentPackets

LEMMA StepRefines ==
  OneWriter /\ TypeOK /\ IInv /\ [Next]_vars => [Fifo!Next]_(Fifo!vars)
<1> SUFFICES ASSUME OneWriter, TypeOK, IInv, [Next]_vars
             PROVE  Fifo!Next \/ UNCHANGED Fifo!vars
  OBVIOUS
<1>s. UNCHANGED <<sent, accepted>> => UNCHANGED Fifo!vars
  BY DEF Fifo!vars
<1>1. CASE UNCHANGED vars
  BY <1>1, <1>s DEF vars, hwVars
<1>2. CASE HwSend
  BY <1>2, DeliverStep DEF Fifo!Next
<1>3. ASSUME NEW w \in Writer, XmitGo(w) PROVE Fifo!Next
  BY <1>3, AcceptStep DEF Fifo!Next
<1>4. ASSUME NEW w \in Writer,
             WriteData(w) \/ WriteGetInfo(w) \/ WriteTimeout(w) \/ WriteCopy(w) \/ XmitCheck(w)
               \/ XmitMark(w) \/ XmitSwIdx(w) \/ WriteAccount(w) \/ Restart(w)
      PROVE  UNCHANGED Fifo!vars
  BY <1>4, <1>s DEF WriteData, WriteGetInfo, WriteTimeout, WriteCopy, XmitCheck, XmitMark,
     XmitSwIdx, WriteAccount, Restart, hwVars
<1> QED BY <1>1, <1>2, <1>3, <1>4 DEF Next, Call

LEMMA InitRefines == Init => Fifo!Init
BY DEF Init, Fifo!Init

(* The ring implements SendFifo for one writer (ImplementsFifo): packets   *)
(* leave in the order of their acceptance, whole, and no more than         *)
(* NumBuffs - 1 wait.                                                      *)
THEOREM Refinement ==
  ASSUME OneWriter
  PROVE  Spec => ImplementsFifo
BY InitRefines, StepRefines, Invariance, PTL DEF Spec, ImplementsFifo, Fifo!Spec

=============================================================================
