---------------------------- MODULE RecvRingProofs ----------------------------
(***************************************************************************)
(* Theorems about the receive path, for rings of any size, any number of   *)
(* packets and of reader restarts.  First types, then the invariant IInv   *)
(* of RecvRingInv, which is inductive when the two channels are read       *)
(* through different mu2edev objects, last the step properties: the path   *)
(* implements RecvFifo, and gives the card back only what it published.    *)
(***************************************************************************)
EXTENDS RecvRingInv, RingIndexProofs

LEMMA AddType ==
  ASSUME NEW i \in Idx(NumBuffs), NEW k \in Nat
  PROVE  add(i, k) \in Idx(NumBuffs)
<1>1. add(i, k) = (i + k) % NumBuffs
  BY RecvConstants DEF add, idx_add, Idx
<1> QED BY <1>1, RecvConstants DEF Idx

LEMMA DeltaType ==
  ASSUME NEW hw \in Idx(NumBuffs), NEW sw \in Idx(NumBuffs)
  PROVE  delta(hw, sw) \in Idx(NumBuffs)
BY RecvConstants DEF delta, delta_C2S, Idx

LEMMA NumType ==
  ASSUME DevType, NEW c \in Channel PROVE num[c] \in Nat
BY RecvConstants DEF DevType, Idx

-----------------------------------------------------------------------------
(* Type correctness, one part of the state at a time. *)
LEMMA InitType == Init => TypeOK
BY RecvConstants DEF Init, TypeOK, HwType, DrvType, PollType, DevType, CallType,
   Channel, DAQ, DCS, Idx

LEMMA StepType == TypeOK /\ [Next]_vars => TypeOK'
<1> SUFFICES ASSUME TypeOK, [Next]_vars PROVE TypeOK'
  OBVIOUS
<1>t. HwType /\ DrvType /\ PollType /\ DevType /\ CallType /\ restarts \in Nat
  BY DEF TypeOK
<1> HIDE DEF TypeOK
<1>1. ASSUME NEW c \in Channel, HwBegin(c) PROVE TypeOK'
  <2>1. HwType'
    BY <1>1, <1>t DEF HwType, HwBegin
  <2> QED BY <1>1, <1>t, <2>1 DEF TypeOK, DrvType, PollType, DevType, CallType,
        HwBegin, drvVars, pollVars, devVars, callVars
<1>2. ASSUME NEW c \in Channel, HwComplete(c) PROVE TypeOK'
  <2>1. add(hwNext[c], 1) \in Idx(NumBuffs)
    BY <1>t, AddType DEF HwType
  <2>2. HwType'
    BY <1>2, <1>t, <2>1 DEF HwType, HwComplete
  <2> QED BY <1>2, <1>t, <2>2 DEF TypeOK, DrvType, PollType, DevType, CallType,
        HwComplete, drvVars, pollVars, devVars, callVars
<1>3. ASSUME PollRead PROVE TypeOK'
  BY <1>3, <1>t DEF TypeOK, PollRead, completedIdx, HwType, DrvType, PollType, DevType, CallType,
     hwVars, drvVars, devVars, callVars
<1>3a. ASSUME PollMisread PROVE TypeOK'
  BY <1>3a, <1>t DEF TypeOK, PollMisread, HwType, DrvType, PollType, DevType, CallType,
     hwVars, drvVars, devVars, callVars
<1>4. ASSUME PollMeta PROVE TypeOK'
  <2>1. add(hwIdx[pollChn], 1) \in Idx(NumBuffs)
    BY <1>t, AddType DEF DrvType, PollType
  <2>2. DrvType'
    BY <1>4, <1>t, <2>1 DEF DrvType, HwType, PollMeta, nxtCachedCmpltIdx
  <2> QED BY <1>4, <1>t, <2>2 DEF TypeOK, HwType, PollType, DevType, CallType,
        PollMeta, nxtCachedCmpltIdx, hwVars, devVars, callVars
<1>5. ASSUME PollPublish PROVE TypeOK'
  <2>1. add(hwIdx[pollChn], 1) \in Idx(NumBuffs)
    BY <1>t, AddType DEF DrvType, PollType
  <2>2. DrvType'
    BY <1>5, <1>t, <2>1 DEF DrvType, PollPublish, nxtCachedCmpltIdx
  <2> QED BY <1>5, <1>t, <2>2 DEF TypeOK, HwType, PollType, DevType, CallType,
        PollPublish, nxtCachedCmpltIdx, hwVars, devVars, callVars
<1>6. ASSUME PollNextChn PROVE TypeOK'
  BY <1>6, <1>t DEF TypeOK, PollNextChn, Channel, HwType, DrvType, PollType, DevType,
     CallType, hwVars, drvVars, devVars, callVars
<1>7. ASSUME NEW c \in Channel, ReadData(c) PROVE TypeOK'
  <2>1. DevType'
    BY <1>7, <1>t DEF DevType, ReadData
  <2> QED BY <1>7, <1>t, <2>1 DEF TypeOK, HwType, DrvType, PollType, CallType,
        ReadData, hwVars, drvVars, pollVars, callVars
<1>8. ASSUME NEW c \in Channel, ReadGetInfo(c) PROVE TypeOK'
  <2>1. DevType'
    BY <1>8, <1>t DEF DevType, DrvType, ReadGetInfo, getInfo
  <2> QED BY <1>8, <1>t, <2>1 DEF TypeOK, HwType, DrvType, PollType, CallType,
        ReadGetInfo, hwVars, drvVars, pollVars, callVars
<1>9. ASSUME NEW c \in Channel, ReadTake(c) PROVE TypeOK'
  <2> DEFINE new == add(devSw[c], held[DevOf[c]] + 1)
             e == [idx |-> new, len |-> meta[c][new]]
             B == [idx : Idx(NumBuffs), len : Nat]
  <2>1. held[DevOf[c]] + 1 \in Nat
    BY <1>t, RecvConstants DEF DevType
  <2>2. new \in Idx(NumBuffs)
    BY <1>t, <2>1, AddType DEF DevType
  <2>3. meta[c][new] \in Nat
    BY <1>t, <2>2 DEF DrvType
  <2>4. e \in B
    BY <2>2, <2>3
  <2>5. out \in [Channel -> Seq(B)]
    BY <1>t DEF CallType
  <2>6. out' = [out EXCEPT ![c] = Append(out[c], e)]
    BY <1>9 DEF ReadTake, counted, newNxtIdx
  <2>7. out' \in [Channel -> Seq(B)]
    <3> HIDE DEF e, B
    <3>1. Append(out[c], e) \in Seq(B)
      BY <2>4, <2>5
    <3> QED BY <3>1, <2>5, <2>6
  <2>8. CallType'
    BY <1>9, <1>t, <2>7 DEF CallType, ReadTake, counted, newNxtIdx
  <2>9. DevType'
    BY <1>9, <1>t, RecvConstants DEF DevType, ReadTake, counted, newNxtIdx
  <2> QED BY <1>9, <1>t, <2>8, <2>9 DEF TypeOK, HwType, DrvType, PollType,
        ReadTake, counted, newNxtIdx, hwVars, drvVars, pollVars
<1>10. ASSUME NEW c \in Channel, NEW n \in 1 .. (NumBuffs - 1), ReadRelease(c, n)
       PROVE  TypeOK'
  <2> DEFINE B == [idx : Idx(NumBuffs), len : Nat]
  <2>1. n \in Nat /\ n \in Idx(NumBuffs)
    BY RecvConstants DEF Idx
  <2>2. add(swIdx[c], n) \in Idx(NumBuffs)
    BY <1>t, <2>1, AddType DEF DrvType
  <2>3. out \in [Channel -> Seq(B)]
    BY <1>t DEF CallType
  <2>4. /\ out' = [out EXCEPT ![c] = SubSeq(out[c], n + 1, Len(out[c]))]
        /\ n \in 1 .. Len(out[c])
    BY <1>10 DEF ReadRelease
  <2>5. out' \in [Channel -> Seq(B)]
    <3> HIDE DEF B
    <3>1. SubSeq(out[c], n + 1, Len(out[c])) \in Seq(B)
      BY <2>3, <2>4
    <3> QED BY <3>1, <2>3, <2>4
  <2>6. CallType'
    <3>1. released \in [Channel -> Nat]
      BY <1>t DEF CallType
    <3>2. released' = released \/ released' = [released EXCEPT ![c] = @ + n]
      BY <1>10 DEF ReadRelease, bufGive, myIdx
    <3>3. released' \in [Channel -> Nat]
      BY <3>1, <3>2, <2>1
    <3> QED BY <3>3, <2>5 DEF CallType
  <2>7. DrvType'
    BY <1>10, <1>t, <2>2 DEF DrvType, ReadRelease, bufGive, myIdx
  <2>8. DevType'
    BY <1>10, <1>t, <2>1 DEF DevType, ReadRelease, bufGive, myIdx
  <2> QED BY <1>10, <1>t, <2>6, <2>7, <2>8 DEF TypeOK, HwType, PollType,
        ReadRelease, hwVars, pollVars
<1>11. ASSUME NEW c \in Channel, GiveSwIdx(c) PROVE TypeOK'
  <2>1. add(swIdx[c], num[c]) \in Idx(NumBuffs)
    BY <1>t, AddType, NumType DEF DrvType
  <2>2. DrvType' /\ DevType'
    BY <1>11, <1>t, <2>1 DEF DrvType, DevType, GiveSwIdx
  <2> QED BY <1>11, <1>t, <2>2 DEF TypeOK, HwType, PollType, CallType,
        GiveSwIdx, hwVars, pollVars, callVars
<1>12. ASSUME NEW c \in Channel, ReleaseAccount(c) PROVE TypeOK'
  <2>1. add(devSw[c], num[c]) \in Idx(NumBuffs)
    BY <1>t, AddType, NumType DEF DevType
  <2>2. held' \in [Device -> Nat]
    BY <1>12, <1>t, NumType, RecvConstants DEF DevType, ReleaseAccount, uncounted, cachedSw
  <2>3. DevType'
    BY <1>12, <1>t, <2>1, <2>2 DEF DevType, ReleaseAccount, uncounted, cachedSw
  <2> QED BY <1>12, <1>t, <2>3 DEF TypeOK, HwType, DrvType, PollType, CallType,
        ReleaseAccount, uncounted, cachedSw, hwVars, drvVars, pollVars, callVars
<1>13. ASSUME NEW c \in Channel, ReleaseAll(c) PROVE TypeOK'
  <2>1. CallType'
    <3> DEFINE B == [idx : Idx(NumBuffs), len : Nat]
    <3>1. out \in [Channel -> Seq(B)] /\ out' = [out EXCEPT ![c] = <<>>]
      BY <1>13, <1>t DEF CallType, ReleaseAll
    <3>2. out' \in [Channel -> Seq(B)]
      <4> HIDE DEF B
      <4> QED BY <3>1
    <3> QED BY <1>13, <1>t, <3>2 DEF CallType, ReleaseAll
  <2>2. DevType'
    BY <1>13, <1>t DEF DevType, ReleaseAll
  <2> QED BY <1>13, <1>t, <2>1, <2>2 DEF TypeOK, HwType, DrvType, PollType,
        ReleaseAll, hwVars, drvVars, pollVars
<1>14. ASSUME NEW c \in Channel, ReleaseAllInfo(c) PROVE TypeOK'
  <2>1. DevType'
    BY <1>14, <1>t DEF DevType, DrvType, ReleaseAllInfo, getInfo
  <2> QED BY <1>14, <1>t, <2>1 DEF TypeOK, HwType, DrvType, PollType, CallType,
        ReleaseAllInfo, hwVars, drvVars, pollVars, callVars
<1>15. ASSUME NEW c \in Channel, ReleaseAllGive(c) PROVE TypeOK'
  <2>1. devDelta(c) \in Idx(NumBuffs)
    BY <1>t, DeltaType DEF DevType, devDelta
  <2>2. devDelta(c) \in Nat
    BY <2>1, RecvConstants DEF Idx
  <2>3. add(swIdx[c], devDelta(c)) \in Idx(NumBuffs)
    BY <1>t, <2>2, AddType DEF DrvType
  <2> HIDE DEF devDelta
  <2>4. DrvType' /\ DevType'
    BY <1>15, <1>t, <2>1, <2>3 DEF DrvType, DevType, ReleaseAllGive, bufGive, myIdx
  <2>5. CallType'
    <3>1. released \in [Channel -> Nat]
      BY <1>t DEF CallType
    <3>2. released' = [released EXCEPT ![c] = @ + devDelta(c)]
      BY <1>15 DEF ReleaseAllGive, bufGive, myIdx
    <3>3. released' \in [Channel -> Nat]
      BY <3>1, <3>2, <2>2
    <3> QED BY <1>15, <1>t, <3>3 DEF CallType, ReleaseAllGive
  <2> QED BY <1>15, <1>t, <2>4, <2>5 DEF TypeOK, HwType, PollType,
        ReleaseAllGive, hwVars, pollVars
<1>16. ASSUME NEW c \in Channel, ReleaseAllDone(c) PROVE TypeOK'
  <2>1. DevType'
    BY <1>16, <1>t, RecvConstants DEF DevType, DrvType, ReleaseAllDone, getInfo
  <2> QED BY <1>16, <1>t, <2>1 DEF TypeOK, HwType, DrvType, PollType, CallType,
        ReleaseAllDone, hwVars, drvVars, pollVars, callVars
<1>17. ASSUME NEW d \in Device, Restart(d) PROVE TypeOK'
  <2>1. CallType'
    <3> DEFINE B == [idx : Idx(NumBuffs), len : Nat]
    <3>1. /\ out \in [Channel -> Seq(B)]
          /\ out' = [c \in Channel |->
                       IF c \in {x \in Channel : DevOf[x] = d} THEN <<>> ELSE out[c]]
      BY <1>17, <1>t DEF CallType, Restart
    <3>2. out' \in [Channel -> Seq(B)]
      <4> HIDE DEF B
      <4> QED BY <3>1
    <3> QED BY <1>17, <1>t, <3>2 DEF CallType, Restart
  <2>2. DevType'
    BY <1>17, <1>t DEF DevType, DrvType, Restart
  <2>3. restarts' \in Nat
    BY <1>17, <1>t DEF Restart
  <2> QED BY <1>17, <1>t, <2>1, <2>2, <2>3 DEF TypeOK, HwType, DrvType, PollType,
        Restart, hwVars, drvVars, pollVars
<1>18. CASE UNCHANGED vars
  BY <1>18, <1>t DEF TypeOK, HwType, DrvType, PollType, DevType, CallType,
     vars, hwVars, drvVars, pollVars, devVars, callVars
<1> QED
  BY <1>1, <1>2, <1>3, <1>3a, <1>4, <1>5, <1>6, <1>7, <1>8, <1>9, <1>10, <1>11,
     <1>12, <1>13, <1>14, <1>15, <1>16, <1>17, <1>18 DEF Next, Poll, Call

(* Every reachable state has the types of the program's variables: indices *)
(* stay on the ring whatever mu2edev, the driver and the card do.          *)
THEOREM TypeCorrect == Spec => []TypeOK
BY InitType, StepType, PTL DEF Spec

-----------------------------------------------------------------------------
(* Distances on the ring.                                                  *)
LEMMA DeltaRange ==
  ASSUME NEW i \in Idx(NumBuffs), NEW s \in Idx(NumBuffs)
  PROVE  delta(i, s) \in 0 .. NumBuffs - 1 /\ (delta(i, s) = 0 <=> i = s)
BY RecvConstants DEF delta, delta_C2S, Idx

LEMMA AddIs ==
  ASSUME NEW i \in Idx(NumBuffs), NEW k \in 0 .. NumBuffs
  PROVE  add(i, k) = IF i + k < NumBuffs THEN i + k ELSE i + k - NumBuffs
<1>1. NumBuffs \in Nat /\ NumBuffs >= 1
  BY RecvConstants
<1> QED BY <1>1, AddForward DEF add

LEMMA DeltaOfAdd ==
  ASSUME NEW s \in Idx(NumBuffs), NEW k \in 0 .. NumBuffs - 1
  PROVE  delta(add(s, k), s) = k
<1>1. NumBuffs \in Nat /\ NumBuffs >= 1 /\ k \in 0 .. NumBuffs
  BY RecvConstants
<1> QED BY <1>1, AddIs DEF delta, delta_C2S, Idx

LEMMA DeltaOfNext ==
  ASSUME NEW i \in Idx(NumBuffs), NEW s \in Idx(NumBuffs)
  PROVE  delta(add(i, 1), s) = IF delta(i, s) = NumBuffs - 1 THEN 0 ELSE delta(i, s) + 1
<1>1. NumBuffs \in Nat /\ NumBuffs >= 1 /\ 1 \in 0 .. NumBuffs
  BY RecvConstants
<1> QED BY <1>1, AddIs DEF delta, delta_C2S, Idx

LEMMA DeltaFromAdd ==
  ASSUME NEW i \in Idx(NumBuffs), NEW s \in Idx(NumBuffs), NEW n \in 0 .. NumBuffs - 1
  PROVE  delta(i, add(s, n)) = IF delta(i, s) >= n THEN delta(i, s) - n
                                                   ELSE delta(i, s) + NumBuffs - n
<1>1. NumBuffs \in Nat /\ NumBuffs >= 1 /\ n \in 0 .. NumBuffs
  BY RecvConstants
<1> QED BY <1>1, AddIs DEF delta, delta_C2S, Idx

LEMMA DeltaInjective ==
  ASSUME NEW i \in Idx(NumBuffs), NEW j \in Idx(NumBuffs), NEW s \in Idx(NumBuffs),
         delta(i, s) = delta(j, s)
  PROVE  i = j
BY RecvConstants DEF delta, delta_C2S, Idx

-----------------------------------------------------------------------------
(* Frames: what each part of the invariant depends on. *)
RingSame(x) == swNext'[x] = swNext[x] /\ released'[x] = released[x]

HwSame(x) ==
  /\ RingSame(x)
  /\ hwNext'[x] = hwNext[x] /\ hwCmplt'[x] = hwCmplt[x] /\ writing'[x] = writing[x]
  /\ data'[x] = data[x] /\ byteCount'[x] = byteCount[x] /\ filled'[x] = filled[x]

DrvSame(x) == hwIdx'[x] = hwIdx[x] /\ swIdx'[x] = swIdx[x] /\ meta'[x] = meta[x]

DevSame(x) ==
  /\ devHw'[x] = devHw[x] /\ devSw'[x] = devSw[x] /\ num'[x] = num[x]
  /\ pc'[x] = pc[x] /\ inAll'[x] = inAll[x] /\ held'[DevOf[x]] = held[DevOf[x]]

LEMMA HwFrame ==
  ASSUME NEW x \in Channel, HwInv(x), HwSame(x)
  PROVE  HwInv(x)'
BY DEF HwInv, HwSame, RingSame, since

LEMMA DrvFrame ==
  ASSUME NEW x \in Channel, DrvInv(x), RingSame(x), DrvSame(x), hwCmplt'[x] = hwCmplt[x],
         devSw'[x] = devSw[x], pc'[x] = "give" <=> pc[x] = "give"
  PROVE  DrvInv(x)'
BY DEF DrvInv, RingSame, DrvSame, since

LEMMA DevFrame ==
  ASSUME NEW x \in Channel, DevInv(x), RingSame(x), hwIdx'[x] = hwIdx[x],
         devHw'[x] = devHw[x], devSw'[x] = devSw[x], num'[x] = num[x], pc'[x] = pc[x]
  PROVE  DevInv(x)'
BY DEF DevInv, RingSame, since, Giving, devDelta

LEMMA LentFrame ==
  ASSUME NEW x \in Channel, LentInv(x), DevSame(x), out'[x] = out[x]
  PROVE  LentInv(x)'
BY DEF LentInv, DevSame, Giving, devDelta

LEMMA OutFrame ==
  ASSUME NEW x \in Channel, OutInv(x), RingSame(x), out'[x] = out[x]
  PROVE  OutInv(x)'
BY DEF OutInv, RingSame, since

LEMMA ChannelFrame ==
  ASSUME NEW x \in Channel, ChannelInv(x), HwSame(x), DrvSame(x), DevSame(x), out'[x] = out[x]
  PROVE  ChannelInv(x)'
BY HwFrame, DrvFrame, DevFrame, LentFrame, OutFrame DEF ChannelInv, HwSame, DrvSame, DevSame

LEMMA PollFrame ==
  ASSUME PollInv, UNCHANGED pollVars, RingSame(pollChn),
         hwIdx'[pollChn] = hwIdx[pollChn], hwCmplt'[pollChn] = hwCmplt[pollChn],
         meta'[pollChn] = meta[pollChn], byteCount'[pollChn] = byteCount[pollChn]
  PROVE  PollInv'
BY DEF PollInv, RingSame, since, pollVars

-----------------------------------------------------------------------------
(* The engine.  The buffer it fills lies just outside the window of those  *)
(* filled and not given back.                                              *)
LEMMA HwNextOutside ==
  ASSUME HwType, DrvType, NEW c \in Channel, HwInv(c), hwNext[c] # swNext[c]
  PROVE  /\ since(c, hwNext[c]) = since(c, hwCmplt[c]) + 1
         /\ since(c, hwCmplt[c]) \in 0 .. NumBuffs - 2
<1>1. /\ hwCmplt[c] \in Idx(NumBuffs)
      /\ hwNext[c] \in Idx(NumBuffs)
      /\ swNext[c] \in Idx(NumBuffs)
  BY DEF HwType, DrvType
<1>2. since(c, hwNext[c]) # 0 /\ since(c, hwCmplt[c]) \in 0 .. NumBuffs - 1
  BY <1>1, DeltaRange DEF since
<1>3. since(c, hwNext[c]) = IF since(c, hwCmplt[c]) = NumBuffs - 1
                            THEN 0 ELSE since(c, hwCmplt[c]) + 1
  BY <1>1, DeltaOfNext DEF since, HwInv
<1> QED BY <1>2, <1>3, RecvConstants

LEMMA HwBeginStep ==
  ASSUME TypeOK, IInv, NEW c \in Channel, HwBegin(c)
  PROVE  IInv'
<1>t. HwType /\ DrvType /\ PollType
  BY DEF TypeOK
<1>i. PollInv /\ \A x \in Channel : ChannelInv(x)
  BY DEF IInv
<1>u. UNCHANGED <<swNext, released, hwNext, hwCmplt, byteCount, filled, drvVars, pollVars,
                  devVars, out>>
  BY DEF HwBegin, drvVars, callVars
<1>1. ASSUME NEW x \in Channel, x # c PROVE ChannelInv(x)'
  <2>1. HwSame(x)
    BY <1>1, <1>t, <1>u DEF HwBegin, HwSame, RingSame, HwType
  <2> QED BY <1>i, <1>u, <2>1, ChannelFrame DEF DrvSame, DevSame, drvVars, devVars
<1>2. HwInv(c)'
  <2>1. hwNext[c] # swNext[c] /\ HwInv(c)
    BY <1>i DEF HwBegin, ChannelInv
  <2>2. ASSUME NEW i \in Idx(NumBuffs), since(c, i) \in 1 .. since(c, hwCmplt[c])
        PROVE  data'[c][i] = data[c][i]
    <3>1. i # hwNext[c]
      BY <1>t, <2>1, <2>2, HwNextOutside
    <3> QED BY <1>t, <3>1 DEF HwBegin, HwType
  <2> QED BY <1>u, <2>1, <2>2 DEF HwInv, since
<1>3. DrvInv(c)' /\ DevInv(c)' /\ LentInv(c)' /\ OutInv(c)'
  BY <1>i, <1>u, DrvFrame, DevFrame, LentFrame, OutFrame
  DEF ChannelInv, RingSame, DrvSame, DevSame, drvVars, devVars
<1>4. PollInv'
  BY <1>i, <1>u, PollFrame DEF RingSame, drvVars, pollVars
<1> QED BY <1>1, <1>2, <1>3, <1>4 DEF IInv, ChannelInv

LEMMA HwCompleteStep ==
  ASSUME TypeOK, IInv, NEW c \in Channel, HwComplete(c)
  PROVE  IInv'
<1>t. HwType /\ DrvType /\ PollType /\ CallType
  BY DEF TypeOK
<1>i. PollInv /\ \A x \in Channel : ChannelInv(x)
  BY DEF IInv
<1>u. UNCHANGED <<swNext, released, drvVars, pollVars, devVars, out>>
  BY DEF HwComplete, drvVars, callVars
<1>1. ASSUME NEW x \in Channel, x # c PROVE ChannelInv(x)'
  <2>1. HwSame(x)
    BY <1>1, <1>t, <1>u DEF HwComplete, HwSame, RingSame, HwType
  <2> QED BY <1>i, <1>u, <2>1, ChannelFrame DEF DrvSame, DevSame, drvVars, devVars
<1> DEFINE w == since(c, hwCmplt[c])
<1>w. /\ hwNext[c] # swNext[c]
      /\ since(c, hwNext[c]) = w + 1
      /\ w \in 0 .. NumBuffs - 2
  <2>1. hwNext[c] # swNext[c] /\ HwInv(c)
    BY <1>i DEF HwComplete, ChannelInv, HwInv
  <2> QED BY <1>t, <2>1, HwNextOutside
<1>c. /\ hwCmplt'[c] = hwNext[c]
      /\ hwNext'[c] = add(hwNext[c], 1)
      /\ ~writing'[c]
      /\ filled'[c] = filled[c] + 1
      /\ \A i \in Idx(NumBuffs) : i # hwNext[c] =>
           data'[c][i] = data[c][i] /\ byteCount'[c][i] = byteCount[c][i]
      /\ data'[c][hwNext[c]] = filled[c] + 1 /\ byteCount'[c][hwNext[c]] = filled[c] + 1
  BY <1>t DEF HwComplete, HwType
<1>s. since(c, hwCmplt[c])' = w + 1
  BY <1>c, <1>u, <1>w DEF since
<1>n. filled[c] \in Nat /\ released[c] \in Nat /\ filled[c] = released[c] + w
  BY <1>t, <1>i DEF HwType, CallType, ChannelInv, HwInv
<1>2. HwInv(c)'
  <2>1. ASSUME NEW i \in Idx(NumBuffs), since(c, i) \in 1 .. w + 1
        PROVE  /\ data'[c][i] = released[c] + since(c, i)
               /\ byteCount'[c][i] = released[c] + since(c, i)
    <3>1. CASE i = hwNext[c]
      BY <3>1, <1>c, <1>w, <1>n
    <3>2. CASE i # hwNext[c]
      <4>1. since(c, i) # w + 1
        BY <3>2, <1>t, <1>w, DeltaInjective DEF since, HwType, DrvType
      <4>2. since(c, i) \in 1 .. w
        BY <2>1, <4>1, <1>w
      <4> QED BY <3>2, <4>2, <1>c, <1>i DEF ChannelInv, HwInv
    <3> QED BY <3>1, <3>2
  <2>2. filled'[c] = released'[c] + since(c, hwCmplt[c])'
    BY <1>c, <1>u, <1>n, <1>s, <1>w
  <2>3. \A i \in Idx(NumBuffs) : since(c, i)' = since(c, i)
    BY <1>u DEF since
  <2>4. ASSUME NEW i \in Idx(NumBuffs), since(c, i)' \in 1 .. since(c, hwCmplt[c])'
        PROVE  /\ data'[c][i] = released'[c] + since(c, i)'
               /\ byteCount'[c][i] = released'[c] + since(c, i)'
    BY <2>1, <2>3, <2>4, <1>u, <1>s
  <2> QED BY <1>c, <2>2, <2>4 DEF HwInv
<1>3. DrvInv(c)'
  <2>1. since(c, hwIdx[c])' = since(c, hwIdx[c]) /\ since(c, hwIdx[c]) <= w
    BY <1>u, <1>i DEF since, ChannelInv, DrvInv, drvVars
  <2>2. since(c, hwIdx[c]) \in 0 .. NumBuffs - 1
    BY <1>t, DeltaRange DEF DrvType, since
  <2>3. since(c, hwIdx[c])' <= since(c, hwCmplt[c])'
    BY <2>1, <2>2, <1>s, <1>w
  <2> QED BY <1>u, <1>i, <2>3 DEF ChannelInv, DrvInv, since, drvVars, devVars
<1>4. DevInv(c)' /\ LentInv(c)' /\ OutInv(c)'
  BY <1>i, <1>u, DevFrame, LentFrame, OutFrame
  DEF ChannelInv, RingSame, DrvSame, DevSame, drvVars, devVars
<1>5. PollInv'
  <2>1. CASE pollChn = c
    <3>1. ASSUME pollPc \in {"loop", "publish"}
          PROVE  /\ since(c, hwIdx[c])' <= since(c, newCmpltIdx)'
                 /\ since(c, newCmpltIdx)' <= since(c, hwCmplt[c])'
      <4>1. /\ since(c, hwIdx[c]) <= since(c, newCmpltIdx)
            /\ since(c, newCmpltIdx) <= w
        BY <2>1, <3>1, <1>i DEF PollInv
      <4>2. since(c, newCmpltIdx) \in 0 .. NumBuffs - 1
        BY <1>t, DeltaRange DEF DrvType, PollType, since
      <4>3. since(c, newCmpltIdx) <= w + 1
        BY <4>1, <4>2, <1>w
      <4> QED BY <4>1, <4>3, <1>s, <1>u DEF since, drvVars, pollVars
    <3>2. ASSUME pollPc = "publish"
          PROVE  byteCount'[c][add(hwIdx[c], 1)] = byteCount[c][add(hwIdx[c], 1)]
      <4> DEFINE j == add(hwIdx[c], 1)
      <4>1. j \in Idx(NumBuffs)
        BY <1>t, AddType DEF DrvType
      <4>2. /\ since(c, hwIdx[c]) <= since(c, newCmpltIdx)
            /\ since(c, newCmpltIdx) <= w
            /\ newCmpltIdx # hwIdx[c]
        BY <2>1, <3>2, <1>i DEF PollInv
      <4>3. /\ since(c, newCmpltIdx) \in 0 .. NumBuffs - 1
            /\ since(c, hwIdx[c]) \in 0 .. NumBuffs - 1
        BY <1>t, DeltaRange DEF DrvType, PollType, since
      <4>4. since(c, newCmpltIdx) # since(c, hwIdx[c])
        BY <4>2, <1>t, DeltaInjective DEF since, DrvType, PollType
      <4>5. since(c, hwIdx[c]) < w
        BY <4>2, <4>3, <4>4, <1>w
      <4>6. since(c, j) = IF since(c, hwIdx[c]) = NumBuffs - 1 THEN 0 ELSE since(c, hwIdx[c]) + 1
        BY <1>t, DeltaOfNext DEF since, DrvType
      <4>7. since(c, j) # w + 1
        BY <4>3, <4>5, <4>6, <1>w
      <4>8. j # hwNext[c]
        BY <4>7, <1>w
      <4> QED BY <4>1, <4>8, <1>c
    <3> QED BY <2>1, <3>1, <3>2, <1>i, <1>u DEF PollInv, drvVars, pollVars
  <2>2. CASE pollChn # c
    BY <2>2, <1>i, <1>u, <1>t, PollFrame DEF RingSame, drvVars, pollVars, HwComplete, HwType,
         PollType
  <2> QED BY <2>1, <2>2
<1> QED BY <1>1, <1>2, <1>3, <1>4, <1>5 DEF IInv, ChannelInv

-----------------------------------------------------------------------------
(* poll_packets. *)
LEMMA PollReadStep ==
  ASSUME TypeOK, IInv, PollRead
  PROVE  IInv'
<1>t. HwType /\ DrvType /\ PollType
  BY DEF TypeOK
<1>i. PollInv /\ \A x \in Channel : ChannelInv(x)
  BY DEF IInv
<1>u. UNCHANGED <<hwVars, drvVars, devVars, callVars, pollChn>>
  BY DEF PollRead, completedIdx
<1>1. ASSUME NEW x \in Channel PROVE ChannelInv(x)'
  BY <1>i, <1>u, ChannelFrame
  DEF HwSame, RingSame, DrvSame, DevSame, hwVars, drvVars, devVars, callVars
<1>2. PollInv'
  <2>1. PICK c \in Channel : c = pollChn
    BY <1>t DEF PollType
  <2>2. since(c, hwIdx[c]) <= since(c, hwCmplt[c])
    BY <1>i DEF ChannelInv, DrvInv
  <2>3. since(c, hwCmplt[c]) \in 0 .. NumBuffs - 1
    BY <1>t, DeltaRange DEF HwType, DrvType, since
  <2>4. /\ since(c, newCmpltIdx)' = since(c, hwCmplt[c])
        /\ since(c, hwIdx[c])' = since(c, hwIdx[c])
        /\ since(c, hwCmplt[c])' = since(c, hwCmplt[c])
    BY <1>u, <2>1 DEF PollRead, completedIdx, since, hwVars, drvVars
  <2> QED BY <1>u, <2>1, <2>2, <2>3, <2>4, RecvConstants DEF PollRead, completedIdx, PollInv
<1> QED BY <1>1, <1>2 DEF IInv

LEMMA PollMisreadStep ==
  ASSUME TypeOK, IInv, PollMisread
  PROVE  IInv'
<1>t. HwType /\ DrvType /\ PollType
  BY DEF TypeOK
<1>i. PollInv /\ \A x \in Channel : ChannelInv(x)
  BY DEF IInv
<1>u. UNCHANGED <<hwVars, drvVars, devVars, callVars, pollChn>>
  BY DEF PollMisread
<1>1. ASSUME NEW x \in Channel PROVE ChannelInv(x)'
  BY <1>i, <1>u, ChannelFrame
  DEF HwSame, RingSame, DrvSame, DevSame, hwVars, drvVars, devVars, callVars
<1>2. PollInv'
  <2>1. PICK c \in Channel : c = pollChn
    BY <1>t DEF PollType
  <2>2. since(c, hwIdx[c]) <= since(c, hwCmplt[c])
    BY <1>i DEF ChannelInv, DrvInv
  <2>3. since(c, hwIdx[c]) \in 0 .. NumBuffs - 1
    BY <1>t, DeltaRange DEF HwType, DrvType, since
  <2>4. /\ since(c, newCmpltIdx)' = since(c, hwIdx[c])
        /\ since(c, hwIdx[c])' = since(c, hwIdx[c])
        /\ since(c, hwCmplt[c])' = since(c, hwCmplt[c])
    BY <1>u, <2>1 DEF PollMisread, since, hwVars, drvVars
  <2> QED BY <1>u, <2>1, <2>2, <2>3, <2>4, RecvConstants DEF PollMisread, PollInv
<1> QED BY <1>1, <1>2 DEF IInv

(* The next descriptor poll_packets looks at is one the card has filled.   *)
LEMMA PollNextInside ==
  ASSUME HwType, DrvType, PollType, PollInv, DrvInv(pollChn), pollPc \in {"loop", "publish"},
         newCmpltIdx # hwIdx[pollChn]
  PROVE  LET c == pollChn
             nxt == add(hwIdx[c], 1)
         IN
         /\ nxt \in Idx(NumBuffs)
         /\ since(c, nxt) = since(c, hwIdx[c]) + 1
         /\ since(c, nxt) <= since(c, newCmpltIdx)
         /\ since(c, newCmpltIdx) <= since(c, hwCmplt[c])
         /\ since(c, hwIdx[c]) \in 0 .. NumBuffs - 2
<1> DEFINE c == pollChn
           nxt == add(hwIdx[c], 1)
<1>1. nxt \in Idx(NumBuffs)
  BY AddType DEF DrvType, PollType
<1>2. /\ since(c, hwIdx[c]) \in 0 .. NumBuffs - 1
      /\ since(c, newCmpltIdx) \in 0 .. NumBuffs - 1
  BY DeltaRange DEF since, DrvType, PollType
<1>3. since(c, newCmpltIdx) # since(c, hwIdx[c])
  BY DeltaInjective DEF since, DrvType, PollType
<1>4. /\ since(c, hwIdx[c]) <= since(c, newCmpltIdx)
      /\ since(c, newCmpltIdx) <= since(c, hwCmplt[c])
  BY DEF PollInv
<1>5. since(c, nxt) = IF since(c, hwIdx[c]) = NumBuffs - 1 THEN 0 ELSE since(c, hwIdx[c]) + 1
  BY DeltaOfNext DEF since, DrvType, PollType
<1> QED BY <1>1, <1>2, <1>3, <1>4, <1>5, RecvConstants

LEMMA PollMetaStep ==
  ASSUME TypeOK, IInv, PollMeta
  PROVE  IInv'
<1>t. HwType /\ DrvType /\ PollType
  BY DEF TypeOK
<1>c. PICK c \in Channel : c = pollChn
  BY <1>t DEF PollType
<1> DEFINE nxt == add(hwIdx[c], 1)
<1>i. PollInv /\ \A x \in Channel : ChannelInv(x)
  BY DEF IInv
<1>u. UNCHANGED <<hwVars, devVars, callVars, pollChn, newCmpltIdx, swNext, hwIdx, swIdx>>
  BY DEF PollMeta, nxtCachedCmpltIdx
<1>m. /\ \A x \in Channel : x # c => meta'[x] = meta[x]
      /\ \A i \in Idx(NumBuffs) : i # nxt => meta'[c][i] = meta[c][i]
      /\ nxt \in Idx(NumBuffs) => meta'[c][nxt] = byteCount[c][nxt]
  BY <1>c, <1>t DEF PollMeta, nxtCachedCmpltIdx, DrvType
<1>n. /\ nxt \in Idx(NumBuffs)
      /\ since(c, nxt) = since(c, hwIdx[c]) + 1
      /\ since(c, hwIdx[c]) \in 0 .. NumBuffs - 2
  BY <1>c, <1>t, <1>i, PollNextInside DEF PollMeta, nxtCachedCmpltIdx, ChannelInv
<1>1. ASSUME NEW x \in Channel, x # c PROVE ChannelInv(x)'
  BY <1>1, <1>i, <1>u, <1>m, ChannelFrame
  DEF HwSame, RingSame, DrvSame, DevSame, hwVars, devVars, callVars
<1>2. DrvInv(c)'
  <2>1. ASSUME NEW i \in Idx(NumBuffs), since(c, i) \in 1 .. since(c, hwIdx[c])
        PROVE  meta'[c][i] = released[c] + since(c, i)
    <3>1. i # nxt
      BY <2>1, <1>n
    <3> QED BY <2>1, <3>1, <1>m, <1>i, <1>t DEF ChannelInv, DrvInv
  <2> QED BY <2>1, <1>u, <1>i, <1>t DEF ChannelInv, DrvInv, since, hwVars, devVars, callVars
<1>3. HwInv(c)' /\ DevInv(c)' /\ LentInv(c)' /\ OutInv(c)'
  <2> QED BY <1>i, <1>u, <1>t, HwFrame, DevFrame, LentFrame, OutFrame
      DEF ChannelInv, HwSame, RingSame, DevSame, hwVars, devVars, callVars
<1>4. PollInv'
  BY <1>c, <1>i, <1>u, <1>m, <1>n DEF PollInv, PollMeta, nxtCachedCmpltIdx, since, hwVars
<1>5. ChannelInv(c)'
  <2> QED BY <1>2, <1>3 DEF ChannelInv
<1> QED
  <2> QED BY <1>1, <1>5, <1>4 DEF IInv

LEMMA PollPublishStep ==
  ASSUME TypeOK, IInv, PollPublish
  PROVE  IInv'
<1>t. HwType /\ DrvType /\ PollType
  BY DEF TypeOK
<1>c. PICK c \in Channel : c = pollChn
  BY <1>t DEF PollType
<1> DEFINE nxt == add(hwIdx[c], 1)
<1>i. PollInv /\ \A x \in Channel : ChannelInv(x)
  BY DEF IInv
<1>u. UNCHANGED <<hwVars, devVars, callVars, pollChn, newCmpltIdx, swNext, meta, swIdx>>
  BY DEF PollPublish, nxtCachedCmpltIdx
<1>h. /\ \A x \in Channel : x # c => hwIdx'[x] = hwIdx[x]
      /\ hwIdx'[c] = nxt
  BY <1>c, <1>t DEF PollPublish, nxtCachedCmpltIdx, DrvType
<1>n. /\ nxt \in Idx(NumBuffs)
      /\ since(c, nxt) = since(c, hwIdx[c]) + 1
      /\ since(c, nxt) <= since(c, newCmpltIdx)
      /\ since(c, newCmpltIdx) <= since(c, hwCmplt[c])
      /\ since(c, hwIdx[c]) \in 0 .. NumBuffs - 2
  BY <1>c, <1>t, <1>i, PollNextInside DEF PollPublish, nxtCachedCmpltIdx, ChannelInv, PollInv
<1>s. /\ since(c, hwIdx[c])' = since(c, hwIdx[c]) + 1
      /\ since(c, newCmpltIdx)' = since(c, newCmpltIdx)
      /\ since(c, hwCmplt[c])' = since(c, hwCmplt[c])
  BY <1>u, <1>h, <1>n DEF since, hwVars
<1>w. /\ since(c, newCmpltIdx) \in 0 .. NumBuffs - 1
      /\ since(c, hwCmplt[c]) \in 0 .. NumBuffs - 1
      /\ since(c, devHw[c]) \in 0 .. NumBuffs - 1
  BY <1>t, DeltaRange DEF TypeOK, since, HwType, DrvType, PollType, DevType
<1>1. ASSUME NEW x \in Channel, x # c PROVE ChannelInv(x)'
  BY <1>1, <1>i, <1>u, <1>h, ChannelFrame
  DEF HwSame, RingSame, DrvSame, DevSame, hwVars, devVars, callVars
<1>2. DrvInv(c)'
  <2>1. ASSUME NEW i \in Idx(NumBuffs), since(c, i) \in 1 .. since(c, hwIdx[c]) + 1
        PROVE  meta[c][i] = released[c] + since(c, i)
    <3>1. CASE i = nxt
      <4>1. meta[c][nxt] = byteCount[c][nxt]
        BY <1>c, <1>i DEF PollInv, PollPublish, nxtCachedCmpltIdx
      <4>2. since(c, nxt) \in 1 .. since(c, hwCmplt[c])
        BY <1>n, <1>w
      <4> QED BY <3>1, <4>1, <4>2, <1>n, <1>t, <1>i DEF ChannelInv, HwInv
    <3>2. CASE i # nxt
      <4>1. since(c, i) # since(c, nxt)
        BY <3>2, <1>n, <1>t, DeltaInjective DEF since, DrvType
      <4>2. since(c, i) \in 1 .. since(c, hwIdx[c])
        BY <2>1, <4>1, <1>n
      <4> QED BY <4>2, <1>i, <1>t DEF ChannelInv, DrvInv
    <3> QED BY <3>1, <3>2
  <2>2. \A i \in Idx(NumBuffs) : since(c, i)' = since(c, i)
    BY <1>u DEF since
  <2>3. since(c, hwIdx[c])' <= since(c, hwCmplt[c])'
    BY <1>s, <1>n, <1>w
  <2>4. UNCHANGED <<swIdx, swNext, devSw, pc, meta, released>>
    BY <1>u DEF devVars, callVars
  <2>5. swIdx'[c] = IF pc'[c] = "give" THEN devSw'[c] ELSE swNext'[c]
    BY <2>4, <1>t, <1>i DEF ChannelInv, DrvInv
  <2>6. ASSUME NEW i \in Idx(NumBuffs), since(c, i)' \in 1 .. since(c, hwIdx[c])'
        PROVE  meta'[c][i] = released'[c] + since(c, i)'
    BY <2>1, <2>2, <2>4, <2>6, <1>s
  <2> QED BY <1>u, <2>3, <2>5, <2>6 DEF DrvInv
<1>3. DevInv(c)'
  <2>1. since(c, devHw[c]) <= since(c, hwIdx[c]) /\ since(c, devHw[c])' = since(c, devHw[c])
    BY <1>i, <1>t, <1>u DEF ChannelInv, DevInv, since, devVars
  <2>2. since(c, devHw[c])' <= since(c, hwIdx[c])'
    BY <2>1, <1>s, <1>n, <1>w
  <2> QED BY <2>2, <1>i, <1>t, <1>u DEF ChannelInv, DevInv, since, Giving, devDelta, devVars
<1>4. HwInv(c)' /\ LentInv(c)' /\ OutInv(c)'
  <2> QED BY <1>i, <1>u, <1>t, HwFrame, LentFrame, OutFrame
      DEF ChannelInv, HwSame, RingSame, DevSame, hwVars, devVars, callVars
<1>5. PollInv'
  <2>1. since(c, hwIdx[c])' <= since(c, newCmpltIdx)'
    BY <1>s, <1>n
  <2>2. since(c, newCmpltIdx)' <= since(c, hwCmplt[c])'
    BY <1>s, <1>n
  <2> QED BY <1>c, <2>1, <2>2, <1>u DEF PollInv, PollPublish, nxtCachedCmpltIdx
<1>6. ChannelInv(c)'
  <2> QED BY <1>2, <1>3, <1>4 DEF ChannelInv
<1> QED
  <2> QED BY <1>1, <1>6, <1>5 DEF IInv

LEMMA PollNextChnStep ==
  ASSUME TypeOK, IInv, PollNextChn
  PROVE  IInv'
<1>i. PollInv /\ \A x \in Channel : ChannelInv(x)
  BY DEF IInv
<1>u. UNCHANGED <<hwVars, drvVars, devVars, callVars>>
  BY DEF PollNextChn
<1>1. ASSUME NEW x \in Channel PROVE ChannelInv(x)'
  BY <1>i, <1>u, ChannelFrame
  DEF HwSame, RingSame, DrvSame, DevSame, hwVars, drvVars, devVars, callVars
<1>2. PollInv'
  BY DEF PollNextChn, PollInv
<1> QED BY <1>1, <1>2 DEF IInv

-----------------------------------------------------------------------------
(* The library. *)
LEMMA OtherObject ==
  ASSUME OwnObjects, NEW x \in Channel, NEW c \in Channel, x # c
  PROVE  DevOf[x] # DevOf[c]
BY DEF OwnObjects, Channel, DAQ, DCS

(* A step of channel c's reader that leaves the card and poll_packets      *)
(* alone, and gives nothing back.                                          *)
ReaderStep(c) ==
  /\ UNCHANGED <<hwVars, swNext, hwIdx, meta, pollVars, released>>
  /\ \A x \in Channel : x # c => DevSame(x) /\ out'[x] = out[x] /\ swIdx'[x] = swIdx[x]

LEMMA ReaderFrame ==
  ASSUME IInv, NEW c \in Channel, ReaderStep(c),
         DevInv(c)', LentInv(c)', OutInv(c)', DrvInv(c)'
  PROVE  IInv'
<1>i. PollInv /\ \A x \in Channel : ChannelInv(x)
  BY DEF IInv
<1>1. ASSUME NEW x \in Channel, x # c PROVE ChannelInv(x)'
  BY <1>1, <1>i, ChannelFrame DEF ReaderStep, HwSame, RingSame, DrvSame, hwVars
<1>2. HwInv(c)'
  BY <1>i, HwFrame DEF ReaderStep, ChannelInv, HwSame, RingSame, hwVars
<1>3. PollInv'
  BY <1>i, PollFrame DEF ReaderStep, RingSame, hwVars
<1> QED BY <1>1, <1>2, <1>3 DEF IInv, ChannelInv

(* Outside a release, the cached and the driver's swIdx are SW_NEXT.       *)
LEMMA NotGiving ==
  ASSUME DrvType, DevType, NEW c \in Channel, DevInv(c), DrvInv(c), ~Giving(c)
  PROVE  devSw[c] = swNext[c] /\ swIdx[c] = swNext[c] /\ devDelta(c) = since(c, devHw[c])
<1>1. devSw[c] = swNext[c]
  BY DeltaRange DEF DevInv, DrvType, DevType
<1> QED BY <1>1 DEF DrvInv, Giving, devDelta, since

LEMMA ReadDataStep ==
  ASSUME TypeOK, IInv, NEW c \in Channel, ReadData(c)
  PROVE  IInv'
<1>t. DevType /\ CallType
  BY DEF TypeOK
<1>i. ChannelInv(c)
  BY DEF IInv
<1>1. /\ pc[c] = "idle"
      /\ pc'[c] = IF devDelta(c) > held[DevOf[c]] THEN "take" ELSE "getinfo"
      /\ c = DCS => out[c] = <<>>
      /\ UNCHANGED <<hwVars, drvVars, pollVars, callVars, devHw, devSw, held, num, inAll>>
  BY <1>t DEF ReadData, DevType
<1>2. ReaderStep(c)
  BY <1>1, <1>t DEF ReaderStep, DevSame, ReadData, DevType, drvVars, callVars
<1>3. DrvInv(c)' /\ OutInv(c)'
  BY <1>1, <1>i, DrvFrame, OutFrame DEF ChannelInv, RingSame, DrvSame, hwVars, drvVars, callVars
<1>4. DevInv(c)'
  BY <1>1, <1>i DEF ChannelInv, DevInv, Giving, devDelta, since, drvVars
<1>5. LentInv(c)'
  BY <1>1, <1>i DEF ChannelInv, LentInv, Giving, devDelta, callVars
<1> QED BY <1>2, <1>3, <1>4, <1>5, ReaderFrame

(* GET_INFO brings the cached channel info up to the driver's.             *)
LEMMA GetInfoFresh ==
  ASSUME TypeOK, IInv, NEW c \in Channel, ~Giving(c), pc'[c] \in {"idle", "take", "all", "allgive"},
         getInfo(c), UNCHANGED <<drvVars, released>>
  PROVE  /\ DevInv(c)' /\ devDelta(c)' = drvDelta(c) /\ devSw'[c] = devSw[c]
         /\ devDelta(c) <= devDelta(c)'
<1>t. DrvType /\ DevType
  BY DEF TypeOK
<1>i. ChannelInv(c)
  BY DEF IInv
<1>1. devSw[c] = swNext[c] /\ swIdx[c] = swNext[c] /\ devDelta(c) = since(c, devHw[c])
  BY <1>t, <1>i, NotGiving DEF ChannelInv
<1>2. devHw'[c] = hwIdx[c] /\ devSw'[c] = swIdx[c] /\ swNext'[c] = swNext[c] /\ hwIdx'[c] = hwIdx[c]
  BY <1>t DEF getInfo, DevType, drvVars
<1>3. devDelta(c)' = delta(hwIdx[c], swIdx[c])
  BY <1>2 DEF devDelta
<1>4. delta(swNext'[c], devSw'[c]) = 0
  BY <1>1, <1>2, <1>t, DeltaRange DEF DrvType
<1>5. ~Giving(c)'
  BY DEF Giving
<1>6. since(c, devHw[c])' = since(c, hwIdx[c]) /\ since(c, hwIdx[c])' = since(c, hwIdx[c])
  BY <1>2 DEF since
<1>7. since(c, hwIdx[c]) \in 0 .. NumBuffs - 1
  BY <1>t, DeltaRange DEF DrvType, since
<1>8. DevInv(c)'
  BY <1>4, <1>5, <1>6, <1>7 DEF DevInv
<1>9. devDelta(c) <= devDelta(c)'
  BY <1>1, <1>3, <1>i DEF ChannelInv, DevInv, since
<1> QED BY <1>1, <1>2, <1>3, <1>8, <1>9 DEF drvDelta

LEMMA ReadGetInfoStep ==
  ASSUME TypeOK, IInv, NEW c \in Channel, ReadGetInfo(c)
  PROVE  IInv'
<1>t. DrvType /\ DevType /\ CallType
  BY DEF TypeOK
<1>i. ChannelInv(c)
  BY DEF IInv
<1>1. /\ pc[c] = "getinfo"
      /\ pc'[c] = IF drvDelta(c) > held[DevOf[c]] THEN "take" ELSE "idle"
      /\ getInfo(c)
      /\ UNCHANGED <<hwVars, drvVars, pollVars, callVars, held, num, inAll>>
  BY <1>t DEF ReadGetInfo, DevType
<1>2. ReaderStep(c)
  BY <1>1, <1>t DEF ReaderStep, DevSame, ReadGetInfo, getInfo, DevType, drvVars, callVars
<1>3. DevInv(c)' /\ devDelta(c)' = drvDelta(c) /\ devSw'[c] = devSw[c] /\ devDelta(c) <= devDelta(c)'
  BY <1>1, GetInfoFresh DEF Giving, callVars
<1>4. DrvInv(c)' /\ OutInv(c)'
  BY <1>1, <1>3, <1>i, DrvFrame, OutFrame DEF ChannelInv, RingSame, DrvSame, hwVars, drvVars,
       callVars
<1>5. LentInv(c)'
  <2>1. devDelta(c) \in Nat /\ devDelta(c)' \in Nat /\ Len(out[c]) \in Nat
    <3>1. devDelta(c) \in Idx(NumBuffs) /\ drvDelta(c) \in Idx(NumBuffs)
      BY <1>t, DeltaType DEF devDelta, drvDelta, DrvType, DevType
    <3> QED BY <3>1, <1>3, <1>t, RecvConstants DEF Idx, CallType
  <2>2. Len(out[c]) <= devDelta(c)'
    BY <1>1, <1>3, <1>i, <2>1 DEF ChannelInv, LentInv, Giving
  <2> QED BY <1>1, <1>3, <1>i, <2>1, <2>2 DEF ChannelInv, LentInv, Giving, callVars
<1> QED BY <1>2, <1>3, <1>4, <1>5, ReaderFrame

LEMMA ReadTakeStep ==
  ASSUME OwnObjects, TypeOK, IInv, NEW c \in Channel, ReadTake(c)
  PROVE  IInv'
<1> DEFINE d == DevOf[c]
           k == held[d] + 1
           new == add(devSw[c], k)
           e == [idx |-> new, len |-> meta[c][new]]
<1>t. DrvType /\ DevType /\ CallType
  BY DEF TypeOK
<1>i. ChannelInv(c)
  BY DEF IInv
<1>n. NumBuffs \in Nat /\ NumBuffs >= 2 /\ d \in Device
  BY RecvConstants
<1>1. /\ pc[c] = "take" /\ pc'[c] = "idle"
      /\ out'[c] = Append(out[c], e)
      /\ UNCHANGED <<devHw, devSw, num, inAll, hwVars, drvVars, pollVars, released>>
  BY <1>t DEF ReadTake, counted, newNxtIdx, DevType, CallType
<1>2. held' = [held EXCEPT ![d] = IF c = DAQ THEN @ + 1 ELSE @]
  BY DEF ReadTake, counted, newNxtIdx
<1>3. ReaderStep(c)
  <2>1. ASSUME NEW x \in Channel, x # c PROVE held'[DevOf[x]] = held[DevOf[x]]
    BY <2>1, <1>2, <1>t, <1>n, OtherObject, RecvConstants DEF DevType
  <2> QED BY <1>1, <1>t, <2>1 DEF ReaderStep, DevSame, ReadTake, counted, newNxtIdx, DevType,
       CallType, drvVars
<1>4. held[d] \in Nat /\ held'[d] = (IF c = DAQ THEN held[d] + 1 ELSE held[d])
  BY <1>2, <1>t, <1>n DEF DevType
<1>5. held[d] = Len(out[c]) /\ ~inAll[c] /\ ~Giving(c) /\ held[d] < devDelta(c)
  <2>1. c = DAQ \/ c = DCS
    BY DEF Channel
  <2> QED BY <1>1, <1>i, <2>1, <1>t DEF ChannelInv, LentInv, Giving, CallType
<1>6. devSw[c] = swNext[c] /\ devDelta(c) = since(c, devHw[c])
  BY <1>5, <1>t, <1>i, NotGiving DEF ChannelInv
<1>7. /\ devDelta(c) \in 0 .. NumBuffs - 1
      /\ since(c, hwIdx[c]) \in 0 .. NumBuffs - 1
      /\ devDelta(c) <= since(c, hwIdx[c])
  BY <1>6, <1>t, <1>i, DeltaRange DEF since, DrvType, DevType, ChannelInv, DevInv
<1>8. k \in 1 .. NumBuffs - 1 /\ k <= devDelta(c)
  BY <1>4, <1>5, <1>7, <1>n
<1>9. new \in Idx(NumBuffs) /\ since(c, new) = k
  <2>1. k \in Nat /\ k \in 0 .. NumBuffs - 1 /\ swNext[c] \in Idx(NumBuffs)
    BY <1>8, <1>n, <1>t DEF DrvType
  <2> HIDE DEF k
  <2>2. add(swNext[c], k) \in Idx(NumBuffs) /\ delta(add(swNext[c], k), swNext[c]) = k
    BY <2>1, AddType, DeltaOfAdd
  <2> QED BY <2>2, <1>6 DEF since
<1>10. meta[c][new] = released[c] + k
  <2>1. since(c, new) \in 1 .. since(c, hwIdx[c])
    BY <1>7, <1>8, <1>9
  <2> QED BY <2>1, <1>9, <1>i DEF ChannelInv, DrvInv
<1>11. OutInv(c)'
  <2> HIDE DEF new, k
  <2>1. out[c] \in Seq([idx : Idx(NumBuffs), len : Nat])
    BY <1>t DEF CallType
  <2>2. Len(out'[c]) = k
    BY <1>1, <1>5, <2>1 DEF k
  <2>3. ASSUME NEW m \in 1 .. k
        PROVE  since(c, out'[c][m].idx) = m /\ out'[c][m].len = released[c] + m
    <3>1. CASE m = k
      <4>1. out'[c][m] = e
        BY <3>1, <1>1, <1>5, <2>1 DEF k
      <4> QED BY <3>1, <4>1, <1>9, <1>10
    <3>2. CASE m # k
      <4>1. m \in 1 .. Len(out[c])
        BY <3>2, <1>4, <1>5 DEF k
      <4>2. out'[c][m] = out[c][m]
        BY <4>1, <1>1, <2>1
      <4> QED BY <4>1, <4>2, <1>i DEF ChannelInv, OutInv
    <3> QED BY <3>1, <3>2
  <2> QED BY <1>1, <2>2, <2>3 DEF OutInv, since, drvVars
<1>12. DrvInv(c)'
  BY <1>1, <1>i, DrvFrame DEF ChannelInv, RingSame, DrvSame, hwVars, drvVars
<1>13. DevInv(c)'
  BY <1>1, <1>i DEF ChannelInv, DevInv, Giving, devDelta, since, drvVars
<1>14. LentInv(c)'
  <2>1. Len(out'[c]) = Len(out[c]) + 1
    BY <1>1, <1>t DEF CallType
  <2>2. devDelta(c)' = devDelta(c)
    BY <1>1 DEF devDelta
  <2>3. c = DCS => out[c] = <<>>
    BY <1>1, <1>i DEF ChannelInv, LentInv
  <2> HIDE DEF d
  <2>4. ~Giving(c)' /\ ~inAll'[c] /\ pc'[c] = "idle"
    BY <1>1, <1>5 DEF Giving
  <2>5. c = DCS => held'[d] = 0 /\ Len(out'[c]) <= 1
    BY <2>1, <2>3, <1>4, <1>i DEF ChannelInv, LentInv, DCS, DAQ, d
  <2>6. c = DAQ => held'[d] = Len(out'[c])
    BY <2>1, <1>4, <1>5
  <2>7. Len(out'[c]) <= devDelta(c)'
    BY <2>1, <2>2, <1>5, <1>8
  <2>8. Len(out'[c]) \in Nat
    BY <2>1, <1>4, <1>5
  <2> QED BY <2>4, <2>5, <2>6, <2>7, <2>8 DEF LentInv, d
<1> QED BY <1>3, <1>11, <1>12, <1>13, <1>14, ReaderFrame

LEMMA GiveSwIdxStep ==
  ASSUME TypeOK, IInv, NEW c \in Channel, GiveSwIdx(c)
  PROVE  IInv'
<1>t. DrvType /\ DevType /\ CallType
  BY DEF TypeOK
<1>i. ChannelInv(c)
  BY DEF IInv
<1>1. /\ pc[c] = "give" /\ pc'[c] = "account"
      /\ swIdx'[c] = add(swIdx[c], num[c])
      /\ UNCHANGED <<hwVars, swNext, hwIdx, meta, pollVars, callVars, devHw, devSw, held, num, inAll>>
  BY <1>t DEF GiveSwIdx, DevType, DrvType
<1>2. ReaderStep(c)
  BY <1>1, <1>t DEF ReaderStep, DevSame, GiveSwIdx, DevType, DrvType, callVars
<1>3. swIdx'[c] = swNext[c]
  <2>1. swIdx[c] = devSw[c] /\ delta(swNext[c], devSw[c]) = num[c]
    BY <1>1, <1>i DEF ChannelInv, DrvInv, DevInv, Giving
  <2>2. devSw[c] \in Idx(NumBuffs) /\ swNext[c] \in Idx(NumBuffs) /\ num[c] \in 0 .. NumBuffs - 1
    BY <1>t DEF DrvType, DevType, Idx
  <2>3. num[c] \in Nat
    BY <1>t, NumType
  <2>4. delta(add(devSw[c], num[c]), devSw[c]) = num[c] /\ add(devSw[c], num[c]) \in Idx(NumBuffs)
    BY <2>2, <2>3, DeltaOfAdd, AddType
  <2> QED BY <1>1, <2>1, <2>2, <2>4, DeltaInjective
<1>4. DrvInv(c)'
  BY <1>1, <1>3, <1>i DEF ChannelInv, DrvInv, since, hwVars, callVars
<1>5. OutInv(c)'
  BY <1>1, <1>i, OutFrame DEF ChannelInv, RingSame, callVars
<1>6. DevInv(c)'
  BY <1>1, <1>i DEF ChannelInv, DevInv, Giving, devDelta, since
<1>7. LentInv(c)'
  BY <1>1, <1>i DEF ChannelInv, LentInv, Giving, devDelta, callVars
<1> QED BY <1>2, <1>4, <1>5, <1>6, <1>7, ReaderFrame

LEMMA ReleaseAccountStep ==
  ASSUME OwnObjects, TypeOK, IInv, NEW c \in Channel, ReleaseAccount(c)
  PROVE  IInv'
<1> DEFINE d == DevOf[c]
<1>t. DrvType /\ DevType /\ CallType
  BY DEF TypeOK
<1>i. ChannelInv(c)
  BY DEF IInv
<1>n. NumBuffs \in Nat /\ NumBuffs >= 2 /\ d \in Device
  BY RecvConstants
<1>1. /\ pc[c] = "account" /\ pc'[c] = IF inAll[c] THEN "all" ELSE "idle"
      /\ devSw'[c] = add(devSw[c], num[c])
      /\ UNCHANGED <<hwVars, drvVars, pollVars, callVars, devHw, num, inAll>>
  BY <1>t DEF ReleaseAccount, uncounted, cachedSw, DevType
<1>2. held' = [held EXCEPT ![d] = IF num[c] <= @ THEN @ - num[c] ELSE 0]
  BY DEF ReleaseAccount, uncounted, cachedSw
<1>3. ReaderStep(c)
  <2>1. ASSUME NEW x \in Channel, x # c PROVE held'[DevOf[x]] = held[DevOf[x]]
    BY <2>1, <1>2, <1>t, <1>n, OtherObject, RecvConstants DEF DevType
  <2> QED BY <1>1, <1>t, <2>1 DEF ReaderStep, DevSame, ReleaseAccount, uncounted, cachedSw,
       DevType, callVars, drvVars
<1>4. held[d] \in Nat /\ held'[d] = (IF num[c] <= held[d] THEN held[d] - num[c] ELSE 0)
  BY <1>2, <1>t, <1>n DEF DevType
<1>5. /\ devSw[c] \in Idx(NumBuffs) /\ swNext[c] \in Idx(NumBuffs) /\ devHw[c] \in Idx(NumBuffs)
      /\ num[c] \in 0 .. NumBuffs - 1 /\ num[c] \in Nat
  BY <1>t, NumType DEF DrvType, DevType, Idx
<1>6. /\ delta(swNext[c], devSw[c]) = num[c] /\ num[c] <= devDelta(c) /\ Giving(c)
      /\ since(c, devHw[c]) <= since(c, hwIdx[c])
  BY <1>1, <1>i DEF ChannelInv, DevInv, Giving
<1>7. devSw'[c] = swNext[c]
  <2>1. delta(add(devSw[c], num[c]), devSw[c]) = num[c] /\ add(devSw[c], num[c]) \in Idx(NumBuffs)
    BY <1>5, DeltaOfAdd, AddType
  <2> QED BY <1>1, <1>5, <1>6, <2>1, DeltaInjective
<1>8. devDelta(c)' = devDelta(c) - num[c] /\ devDelta(c) \in 0 .. NumBuffs - 1
  <2>1. devDelta(c)' = delta(devHw[c], add(devSw[c], num[c]))
    BY <1>1 DEF devDelta
  <2>2. devDelta(c) \in 0 .. NumBuffs - 1
    BY <1>5, DeltaRange DEF devDelta
  <2>3. delta(devHw[c], add(devSw[c], num[c])) =
          IF devDelta(c) >= num[c] THEN devDelta(c) - num[c] ELSE devDelta(c) + NumBuffs - num[c]
    BY <1>5, DeltaFromAdd DEF devDelta
  <2> QED BY <2>1, <2>2, <2>3, <1>6, <1>5
<1>9. ~Giving(c)' /\ (pc'[c] = "idle" <=> ~inAll[c]) /\ (pc'[c] = "all" <=> inAll[c])
  BY <1>1 DEF Giving
<1>10. DrvInv(c)'
  <2>1. swIdx[c] = swNext[c]
    BY <1>1, <1>i DEF ChannelInv, DrvInv
  <2> QED BY <1>1, <2>1, <1>9, <1>i DEF ChannelInv, DrvInv, since, hwVars, drvVars, callVars
<1>11. OutInv(c)'
  BY <1>1, <1>i, OutFrame DEF ChannelInv, RingSame, callVars, drvVars
<1>12. DevInv(c)'
  <2>1. delta(swNext'[c], devSw'[c]) = 0
    BY <1>1, <1>5, <1>7, DeltaRange DEF drvVars
  <2> QED BY <1>1, <1>6, <1>9, <2>1 DEF DevInv, since, drvVars
<1>13. LentInv(c)'
  <2>1. Len(out[c]) \in Nat /\ out'[c] = out[c]
    BY <1>1, <1>t DEF CallType, callVars
  <2>2. Len(out[c]) + num[c] <= devDelta(c) /\ (inAll[c] => out[c] = <<>>)
    BY <1>6, <1>i DEF ChannelInv, LentInv
  <2>3. Len(out[c]) <= devDelta(c)'
    BY <2>1, <2>2, <1>5, <1>8
  <2>4. c = DAQ /\ ~inAll[c] => held'[d] = Len(out[c])
    <3>1. c = DAQ /\ ~inAll[c] => held[d] = Len(out[c]) + num[c]
      BY <1>6, <1>i DEF ChannelInv, LentInv
    <3> HIDE DEF d
    <3> QED BY <3>1, <2>1, <1>4, <1>5
  <2>5. c = DCS => held'[d] = 0 /\ Len(out[c]) <= 1
    <3>1. c = DCS => held[d] = 0 /\ Len(out[c]) <= 1
      BY <1>i DEF ChannelInv, LentInv
    <3> HIDE DEF d
    <3> QED BY <3>1, <1>4, <1>5
  <2> QED BY <2>1, <2>2, <2>3, <2>4, <2>5, <1>1, <1>9 DEF LentInv
<1> QED BY <1>3, <1>10, <1>11, <1>12, <1>13, ReaderFrame

LEMMA ReleaseAllStep ==
  ASSUME TypeOK, IInv, NEW c \in Channel, ReleaseAll(c)
  PROVE  IInv'
<1>t. DrvType /\ DevType /\ CallType
  BY DEF TypeOK
<1>i. ChannelInv(c)
  BY DEF IInv
<1>1. /\ pc[c] = "idle" /\ pc'[c] = "all" /\ inAll'[c] = TRUE /\ out'[c] = <<>>
      /\ UNCHANGED <<hwVars, drvVars, pollVars, released, devHw, devSw, held, num>>
  BY <1>t DEF ReleaseAll, DevType, CallType
<1>2. ReaderStep(c)
  BY <1>1, <1>t DEF ReaderStep, DevSame, ReleaseAll, DevType, CallType, drvVars
<1>3. DrvInv(c)'
  BY <1>1, <1>i, DrvFrame DEF ChannelInv, RingSame, DrvSame, hwVars, drvVars
<1>4. OutInv(c)'
  BY <1>1 DEF OutInv
<1>5. DevInv(c)'
  BY <1>1, <1>i DEF ChannelInv, DevInv, Giving, devDelta, since, drvVars
<1>6. LentInv(c)'
  <2>1. devDelta(c) \in 0 .. NumBuffs - 1
    BY <1>t, DeltaRange DEF devDelta, DevType
  <2>2. devDelta(c)' = devDelta(c)
    BY <1>1 DEF devDelta
  <2> QED BY <1>1, <1>i, <2>1, <2>2 DEF ChannelInv, LentInv, Giving, DAQ, DCS
<1> QED BY <1>2, <1>3, <1>4, <1>5, <1>6, ReaderFrame

LEMMA ReleaseAllInfoStep ==
  ASSUME TypeOK, IInv, NEW c \in Channel, ReleaseAllInfo(c)
  PROVE  IInv'
<1>t. DrvType /\ DevType /\ CallType
  BY DEF TypeOK
<1>i. ChannelInv(c)
  BY DEF IInv
<1>1. /\ pc[c] = "all" /\ pc'[c] = "allgive"
      /\ getInfo(c)
      /\ UNCHANGED <<hwVars, drvVars, pollVars, callVars, held, num, inAll>>
  BY <1>t DEF ReleaseAllInfo, DevType
<1>2. ReaderStep(c)
  BY <1>1, <1>t DEF ReaderStep, DevSame, ReleaseAllInfo, getInfo, DevType, callVars, drvVars
<1>3. DevInv(c)' /\ devSw'[c] = devSw[c] /\ devDelta(c)' = drvDelta(c)
  BY <1>1, GetInfoFresh DEF Giving, callVars
<1>4. DrvInv(c)' /\ OutInv(c)'
  BY <1>1, <1>3, <1>i, DrvFrame, OutFrame DEF ChannelInv, RingSame, DrvSame, hwVars, drvVars,
       callVars
<1>5. LentInv(c)'
  <2>1. drvDelta(c) \in 0 .. NumBuffs - 1
    BY <1>t, DeltaRange DEF drvDelta, DrvType
  <2> QED BY <1>1, <1>3, <1>i, <2>1 DEF ChannelInv, LentInv, Giving, callVars
<1> QED BY <1>2, <1>3, <1>4, <1>5, ReaderFrame

LEMMA ReleaseAllDoneStep ==
  ASSUME OwnObjects, TypeOK, IInv, NEW c \in Channel, ReleaseAllDone(c)
  PROVE  IInv'
<1>t. DrvType /\ DevType /\ CallType
  BY DEF TypeOK
<1>i. ChannelInv(c)
  BY DEF IInv
<1>1. /\ pc[c] = "all" /\ pc'[c] = "idle" /\ inAll'[c] = FALSE
      /\ getInfo(c)
      /\ UNCHANGED <<hwVars, drvVars, pollVars, callVars, num>>
      /\ held' = [held EXCEPT ![DevOf[c]] = IF c = DAQ THEN 0 ELSE @]
  BY <1>t DEF ReleaseAllDone, DevType
<1>2. ReaderStep(c)
  <2>1. ASSUME NEW x \in Channel, x # c PROVE held'[DevOf[x]] = held[DevOf[x]]
    BY <2>1, <1>1, <1>t, OtherObject, RecvConstants DEF DevType
  <2> QED BY <1>1, <1>t, <2>1 DEF ReaderStep, DevSame, ReleaseAllDone, getInfo, DevType,
          callVars, drvVars
<1>3. DevInv(c)' /\ devSw'[c] = devSw[c] /\ devDelta(c)' = drvDelta(c)
  BY <1>1, GetInfoFresh DEF Giving, callVars
<1>4. DrvInv(c)' /\ OutInv(c)'
  BY <1>1, <1>3, <1>i, DrvFrame, OutFrame DEF ChannelInv, RingSame, DrvSame, hwVars, drvVars,
       callVars
<1>5. LentInv(c)'
  <2>1. drvDelta(c) \in 0 .. NumBuffs - 1
    BY <1>t, DeltaRange DEF drvDelta, DrvType
  <2>2. held'[DevOf[c]] = IF c = DAQ THEN 0 ELSE held[DevOf[c]]
    BY <1>1, <1>t, RecvConstants DEF DevType
  <2>3. out'[c] = <<>> /\ Len(out'[c]) = 0
    BY <1>1, <1>i DEF ChannelInv, LentInv, callVars
  <2>4. c = DCS => held'[DevOf[c]] = 0
    BY <2>2, <1>i DEF ChannelInv, LentInv, DAQ, DCS
  <2> QED BY <1>1, <1>3, <2>1, <2>2, <2>3, <2>4 DEF LentInv, Giving
<1> QED BY <1>2, <1>3, <1>4, <1>5, ReaderFrame

-----------------------------------------------------------------------------
(* BUF_GIVE moves the window on by n buffers, all of them published; what  *)
(* is left of the caller's buffers moves down by n.                        *)
LEMMA GiveShift ==
  ASSUME TypeOK, IInv, NEW c \in Channel, NEW n \in 0 .. devDelta(c), ~Giving(c), bufGive(c, n),
         UNCHANGED <<hwVars, pollVars, hwIdx, swIdx, meta, devHw, devSw, held, inAll>>,
         \A x \in Channel : x # c => out'[x] = out[x],
         Len(out'[c]) \in Nat,
         \A k \in 1 .. Len(out'[c]) : k + n \in 1 .. Len(out[c]) /\ out'[c][k] = out[c][k + n],
         LentInv(c)'
  PROVE  IInv'
<1>t. HwType /\ DrvType /\ PollType /\ DevType /\ CallType
  BY DEF TypeOK
<1>i. PollInv /\ \A x \in Channel : ChannelInv(x)
  BY DEF IInv
<1>1. devSw[c] = swNext[c] /\ swIdx[c] = swNext[c] /\ devDelta(c) = since(c, devHw[c])
  BY <1>t, <1>i, NotGiving DEF ChannelInv
<1>2. /\ devDelta(c) \in 0 .. NumBuffs - 1
      /\ since(c, hwIdx[c]) \in 0 .. NumBuffs - 1
      /\ since(c, hwCmplt[c]) \in 0 .. NumBuffs - 1
      /\ devDelta(c) <= since(c, hwIdx[c])
      /\ since(c, hwIdx[c]) <= since(c, hwCmplt[c])
  BY <1>1, <1>t, <1>i, DeltaRange DEF since, HwType, DrvType, DevType, ChannelInv, DevInv,
       DrvInv
<1>n. n \in Nat /\ n \in 0 .. NumBuffs - 1 /\ NumBuffs \in Nat /\ NumBuffs >= 2
  BY <1>2, RecvConstants
<1>3. /\ swNext'[c] = add(swNext[c], n) /\ num'[c] = n /\ pc'[c] = "give"
      /\ released'[c] = released[c] + n /\ released[c] \in Nat
      /\ swNext[c] \in Idx(NumBuffs)
  BY <1>1, <1>t DEF bufGive, myIdx, DrvType, DevType, CallType
<1>s. ASSUME NEW i \in Idx(NumBuffs)
      PROVE  /\ since(c, i) \in 0 .. NumBuffs - 1
             /\ delta(i, swNext'[c]) = IF since(c, i) >= n THEN since(c, i) - n
                                      ELSE since(c, i) + NumBuffs - n
  BY <1>3, <1>n, DeltaRange, DeltaFromAdd DEF since
<1>w. ASSUME NEW i \in Idx(NumBuffs), NEW m \in n .. NumBuffs - 1,
             delta(i, swNext'[c]) \in 1 .. m - n
      PROVE  /\ since(c, i) \in 1 .. m
             /\ released[c] + since(c, i) = released'[c] + delta(i, swNext'[c])
  <2>1. /\ since(c, i) \in 0 .. NumBuffs - 1
        /\ delta(i, swNext'[c]) = IF since(c, i) >= n THEN since(c, i) - n
                                  ELSE since(c, i) + NumBuffs - n
    BY <1>s
  <2>2. since(c, i) >= n /\ delta(i, swNext'[c]) = since(c, i) - n
    BY <2>1, <1>w, <1>n
  <2>3. since(c, i) \in 1 .. m
    BY <2>1, <2>2, <1>w, <1>n
  <2> QED BY <2>1, <2>2, <2>3, <1>n, <1>3
<1>4. /\ delta(hwIdx[c], swNext'[c]) = since(c, hwIdx[c]) - n
      /\ delta(hwCmplt[c], swNext'[c]) = since(c, hwCmplt[c]) - n
      /\ delta(devHw[c], swNext'[c]) = devDelta(c) - n
  <2>1. hwIdx[c] \in Idx(NumBuffs) /\ hwCmplt[c] \in Idx(NumBuffs) /\ devHw[c] \in Idx(NumBuffs)
    BY <1>t DEF HwType, DrvType, DevType
  <2>2. since(c, hwIdx[c]) >= n /\ since(c, hwCmplt[c]) >= n /\ since(c, devHw[c]) >= n
    BY <1>1, <1>2, <1>n
  <2> QED BY <2>1, <2>2, <1>s, <1>1
<1>5. ASSUME NEW x \in Channel, x # c PROVE ChannelInv(x)'
  <2>1. /\ swNext'[x] = swNext[x] /\ released'[x] = released[x]
        /\ pc'[x] = pc[x] /\ num'[x] = num[x] /\ out'[x] = out[x]
    BY <1>5, <1>t DEF bufGive, myIdx, DrvType, DevType, CallType
  <2> QED BY <2>1, <1>i, ChannelFrame DEF HwSame, RingSame, DrvSame, DevSame, hwVars
<1>6. HwInv(c)'
  <2>1. HwInv(c) /\ UNCHANGED <<hwNext, hwCmplt, writing, data, byteCount, filled>>
    BY <1>i DEF ChannelInv, hwVars
  <2>2. filled[c] = released'[c] + delta(hwCmplt[c], swNext'[c])
    BY <2>1, <1>2, <1>3, <1>4, <1>n DEF HwInv
  <2>3. ASSUME writing[c] PROVE hwNext[c] # swNext'[c]
    <3>1. since(c, hwNext[c]) = since(c, hwCmplt[c]) + 1
      BY <2>1, <2>3, <1>t, HwNextOutside DEF HwInv
    <3>2. delta(hwNext[c], swNext'[c]) # 0
      BY <3>1, <1>t, <1>s, <1>n, <1>2 DEF HwType
    <3>3. swNext'[c] \in Idx(NumBuffs)
      BY <1>3, <1>n, AddType
    <3> QED BY <3>2, <3>3, <1>t, DeltaRange DEF HwType
  <2>4. ASSUME NEW i \in Idx(NumBuffs),
               delta(i, swNext'[c]) \in 1 .. delta(hwCmplt[c], swNext'[c])
        PROVE  /\ data[c][i] = released'[c] + delta(i, swNext'[c])
               /\ byteCount[c][i] = released'[c] + delta(i, swNext'[c])
    <3> DEFINE m == since(c, hwCmplt[c])
    <3>1. m \in n .. NumBuffs - 1 /\ delta(i, swNext'[c]) \in 1 .. m - n
      BY <2>4, <1>2, <1>4, <1>n
    <3>2. since(c, i) \in 1 .. m /\ released[c] + since(c, i) = released'[c] + delta(i, swNext'[c])
      BY <3>1, <1>w
    <3> QED BY <3>2, <2>1 DEF HwInv
  <2> QED BY <2>1, <2>2, <2>3, <2>4 DEF HwInv, since
<1>7. DrvInv(c)'
  <2>1. DrvInv(c) /\ UNCHANGED <<hwIdx, swIdx, meta, hwCmplt, devSw>>
    BY <1>i DEF ChannelInv, hwVars
  <2>2. delta(hwIdx[c], swNext'[c]) <= delta(hwCmplt[c], swNext'[c])
    BY <1>2, <1>4, <1>n
  <2>3. ASSUME NEW i \in Idx(NumBuffs),
               delta(i, swNext'[c]) \in 1 .. delta(hwIdx[c], swNext'[c])
        PROVE  meta[c][i] = released'[c] + delta(i, swNext'[c])
    <3> DEFINE m == since(c, hwIdx[c])
    <3>1. m \in n .. NumBuffs - 1 /\ delta(i, swNext'[c]) \in 1 .. m - n
      BY <2>3, <1>2, <1>4, <1>n
    <3>2. since(c, i) \in 1 .. m /\ released[c] + since(c, i) = released'[c] + delta(i, swNext'[c])
      BY <3>1, <1>w
    <3> QED BY <3>2, <2>1 DEF DrvInv
  <2> QED BY <2>1, <2>2, <2>3, <1>1, <1>3 DEF DrvInv, since
<1>8. DevInv(c)'
  <2>1. delta(swNext'[c], devSw[c]) = n
    BY <1>1, <1>3, <1>n, DeltaOfAdd
  <2>2. delta(devHw[c], swNext'[c]) <= delta(hwIdx[c], swNext'[c])
    BY <1>2, <1>4, <1>n
  <2>3. n <= devDelta(c) /\ devDelta(c)' = devDelta(c)
    BY <1>2 DEF devDelta
  <2> QED BY <2>1, <2>2, <2>3, <1>3 DEF DevInv, Giving, since
<1>9. OutInv(c)'
  <2>1. ASSUME NEW k \in 1 .. Len(out'[c])
        PROVE  /\ delta(out'[c][k].idx, swNext'[c]) = k
               /\ out'[c][k].len = released'[c] + k
    <3>1. /\ k + n \in 1 .. Len(out[c]) /\ out'[c][k] = out[c][k + n]
          /\ since(c, out[c][k + n].idx) = k + n
          /\ out[c][k + n].len = released[c] + (k + n)
      BY <1>i DEF ChannelInv, OutInv
    <3>2. out[c][k + n].idx \in Idx(NumBuffs)
      <4> DEFINE B == [idx : Idx(NumBuffs), len : Nat]
      <4>1. out[c] \in Seq(B)
        BY <1>t DEF CallType
      <4>2. out[c][k + n] \in B
        <5> HIDE DEF B
        <5> QED BY <3>1, <4>1
      <4> QED BY <4>2
    <3> DEFINE j == out[c][k + n].idx
    <3>3. delta(j, swNext'[c]) = IF since(c, j) >= n THEN since(c, j) - n
                                 ELSE since(c, j) + NumBuffs - n
      BY <3>2, <1>s
    <3>4. k \in Nat
      OBVIOUS
    <3> HIDE DEF j
    <3>5. delta(j, swNext'[c]) = k
      BY <3>1, <3>3, <3>4, <1>n DEF j
    <3>6. out'[c][k].len = released'[c] + k
      BY <3>1, <3>4, <1>n, <1>3
    <3> QED BY <3>1, <3>5, <3>6 DEF j
  <2> QED BY <2>1 DEF OutInv, since
<1>10. PollInv'
  <2>1. CASE pollChn = c
    <3>1. ASSUME pollPc \in {"loop", "publish"}
          PROVE  /\ delta(hwIdx[c], swNext'[c]) <= delta(newCmpltIdx, swNext'[c])
                 /\ delta(newCmpltIdx, swNext'[c]) <= delta(hwCmplt[c], swNext'[c])
      <4>1. /\ since(c, hwIdx[c]) <= since(c, newCmpltIdx)
            /\ since(c, newCmpltIdx) <= since(c, hwCmplt[c])
        BY <2>1, <3>1, <1>i DEF PollInv
      <4>2. newCmpltIdx \in Idx(NumBuffs)
        BY <1>t DEF PollType
      <4>3. since(c, newCmpltIdx) >= n
        BY <4>1, <4>2, <1>s, <1>n, <1>2
      <4>4. delta(newCmpltIdx, swNext'[c]) = since(c, newCmpltIdx) - n
        BY <4>2, <4>3, <1>s
      <4> QED BY <4>1, <4>2, <4>4, <1>s, <1>n, <1>2, <1>4
    <3> QED BY <2>1, <3>1, <1>i DEF PollInv, since, pollVars, hwVars
  <2>2. CASE pollChn # c
    <3>1. RingSame(pollChn)
      BY <2>2, <1>t DEF RingSame, bufGive, myIdx, PollType, DrvType, CallType
    <3> QED BY <3>1, <1>i, PollFrame DEF hwVars, pollVars
  <2> QED BY <2>1, <2>2
<1> QED BY <1>5, <1>6, <1>7, <1>8, <1>9, <1>10 DEF IInv, ChannelInv

LEMMA ReadReleaseStep ==
  ASSUME TypeOK, IInv, NEW c \in Channel, NEW n \in 1 .. (NumBuffs - 1), ReadRelease(c, n)
  PROVE  IInv'
<1> DEFINE B == [idx : Idx(NumBuffs), len : Nat]
<1>t. DrvType /\ DevType /\ CallType
  BY DEF TypeOK
<1>i. ChannelInv(c)
  BY DEF IInv
<1>o. out \in [Channel -> Seq(B)]
  BY <1>t DEF CallType
<1> HIDE DEF B
<1>1. /\ pc[c] = "idle" /\ n \in 1 .. Len(out[c])
      /\ out' = [out EXCEPT ![c] = SubSeq(@, n + 1, Len(@))]
      /\ UNCHANGED <<devHw, devSw, held, inAll, hwIdx, swIdx, meta, hwVars, pollVars>>
  BY DEF ReadRelease
<1>2. Len(out[c]) <= devDelta(c) /\ ~Giving(c) /\ ~inAll[c]
  BY <1>1, <1>i DEF ChannelInv, LentInv, Giving
<1>3. n \in Nat /\ Len(out[c]) \in Nat /\ devDelta(c) \in 0 .. NumBuffs - 1 /\ n <= Len(out[c])
  BY <1>1, <1>o, <1>t, DeltaRange DEF devDelta, DevType
<1>4. n <= devDelta(c) /\ n \in 0 .. devDelta(c)
  BY <1>2, <1>3
<1>5. bufGive(c, n)
  BY <1>4 DEF ReadRelease
<1>6. /\ Len(out'[c]) = Len(out[c]) - n /\ Len(out'[c]) \in Nat
      /\ \A k \in 1 .. Len(out'[c]) : k + n \in 1 .. Len(out[c]) /\ out'[c][k] = out[c][k + n]
  BY <1>1, <1>3, <1>o
<1>7. \A x \in Channel : x # c => out'[x] = out[x]
  BY <1>1, <1>o
<1>8. LentInv(c)'
  <2>1. /\ pc'[c] = "give" /\ num'[c] = n /\ inAll'[c] = inAll[c] /\ devDelta(c)' = devDelta(c)
        /\ held'[DevOf[c]] = held[DevOf[c]]
    BY <1>1, <1>5, <1>t DEF bufGive, myIdx, DevType, devDelta
  <2>2. Giving(c)'
    BY <2>1 DEF Giving
  <2>3. Len(out'[c]) + n = Len(out[c])
    BY <1>3, <1>6
  <2>4. c = DAQ => held[DevOf[c]] = Len(out[c])
    BY <1>2, <1>i DEF ChannelInv, LentInv
  <2>5. c = DCS => held[DevOf[c]] = 0 /\ Len(out'[c]) <= 1
    BY <1>3, <1>6, <1>i DEF ChannelInv, LentInv
  <2> QED BY <2>1, <2>2, <2>3, <2>4, <2>5, <1>2 DEF LentInv
<1> QED BY <1>1, <1>2, <1>4, <1>5, <1>6, <1>7, <1>8, GiveShift

LEMMA ReleaseAllGiveStep ==
  ASSUME TypeOK, IInv, NEW c \in Channel, ReleaseAllGive(c)
  PROVE  IInv'
<1> DEFINE n == devDelta(c)
<1>t. DrvType /\ DevType /\ CallType
  BY DEF TypeOK
<1>i. ChannelInv(c)
  BY DEF IInv
<1>1. /\ pc[c] = "allgive" /\ bufGive(c, n)
      /\ UNCHANGED <<devHw, devSw, held, inAll, hwIdx, swIdx, meta, out, hwVars, pollVars>>
  BY DEF ReleaseAllGive
<1>2. n \in 0 .. NumBuffs - 1 /\ n \in 0 .. devDelta(c)
  BY <1>t, DeltaRange, RecvConstants DEF devDelta, DevType
<1>3. inAll[c] /\ out[c] = <<>> /\ Len(out[c]) = 0 /\ ~Giving(c)
  BY <1>1, <1>i DEF ChannelInv, LentInv, Giving
<1>4. LentInv(c)'
  <2>1. /\ pc'[c] = "give" /\ num'[c] = n /\ inAll'[c] /\ out'[c] = <<>>
        /\ devDelta(c)' = n /\ held'[DevOf[c]] = held[DevOf[c]]
    BY <1>1, <1>3, <1>t DEF bufGive, myIdx, DevType, devDelta
  <2> HIDE DEF n
  <2>2. c = DCS => held[DevOf[c]] = 0
    BY <1>i DEF ChannelInv, LentInv
  <2> QED BY <2>1, <2>2, <1>2 DEF LentInv, Giving
<1>5. \A k \in 1 .. Len(out'[c]) : k + n \in 1 .. Len(out[c]) /\ out'[c][k] = out[c][k + n]
  BY <1>1, <1>3
<1>6. Len(out'[c]) \in Nat /\ \A x \in Channel : x # c => out'[x] = out[x]
  BY <1>1, <1>3
<1> HIDE DEF n
<1> QED BY <1>1, <1>2, <1>3, <1>4, <1>5, <1>6, GiveShift

-----------------------------------------------------------------------------
(* A reader dies and comes back. *)
LEMMA RestartStep ==
  ASSUME OwnObjects, TypeOK, IInv, NEW d \in Device, Restart(d)
  PROVE  IInv'
<1>t. DrvType /\ DevType /\ CallType
  BY DEF TypeOK
<1>i. PollInv /\ \A x \in Channel : ChannelInv(x)
  BY DEF IInv
<1>u. UNCHANGED <<hwVars, drvVars, pollVars, released, num>>
  BY DEF Restart
<1>h. held' = [held EXCEPT ![d] = 0]
  BY DEF Restart
<1>1. ASSUME NEW c \in Channel, DevOf[c] # d PROVE ChannelInv(c)'
  <2>1. /\ devHw'[c] = devHw[c] /\ devSw'[c] = devSw[c] /\ pc'[c] = pc[c]
        /\ inAll'[c] = inAll[c] /\ out'[c] = out[c]
    BY <1>1 DEF Restart
  <2>2. held'[DevOf[c]] = held[DevOf[c]]
    BY <1>1, <1>h, <1>t, RecvConstants DEF DevType
  <2> QED BY <2>1, <2>2, <1>i, <1>u, ChannelFrame
      DEF HwSame, RingSame, DrvSame, DevSame, hwVars, drvVars
<1>2. ASSUME NEW c \in Channel, DevOf[c] = d PROVE ChannelInv(c)'
  <2>1. /\ devHw'[c] = hwIdx[c] /\ devSw'[c] = swIdx[c] /\ pc'[c] = "idle"
        /\ inAll'[c] = FALSE /\ out'[c] = <<>> /\ pc[c] # "give"
    BY <1>2 DEF Restart
  <2>2. held'[DevOf[c]] = 0
    BY <1>2, <1>h, <1>t DEF DevType
  <2>3. swIdx[c] = swNext[c]
    BY <2>1, <1>i DEF ChannelInv, DrvInv
  <2>4. HwInv(c)'
    BY <1>i, <1>u, HwFrame DEF ChannelInv, HwSame, RingSame, hwVars, drvVars
  <2>5. DrvInv(c)'
    BY <1>i, <1>u, <2>1, <2>3 DEF ChannelInv, DrvInv, since, hwVars, drvVars
  <2>6. since(c, hwIdx[c]) \in 0 .. NumBuffs - 1
    BY <1>t, DeltaRange DEF since, DrvType
  <2>7. DevInv(c)'
    <3>1. delta(swNext[c], swIdx[c]) = 0
      BY <2>3, <1>t, DeltaRange DEF DrvType
    <3>2. since(c, devHw[c])' = since(c, hwIdx[c]) /\ since(c, hwIdx[c])' = since(c, hwIdx[c])
      BY <2>1, <1>u DEF since, drvVars
    <3> QED BY <3>1, <3>2, <2>1, <2>6, <1>u DEF DevInv, Giving, drvVars
  <2>8. LentInv(c)'
    <3>1. devDelta(c)' = drvDelta(c)
      BY <2>1 DEF devDelta, drvDelta
    <3>2. drvDelta(c) \in 0 .. NumBuffs - 1
      BY <1>t, DeltaRange DEF drvDelta, DrvType
    <3> QED BY <2>1, <2>2, <3>1, <3>2 DEF LentInv, Giving
  <2>9. OutInv(c)'
    BY <2>1 DEF OutInv
  <2> QED BY <2>4, <2>5, <2>7, <2>8, <2>9 DEF ChannelInv
<1>3. PollInv'
  BY <1>i, <1>u, PollFrame DEF RingSame, hwVars, drvVars
<1> QED BY <1>1, <1>2, <1>3 DEF IInv

-----------------------------------------------------------------------------
LEMMA InitInv == Init => IInv
<1> SUFFICES ASSUME Init PROVE IInv
  OBVIOUS
<1>n. NumBuffs \in Nat /\ NumBuffs >= 2 /\ NumBuffs - 1 \in Idx(NumBuffs)
  BY RecvConstants DEF Idx
<1>1. PollInv
  BY DEF Init, PollInv
<1>2. ASSUME NEW c \in Channel PROVE ChannelInv(c)
  <2>1. delta(NumBuffs - 1, NumBuffs - 1) = 0
    BY <1>n, DeltaRange
  <2>2. add(NumBuffs - 1, 1) = 0
    BY <1>n, AddIs
  <2>3. HwInv(c)
    BY <2>1, <2>2 DEF Init, HwInv, since
  <2>4. DrvInv(c) /\ DevInv(c) /\ OutInv(c)
    BY <2>1 DEF Init, DrvInv, DevInv, OutInv, Giving, devDelta, since
  <2>5. held[DevOf[c]] = 0
    BY RecvConstants DEF Init
  <2>6. LentInv(c)
    BY <2>1, <2>5 DEF Init, LentInv, Giving, devDelta
  <2> QED BY <2>3, <2>4, <2>6 DEF ChannelInv
<1> QED BY <1>1, <1>2 DEF IInv

LEMMA StepInv == OwnObjects /\ TypeOK /\ IInv /\ [Next]_vars => IInv'
<1> SUFFICES ASSUME OwnObjects, TypeOK, IInv, [Next]_vars PROVE IInv'
  OBVIOUS
<1>1. CASE UNCHANGED vars
  <2>1. ASSUME NEW c \in Channel PROVE ChannelInv(c)'
    BY <1>1, ChannelFrame
    DEF IInv, vars, HwSame, RingSame, DrvSame, DevSame, hwVars, drvVars, devVars, callVars
  <2>2. PollInv'
    BY <1>1, PollFrame DEF IInv, vars, RingSame, hwVars, drvVars, pollVars, callVars
  <2> QED BY <2>1, <2>2 DEF IInv
<1>2. CASE Next
  BY <1>2, HwBeginStep, HwCompleteStep, PollReadStep, PollMisreadStep, PollMetaStep,
     PollPublishStep,
     PollNextChnStep, ReadDataStep, ReadGetInfoStep, ReadTakeStep, ReadReleaseStep,
     GiveSwIdxStep, ReleaseAccountStep, ReleaseAllStep, ReleaseAllInfoStep,
     ReleaseAllGiveStep, ReleaseAllDoneStep, RestartStep
  DEF Next, Poll, Call
<1> QED BY <1>1, <1>2

(* When each channel is read through a mu2edev object of its own, the      *)
(* indices of the card, the driver and the library agree at every step on  *)
(* which buffer holds which packet.                                        *)
THEOREM Invariance ==
  ASSUME OwnObjects
  PROVE  Spec => []IInv
<1>1. Init => TypeOK /\ IInv
  BY InitType, InitInv
<1>2. TypeOK /\ IInv /\ [Next]_vars => (TypeOK /\ IInv)'
  BY StepType, StepInv
<1> QED BY <1>1, <1>2, PTL DEF Spec

-----------------------------------------------------------------------------
(* What the invariant says about the properties. *)
LEMMA WindowOrder ==
  ASSUME TypeOK, IInv, NEW c \in Channel
  PROVE  /\ since(c, hwIdx[c]) \in 0 .. NumBuffs - 1
         /\ since(c, hwCmplt[c]) \in 0 .. NumBuffs - 1
         /\ since(c, hwIdx[c]) <= since(c, hwCmplt[c])
BY DeltaRange DEF TypeOK, HwType, DrvType, IInv, ChannelInv, DrvInv, since

(* The buffers a caller holds are among the published ones.                *)
LEMMA LentArePublished ==
  ASSUME TypeOK, IInv, NEW c \in Channel
  PROVE  Len(out[c]) \in Nat /\ Len(out[c]) <= since(c, hwIdx[c])
<1>t. DrvType /\ DevType /\ CallType
  BY DEF TypeOK
<1>i. ChannelInv(c)
  BY DEF IInv
<1>1. /\ Len(out[c]) \in Nat /\ num[c] \in Nat /\ num[c] \in 0 .. NumBuffs - 1
      /\ devSw[c] \in Idx(NumBuffs) /\ devHw[c] \in Idx(NumBuffs) /\ swNext[c] \in Idx(NumBuffs)
      /\ hwIdx[c] \in Idx(NumBuffs)
  BY <1>t, NumType DEF CallType, DrvType, DevType, Idx
<1>2. devDelta(c) \in 0 .. NumBuffs - 1 /\ since(c, hwIdx[c]) \in 0 .. NumBuffs - 1
  BY <1>1, DeltaRange DEF devDelta, since
<1>3. since(c, devHw[c]) <= since(c, hwIdx[c])
  BY <1>i DEF ChannelInv, DevInv
<1>4. CASE ~Giving(c)
  <2>1. Len(out[c]) <= devDelta(c)
    BY <1>1, <1>4, <1>i DEF ChannelInv, LentInv
  <2>2. devDelta(c) = since(c, devHw[c])
    BY <1>4, <1>t, <1>i, NotGiving DEF ChannelInv
  <2> QED BY <2>1, <2>2, <1>1, <1>2, <1>3
<1>5. CASE Giving(c)
  <2>1. /\ Len(out[c]) + num[c] <= devDelta(c) /\ num[c] <= devDelta(c)
        /\ delta(swNext[c], devSw[c]) = num[c]
    BY <1>5, <1>i DEF ChannelInv, LentInv, DevInv
  <2>2. swNext[c] = add(devSw[c], num[c])
    <3>1. delta(add(devSw[c], num[c]), devSw[c]) = num[c] /\ add(devSw[c], num[c]) \in Idx(NumBuffs)
      BY <1>1, DeltaOfAdd, AddType
    <3> QED BY <3>1, <2>1, <1>1, DeltaInjective
  <2>3. since(c, devHw[c]) = devDelta(c) - num[c]
    <3>1. delta(devHw[c], add(devSw[c], num[c])) =
            IF devDelta(c) >= num[c] THEN devDelta(c) - num[c] ELSE devDelta(c) + NumBuffs - num[c]
      BY <1>1, DeltaFromAdd DEF devDelta
    <3> QED BY <3>1, <2>1, <2>2, <1>1, <1>2 DEF since
  <2> QED BY <2>1, <2>3, <1>1, <1>2, <1>3
<1> QED BY <1>4, <1>5

LEMMA HandedOutFollows == TypeOK /\ IInv => HandedOutInOrder
<1> SUFFICES ASSUME TypeOK, IInv, NEW c \in Channel, NEW k \in 1 .. Len(out[c])
             PROVE  out[c][k].len = released[c] + k /\ data[c][out[c][k].idx] = released[c] + k
  BY DEF HandedOutInOrder
<1>1. since(c, out[c][k].idx) = k /\ out[c][k].len = released[c] + k
  BY DEF IInv, ChannelInv, OutInv
<1>2. out[c][k].idx \in Idx(NumBuffs)
  <2> DEFINE B == [idx : Idx(NumBuffs), len : Nat]
  <2>1. out[c] \in Seq(B)
    BY DEF TypeOK, CallType
  <2>2. out[c][k] \in B
    <3> HIDE DEF B
    <3> QED BY <2>1
  <2> QED BY <2>2
<1>3. k \in 1 .. since(c, hwCmplt[c])
  BY WindowOrder, LentArePublished
<1>4. HwInv(c)
  BY DEF IInv, ChannelInv
<1> QED BY <1>1, <1>2, <1>3, <1>4 DEF HwInv

LEMMA PublishedFollows == TypeOK /\ IInv => PublishedIsWhole
<1> SUFFICES ASSUME TypeOK, IInv, NEW c \in Channel, NEW k \in 1 .. delta(hwIdx[c], swNext[c])
             PROVE  /\ data[c][add(swNext[c], k)] = released[c] + k
                    /\ meta[c][add(swNext[c], k)] = released[c] + k
  BY DEF PublishedIsWhole
<1> DEFINE i == add(swNext[c], k)
<1>1. k \in 1 .. since(c, hwIdx[c])
  BY DEF since
<1>2. k \in 1 .. since(c, hwCmplt[c]) /\ k \in 0 .. NumBuffs - 1 /\ k \in Nat
  BY <1>1, WindowOrder, RecvConstants
<1>3. swNext[c] \in Idx(NumBuffs)
  BY DEF TypeOK, DrvType
<1>4. i \in Idx(NumBuffs) /\ since(c, i) = k
  BY <1>2, <1>3, AddType, DeltaOfAdd DEF since
<1>5. HwInv(c) /\ DrvInv(c)
  BY DEF IInv, ChannelInv
<1> HIDE DEF i
<1>6. data[c][i] = released[c] + k /\ meta[c][i] = released[c] + k
  BY <1>1, <1>2, <1>4, <1>5 DEF HwInv, DrvInv
<1> QED BY <1>6 DEF i

LEMMA CacheFollows == TypeOK /\ IInv => CacheBehindDriver
<1> SUFFICES ASSUME TypeOK, IInv, NEW c \in Channel, ~Giving(c)
             PROVE  devSw[c] = swIdx[c] /\ devDelta(c) <= drvDelta(c)
  BY DEF CacheBehindDriver, Giving
<1>1. DevInv(c) /\ DrvInv(c)
  BY DEF IInv, ChannelInv
<1>2. devSw[c] = swNext[c] /\ swIdx[c] = swNext[c] /\ devDelta(c) = since(c, devHw[c])
  BY <1>1, NotGiving DEF TypeOK
<1> QED BY <1>1, <1>2 DEF DevInv, since, drvDelta

(* The reader is handed every packet whole, in order, once, and keeps it   *)
(* intact until it gives it back (HandedOutInOrder): for any ring size,    *)
(* any number of packets and any number of restarts of the reader.         *)
THEOREM InOrder ==
  ASSUME OwnObjects
  PROVE  Spec => []HandedOutInOrder
BY TypeCorrect, Invariance, HandedOutFollows, PTL

(* Whatever hwIdx exposes is a whole packet with its own byte count        *)
(* (PublishedIsWhole), though poll_packets copies it while the card runs   *)
(* and readers give buffers back.                                          *)
THEOREM Published ==
  ASSUME OwnObjects
  PROVE  Spec => []PublishedIsWhole
BY TypeCorrect, Invariance, PublishedFollows, PTL

(* The channel info the library caches between GET_INFO calls may be old,  *)
(* but never shows a buffer the driver does not have (CacheBehindDriver).  *)
THEOREM CacheSafe ==
  ASSUME OwnObjects
  PROVE  Spec => []CacheBehindDriver
BY TypeCorrect, Invariance, CacheFollows, PTL

-----------------------------------------------------------------------------
(* Step properties.                                                        *)
LEMMA GivesOnlyPublishedStep ==
  ASSUME TypeOK, IInv, [Next]_vars, NEW c \in Channel, swNext'[c] # swNext[c]
  PROVE  delta(swNext'[c], swNext[c]) <= delta(hwIdx[c], swNext[c])
<1>t. DrvType /\ DevType /\ CallType
  BY DEF TypeOK
<1>i. ChannelInv(c)
  BY DEF IInv
<1>g. ASSUME NEW n \in Nat, bufGive(c, n), n <= devDelta(c), ~Giving(c)
      PROVE  delta(swNext'[c], swNext[c]) <= delta(hwIdx[c], swNext[c])
  <2>1. devSw[c] = swNext[c] /\ swIdx[c] = swNext[c] /\ devDelta(c) = since(c, devHw[c])
    BY <1>g, <1>t, <1>i, NotGiving DEF ChannelInv
  <2>2. devDelta(c) \in 0 .. NumBuffs - 1 /\ since(c, hwIdx[c]) \in 0 .. NumBuffs - 1
    BY <1>t, DeltaRange DEF devDelta, since, DrvType, DevType
  <2>3. n \in 0 .. NumBuffs - 1 /\ n <= since(c, hwIdx[c])
    BY <1>g, <2>1, <2>2, <1>i, RecvConstants DEF ChannelInv, DevInv
  <2>4. swNext'[c] = add(swNext[c], n) /\ swNext[c] \in Idx(NumBuffs)
    BY <1>g, <2>1, <1>t DEF bufGive, myIdx, DrvType
  <2>5. delta(swNext'[c], swNext[c]) = n
    BY <2>3, <2>4, DeltaOfAdd
  <2> QED BY <2>3, <2>5 DEF since
<1>1. PICK x \in Channel : ReleaseAllGive(x) \/ \E n \in 1 .. (NumBuffs - 1) : ReadRelease(x, n)
  BY DEF Next, vars, drvVars, Poll, Call, HwBegin, HwComplete, PollRead, completedIdx,
       PollMisread, PollMeta, nxtCachedCmpltIdx, PollPublish,
     PollNextChn, ReadData, ReadGetInfo, ReadTake, counted, newNxtIdx, GiveSwIdx,
          ReleaseAccount, uncounted, cachedSw, ReleaseAll,
     ReleaseAllInfo, ReleaseAllDone, Restart
<1>2. x = c
  BY <1>1, <1>t DEF ReleaseAllGive, ReadRelease, bufGive, myIdx, DrvType
<1>3. CASE ReleaseAllGive(c)
  <2>1. devDelta(c) \in Nat /\ ~Giving(c)
    BY <1>3, <1>t, DeltaRange, RecvConstants DEF ReleaseAllGive, Giving, devDelta, DevType
  <2> QED BY <1>3, <1>g, <2>1 DEF ReleaseAllGive
<1>4. ASSUME NEW n \in 1 .. (NumBuffs - 1), ReadRelease(c, n)
      PROVE  delta(swNext'[c], swNext[c]) <= delta(hwIdx[c], swNext[c])
  <2>1. n \in Nat /\ ~Giving(c)
    BY <1>4, RecvConstants DEF ReadRelease, Giving
  <2>2. bufGive(c, n) /\ n <= devDelta(c)
    BY <1>4 DEF ReadRelease
  <2> QED BY <1>g, <2>1, <2>2
<1> QED BY <1>1, <1>2, <1>3, <1>4

LEMMA GivesOnlyPublishedSteps ==
  TypeOK /\ IInv /\ [Next]_vars =>
    [\A c \in Channel : delta(swNext'[c], swNext[c]) <= delta(hwIdx[c], swNext[c])]_swNext
<1> SUFFICES ASSUME TypeOK, IInv, [Next]_vars, NEW c \in Channel
             PROVE  delta(swNext'[c], swNext[c]) <= delta(hwIdx[c], swNext[c])
  OBVIOUS
<1>1. CASE swNext'[c] # swNext[c]
  BY <1>1, GivesOnlyPublishedStep
<1>2. CASE swNext'[c] = swNext[c]
  <2>1. swNext[c] \in Idx(NumBuffs) /\ hwIdx[c] \in Idx(NumBuffs)
    BY DEF TypeOK, DrvType
  <2> QED BY <1>2, <2>1, DeltaRange
<1> QED BY <1>1, <1>2

(* SW_NEXT never overtakes hwIdx, the last buffer published to readers, so *)
(* no buffer goes back to the card unseen (GivesOnlyPublished).            *)
THEOREM GiveBackSafe ==
  ASSUME OwnObjects
  PROVE  Spec => GivesOnlyPublished
BY TypeCorrect, Invariance, GivesOnlyPublishedSteps, PTL DEF Spec, GivesOnlyPublished

-----------------------------------------------------------------------------
(* The refinement of RecvFifo: the engine's completion produces, read_data *)
(* lends, read_release releases, release_all forgets and discards.         *)
LEMMA LentIsSeq ==
  ASSUME CallType, NEW c \in Channel
  PROVE  /\ lentPackets[c] \in Seq(Nat)
         /\ Len(lentPackets[c]) = Len(out[c])
         /\ \A k \in 1 .. Len(out[c]) : lentPackets[c][k] = out[c][k].len
<1> DEFINE B == [idx : Idx(NumBuffs), len : Nat]
<1>1. out[c] \in Seq(B)
  BY DEF CallType
<1>2. \A k \in 1 .. Len(out[c]) : out[c][k].len \in Nat
  <2>1. \A k \in 1 .. Len(out[c]) : out[c][k] \in B
    <3> HIDE DEF B
    <3> QED BY <1>1
  <2> QED BY <2>1
<1>3. lentPackets[c] = [k \in 1 .. Len(out[c]) |-> out[c][k].len]
  BY DEF lentPackets
<1>4. Len(out[c]) \in Nat
  <2> HIDE DEF B
  <2> QED BY <1>1
<1> HIDE DEF B
<1> QED BY <1>2, <1>3, <1>4

LEMMA DropFirst ==
  ASSUME NEW s \in Seq(Nat), NEW n \in Nat, n <= Len(s)
  PROVE  LET rest == SubSeq(s, n + 1, Len(s)) IN
         /\ rest \in Seq(Nat) /\ Len(rest) = Len(s) - n
         /\ \A k \in 1 .. Len(s) - n : rest[k] = s[k + n]
<1> DEFINE rest == SubSeq(s, n + 1, Len(s))
<1>1. Len(s) \in Nat /\ rest = [k \in 1 .. Len(s) - n |-> s[k + n]]
  OBVIOUS
<1>2. \A k \in 1 .. Len(s) - n : s[k + n] \in Nat
  BY <1>1
<1> HIDE DEF rest
<1>3. rest \in Seq(Nat) /\ Len(rest) = Len(s) - n
  BY <1>1, <1>2
<1>4. \A k \in 1 .. Len(s) - n : rest[k] = s[k + n]
  BY <1>1
<1> QED BY <1>3, <1>4 DEF rest

LEMMA LentSame ==
  ASSUME UNCHANGED out PROVE lentPackets' = lentPackets
BY DEF lentPackets

LEMMA InitRefines == Init => Fifo!Init
<1> SUFFICES ASSUME Init PROVE Fifo!Init
  OBVIOUS
<1>1. \A c \in Channel : lentPackets[c] = <<>>
  BY DEF Init, lentPackets
<1>2. lentPackets = [c \in Channel |-> <<>>]
  BY <1>1 DEF lentPackets
<1> QED BY <1>2 DEF Init, Fifo!Init

LEMMA ProduceStep ==
  ASSUME TypeOK, IInv, NEW c \in Channel, HwComplete(c)
  PROVE  Fifo!Produce(c)
<1>t. HwType /\ DrvType /\ CallType
  BY DEF TypeOK
<1>1. HwInv(c) /\ hwNext[c] # swNext[c]
  BY DEF IInv, ChannelInv, HwComplete, HwInv
<1>2. since(c, hwCmplt[c]) \in 0 .. NumBuffs - 2
  BY <1>t, <1>1, HwNextOutside
<1>3. filled[c] - released[c] < NumBuffs - 1
  BY <1>1, <1>2, <1>t, RecvConstants DEF HwInv, HwType, CallType
<1>4. filled' = [filled EXCEPT ![c] = @ + 1] /\ released' = released /\ UNCHANGED out
  BY DEF HwComplete, callVars
<1> QED BY <1>3, <1>4, LentSame DEF Fifo!Produce

LEMMA LendStep ==
  ASSUME OwnObjects, TypeOK, IInv, NEW c \in Channel, ReadTake(c)
  PROVE  Fifo!Lend(c)
<1> DEFINE next == released[c] + Len(lentPackets[c]) + 1
           B == [idx : Idx(NumBuffs), len : Nat]
<1>t. HwType /\ CallType
  BY DEF TypeOK
<1>p. TypeOK' /\ IInv'
  <2>1. Next
    BY DEF Next, Call
  <2> QED BY <2>1, StepType, StepInv
<1>1. filled' = filled /\ released' = released
  BY DEF ReadTake, counted, newNxtIdx, hwVars
<1>2. PICK e : out' = [out EXCEPT ![c] = Append(@, e)]
  BY DEF ReadTake, counted, newNxtIdx
<1>3. out[c] \in Seq(B) /\ out \in [Channel -> Seq(B)] /\ Len(out[c]) \in Nat
  <2>1. out \in [Channel -> Seq(B)]
    BY <1>t DEF CallType
  <2> HIDE DEF B
  <2> QED BY <2>1
<1> HIDE DEF B
<1>4. /\ Len(out'[c]) = Len(out[c]) + 1
      /\ \A k \in 1 .. Len(out[c]) : out'[c][k] = out[c][k]
      /\ \A x \in Channel : x # c => out'[x] = out[x]
  BY <1>2, <1>3
<1>5. Len(lentPackets[c]) = Len(out[c])
  BY <1>t, LentIsSeq
<1>6. out'[c][Len(out[c]) + 1].len = next
  <2>1. Len(out[c]) + 1 \in 1 .. Len(out'[c])
    BY <1>3, <1>4
  <2>2. OutInv(c)'
    BY <1>p DEF IInv, ChannelInv
  <2>3. out'[c][Len(out[c]) + 1].len = released'[c] + (Len(out[c]) + 1)
    BY <2>1, <2>2 DEF OutInv
  <2> QED BY <2>3, <1>1, <1>3, <1>5, <1>t DEF CallType
<1>7. next <= filled[c]
  <2>1. ChannelInv(c) /\ pc[c] = "take" /\ DrvType /\ DevType
    BY DEF IInv, ReadTake, counted, newNxtIdx, TypeOK
  <2>2. Len(out[c]) < devDelta(c) /\ ~Giving(c)
    <3>1. c = DAQ \/ c = DCS
      BY DEF Channel
    <3> QED BY <2>1, <3>1 DEF ChannelInv, LentInv, Giving
  <2>3. devDelta(c) = since(c, devHw[c]) /\ since(c, devHw[c]) <= since(c, hwIdx[c])
    BY <2>1, <2>2, NotGiving DEF ChannelInv, DevInv
  <2>4. devDelta(c) \in 0 .. NumBuffs - 1
    BY <2>1, DeltaRange DEF devDelta, DevType
  <2>5. /\ since(c, hwIdx[c]) <= since(c, hwCmplt[c]) /\ since(c, hwIdx[c]) \in 0 .. NumBuffs - 1
        /\ since(c, hwCmplt[c]) \in 0 .. NumBuffs - 1
    BY WindowOrder
  <2>6. filled[c] = released[c] + since(c, hwCmplt[c])
    BY <2>1 DEF ChannelInv, HwInv
  <2>7. /\ Len(out[c]) \in Nat /\ released[c] \in Nat /\ filled[c] \in Nat
        /\ next = released[c] + Len(out[c]) + 1
    BY <1>3, <1>5, <1>t, LentIsSeq DEF CallType, HwType
  <2>8. Len(out[c]) + 1 <= since(c, hwCmplt[c])
    BY <2>2, <2>3, <2>4, <2>5, <2>7, RecvConstants
  <2> QED BY <2>5, <2>6, <2>7, <2>8
<1>8. lentPackets' = [lentPackets EXCEPT ![c] = Append(@, next)]
  <2> DEFINE app == [lentPackets EXCEPT ![c] = Append(@, next)]
  <2>1. ASSUME NEW x \in Channel, x # c PROVE lentPackets'[x] = app[x]
    BY <2>1, <1>4 DEF lentPackets
  <2>2. lentPackets'[c] = Append(lentPackets[c], next)
    <3>1. /\ lentPackets[c] \in Seq(Nat)
          /\ \A k \in 1 .. Len(out[c]) : lentPackets[c][k] = out[c][k].len
      BY <1>t, LentIsSeq
    <3>2. lentPackets'[c] = [k \in 1 .. Len(out[c]) + 1 |-> out'[c][k].len]
      BY <1>4 DEF lentPackets
    <3>3. next \in Nat
      BY <1>3, <1>5, <1>t DEF CallType
    <3> HIDE DEF next
    <3>4. /\ Append(lentPackets[c], next) \in Seq(Nat)
          /\ Len(Append(lentPackets[c], next)) = Len(out[c]) + 1
          /\ \A k \in 1 .. Len(out[c]) : Append(lentPackets[c], next)[k] = lentPackets[c][k]
          /\ Append(lentPackets[c], next)[Len(out[c]) + 1] = next
      BY <3>1, <3>3, <1>3, <1>5
    <3>5. Append(lentPackets[c], next) = [k \in 1 .. Len(out[c]) + 1 |-> Append(lentPackets[c], next)[k]]
      BY <3>4
    <3>6. \A k \in 1 .. Len(out[c]) + 1 : out'[c][k].len = Append(lentPackets[c], next)[k]
      <4>1. ASSUME NEW k \in 1 .. Len(out[c])
            PROVE  out'[c][k].len = Append(lentPackets[c], next)[k]
        BY <3>1, <3>4, <1>4
      <4>2. out'[c][Len(out[c]) + 1].len = Append(lentPackets[c], next)[Len(out[c]) + 1]
        BY <3>4, <1>6
      <4>3. \A k \in 1 .. Len(out[c]) + 1 : k \in 1 .. Len(out[c]) \/ k = Len(out[c]) + 1
        BY <1>3
      <4> QED BY <4>1, <4>2, <4>3
    <3> QED BY <3>2, <3>5, <3>6
  <2>3. lentPackets' = [x \in Channel |-> lentPackets'[x]]
    BY DEF lentPackets
  <2>4. app = [x \in Channel |-> app[x]] /\ app[c] = Append(lentPackets[c], next)
    BY DEF lentPackets
  <2> QED BY <2>1, <2>2, <2>3, <2>4
<1> QED BY <1>1, <1>7, <1>8 DEF Fifo!Lend

(* What remains of a channel's sequence after its first n are given back.  *)
LEMMA ReleaseStep ==
  ASSUME TypeOK, IInv, NEW c \in Channel, NEW n \in 1 .. (NumBuffs - 1), ReadRelease(c, n)
  PROVE  Fifo!Release(c, n)
<1> DEFINE B == [idx : Idx(NumBuffs), len : Nat]
           rest == SubSeq(lentPackets[c], n + 1, Len(lentPackets[c]))
<1>t. DevType /\ CallType
  BY DEF TypeOK
<1>o. out \in [Channel -> Seq(B)]
  BY <1>t DEF CallType
<1> HIDE DEF B
<1>1. /\ pc[c] = "idle" /\ n \in 1 .. Len(out[c]) /\ UNCHANGED hwVars
      /\ out' = [out EXCEPT ![c] = SubSeq(@, n + 1, Len(@))]
  BY DEF ReadRelease
<1>2. LentInv(c) /\ ~Giving(c)
  BY <1>1 DEF IInv, ChannelInv, Giving
<1>3. n \in Nat /\ Len(out[c]) \in Nat /\ devDelta(c) \in 0 .. NumBuffs - 1 /\ n <= Len(out[c])
  BY <1>1, <1>o, <1>t, DeltaRange DEF devDelta, DevType
<1>4. n <= devDelta(c)
  BY <1>2, <1>3 DEF LentInv
<1>5. released' = [released EXCEPT ![c] = @ + n]
  BY <1>4 DEF ReadRelease, bufGive, myIdx
<1>6. /\ Len(out'[c]) = Len(out[c]) - n
      /\ \A k \in 1 .. Len(out[c]) - n : out'[c][k] = out[c][k + n]
      /\ \A x \in Channel : x # c => out'[x] = out[x]
  BY <1>1, <1>3, <1>o
<1>7. /\ lentPackets[c] \in Seq(Nat) /\ Len(lentPackets[c]) = Len(out[c])
      /\ \A k \in 1 .. Len(out[c]) : lentPackets[c][k] = out[c][k].len
  BY <1>t, LentIsSeq
<1>8. lentPackets'[c] = rest
  <2>1. lentPackets'[c] = [k \in 1 .. Len(out[c]) - n |-> out'[c][k].len]
    BY <1>6 DEF lentPackets
  <2>2. rest = [k \in 1 .. Len(out[c]) - n |-> lentPackets[c][k + n]]
    <3>1. /\ rest \in Seq(Nat) /\ Len(rest) = Len(out[c]) - n
          /\ \A k \in 1 .. Len(out[c]) - n : rest[k] = lentPackets[c][k + n]
      BY <1>3, <1>7, DropFirst
    <3> HIDE DEF rest
    <3>2. rest = [k \in 1 .. Len(rest) |-> rest[k]]
      BY <3>1
    <3> QED BY <3>1, <3>2, Zenon
  <2>3. ASSUME NEW k \in 1 .. Len(out[c]) - n
        PROVE  out'[c][k].len = lentPackets[c][k + n]
    <3>1. k + n \in 1 .. Len(out[c])
      BY <1>3
    <3> QED BY <3>1, <1>6, <1>7
  <2> HIDE DEF rest
  <2> QED BY <2>1, <2>2, <2>3
<1> HIDE DEF rest
<1>9. lentPackets' = [lentPackets EXCEPT ![c] = rest]
  <2>1. ASSUME NEW x \in Channel, x # c PROVE lentPackets'[x] = lentPackets[x]
    BY <2>1, <1>6 DEF lentPackets
  <2>2. lentPackets' = [x \in Channel |-> lentPackets'[x]]
    BY DEF lentPackets
  <2>3. [lentPackets EXCEPT ![c] = rest] = [x \in Channel |-> IF x = c THEN rest ELSE lentPackets[x]]
    BY DEF lentPackets
  <2> QED BY <2>1, <2>2, <2>3, <1>8
<1> QED BY <1>1, <1>3, <1>5, <1>7, <1>9 DEF Fifo!Release, hwVars, rest

LEMMA LentEmptied ==
  ASSUME NEW c \in Channel, out'[c] = <<>>, \A x \in Channel : x # c => out'[x] = out[x]
  PROVE  lentPackets' = [lentPackets EXCEPT ![c] = <<>>]
<1>1. lentPackets'[c] = <<>>
  BY DEF lentPackets
<1>2. \A x \in Channel : x # c => lentPackets'[x] = lentPackets[x]
  BY DEF lentPackets
<1>3. lentPackets' = [x \in Channel |-> lentPackets'[x]]
  BY DEF lentPackets
<1>4. [lentPackets EXCEPT ![c] = <<>>] = [x \in Channel |-> IF x = c THEN <<>> ELSE lentPackets[x]]
  BY DEF lentPackets
<1> QED BY <1>1, <1>2, <1>3, <1>4

LEMMA ForgetStep ==
  ASSUME TypeOK, NEW c \in Channel, ReleaseAll(c)
  PROVE  Fifo!Forget(c)
BY LentEmptied DEF TypeOK, CallType, ReleaseAll, Fifo!Forget, hwVars

LEMMA RestartForgets ==
  ASSUME OwnObjects, TypeOK, NEW d \in Device, Restart(d)
  PROVE  (\E c \in Channel : Fifo!Forget(c)) \/ UNCHANGED Fifo!vars
<1>1. UNCHANGED <<filled, released>>
  BY DEF Restart, hwVars
<1>2. out' = [x \in Channel |-> IF DevOf[x] = d THEN <<>> ELSE out[x]]
  BY DEF Restart
<1>3. ASSUME NEW c \in Channel, DevOf[c] = d PROVE Fifo!Forget(c)
  <2>1. \A x \in Channel : x # c => DevOf[x] # d
    BY <1>3, OtherObject
  <2>2. out'[c] = <<>> /\ \A x \in Channel : x # c => out'[x] = out[x]
    BY <1>2, <1>3, <2>1
  <2> QED BY <1>1, <2>2, LentEmptied DEF Fifo!Forget
<1>4. CASE \A c \in Channel : DevOf[c] # d
  <2>1. out' = out
    BY <1>2, <1>4 DEF TypeOK, CallType
  <2> QED BY <1>1, <2>1, LentSame DEF Fifo!vars
<1> QED BY <1>3, <1>4

LEMMA DiscardStep ==
  ASSUME TypeOK, IInv, NEW c \in Channel, ReleaseAllGive(c)
  PROVE  (\E n \in 1 .. (NumBuffs - 1) : Fifo!Discard(c, n)) \/ UNCHANGED Fifo!vars
<1> DEFINE n == devDelta(c)
<1>t. HwType /\ DrvType /\ DevType /\ CallType
  BY DEF TypeOK
<1>i. ChannelInv(c)
  BY DEF IInv
<1>1. pc[c] = "allgive" /\ UNCHANGED <<out, filled>> /\ released' = [released EXCEPT ![c] = @ + n]
  BY DEF ReleaseAllGive, bufGive, myIdx, hwVars
<1>2. out[c] = <<>> /\ ~Giving(c)
  BY <1>1, <1>i DEF ChannelInv, LentInv, Giving
<1>3. n \in 0 .. NumBuffs - 1 /\ n = since(c, devHw[c])
  BY <1>2, <1>t, <1>i, DeltaRange, NotGiving DEF ChannelInv, devDelta, DevType
<1> HIDE DEF n
<1>4. released[c] + n <= filled[c]
  <2>1. /\ n <= since(c, hwIdx[c]) /\ since(c, hwIdx[c]) <= since(c, hwCmplt[c])
        /\ filled[c] = released[c] + since(c, hwCmplt[c])
    BY <1>3, <1>i DEF ChannelInv, DevInv, DrvInv, HwInv
  <2> QED BY <2>1, <1>3, WindowOrder, <1>t DEF CallType
<1>5. lentPackets[c] = <<>> /\ lentPackets' = lentPackets
  BY <1>1, <1>2, LentSame DEF lentPackets
<1>6. CASE n = 0
  <2>1. released' = released
    BY <1>1, <1>6, <1>t DEF CallType
  <2> QED BY <1>1, <1>5, <2>1 DEF Fifo!vars
<1>7. CASE n # 0
  <2>1. n \in 1 .. (NumBuffs - 1)
    BY <1>3, <1>7
  <2>2. Fifo!Discard(c, n)
    BY <1>1, <1>4, <1>5 DEF Fifo!Discard
  <2> QED BY <2>1, <2>2
<1> QED BY <1>6, <1>7

LEMMA StepRefines ==
  OwnObjects /\ TypeOK /\ IInv /\ [Next]_vars => [Fifo!Next]_(Fifo!vars)
<1> SUFFICES ASSUME OwnObjects, TypeOK, IInv, [Next]_vars
             PROVE  Fifo!Next \/ UNCHANGED Fifo!vars
  OBVIOUS
<1>s. UNCHANGED <<out, filled, released>> => UNCHANGED Fifo!vars
  BY LentSame DEF Fifo!vars
<1>1. CASE UNCHANGED vars
  BY <1>1, <1>s DEF vars, hwVars, callVars
<1>2. CASE Poll
  BY <1>2, <1>s DEF Poll, PollRead, completedIdx, PollMisread, PollMeta, nxtCachedCmpltIdx, PollPublish,
       PollNextChn, hwVars, callVars
<1>3. ASSUME NEW c \in Channel,
             HwBegin(c) \/ ReadData(c) \/ ReadGetInfo(c) \/ GiveSwIdx(c) \/ ReleaseAccount(c)
               \/ ReleaseAllInfo(c) \/ ReleaseAllDone(c)
      PROVE  UNCHANGED Fifo!vars
  BY <1>3, <1>s DEF HwBegin, ReadData, ReadGetInfo, GiveSwIdx, ReleaseAccount, uncounted,
       cachedSw,
     ReleaseAllInfo, ReleaseAllDone, hwVars, callVars
<1>4. ASSUME NEW c \in Channel, HwComplete(c) \/ ReadTake(c) \/ ReleaseAll(c)
      PROVE  Fifo!Next
  BY <1>4, ProduceStep, LendStep, ForgetStep DEF Fifo!Next
<1>5. ASSUME NEW c \in Channel, NEW n \in 1 .. (NumBuffs - 1), ReadRelease(c, n)
      PROVE  Fifo!Next
  BY <1>5, ReleaseStep DEF Fifo!Next
<1>6. ASSUME NEW c \in Channel, ReleaseAllGive(c)
      PROVE  Fifo!Next \/ UNCHANGED Fifo!vars
  BY <1>6, DiscardStep DEF Fifo!Next
<1>7. ASSUME NEW d \in Device, Restart(d)
      PROVE  Fifo!Next \/ UNCHANGED Fifo!vars
  BY <1>7, RestartForgets DEF Fifo!Next
<1> QED BY <1>1, <1>2, <1>3, <1>4, <1>5, <1>6, <1>7 DEF Next, Call

(* The receive path implements RecvFifo (ImplementsFifo): packets come out *)
(* of read_data exactly once, in the order the card delivered them, and    *)
(* the card never has more than NumBuffs - 1 outstanding.                  *)
THEOREM Refinement ==
  ASSUME OwnObjects
  PROVE  Spec => ImplementsFifo
<1>1. TypeOK /\ IInv /\ [Next]_vars => [Fifo!Next]_(Fifo!vars)
  BY StepRefines
<1> QED BY <1>1, InitRefines, TypeCorrect, Invariance, PTL DEF Spec, ImplementsFifo, Fifo!Spec
=============================================================================
