------------------------------ MODULE RecvRing ------------------------------
(***************************************************************************)
(* The receive (C2S) path: the card's DMA engine fills a ring of buffers,  *)
(* the kernel driver's poll routine publishes them, and the user library   *)
(* (mu2edev) hands them to its caller and gives them back.                 *)
(*                                                                         *)
(*   card     --HW_CMPLT-->  poll_packets  --hwIdx-->  read_data           *)
(*   card    <--SW_NEXT---   BUF_GIVE     <--swIdx---  read_release        *)
(*                                                                         *)
(* Each of the two channels has its own ring and, in the driver and in     *)
(* every mu2edev object, its own hwIdx/swIdx pair; but a mu2edev object    *)
(* has a single counter buffers_held_ for both.  DevOf says which mu2edev  *)
(* object each channel is read through: one object for both channels, or   *)
(* one object (usually one process) per channel.                           *)
(*                                                                         *)
(* A packet is represented by its number (1, 2, ... per channel), and so   *)
(* is the byte count the card reports for it.  0 stands for the contents   *)
(* of a buffer that holds no whole packet.                                 *)
(***************************************************************************)
EXTENDS RingIndex, Sequences

CONSTANTS NumBuffs,     \* MU2E_NUM_RECV_BUFFS
          Device,       \* mu2edev objects
          DevOf,        \* the object that reads a channel
          MaxPackets,   \* bound: packets the card delivers on a channel
          MaxRestarts   \* bound: how often a reader dies and comes back

DAQ == 0    \* DTC_DMA_Engine_DAQ
DCS == 1    \* DTC_DMA_Engine_DCS
Channel == {DAQ, DCS}

ASSUME RecvConstants ==
  /\ NumBuffs \in Nat /\ NumBuffs >= 2
  /\ DevOf \in [Channel -> Device]
  /\ MaxPackets \in [Channel -> Nat]
  /\ MaxRestarts \in Nat

VARIABLES
  (* The card, per channel. *)
  hwNext,      \* register HW_NEXT_BD: the descriptor to be filled next
  hwCmplt,     \* register HW_CMPLT_BD: the last one filled
  swNext,      \* register SW_NEXT_BD: the engine stops before this one
  writing,     \* a transfer into buffer hwNext is under way
  data,        \* contents of each buffer
  byteCount,   \* ByteCount field of each descriptor
  filled,      \* packets delivered so far
  (* The driver: mu2e_channel_info_, the META page and poll_packets. *)
  hwIdx, swIdx,
  meta,
  pollPc, pollChn, newCmpltIdx,
  (* The mu2edev object reading each channel: its copy of the channel      *)
  (* info, the state of the call in progress, buffers_held_.               *)
  devHw, devSw,
  held,
  pc,          \* where the caller of a channel is
  num,         \* argument of the read_release in progress
  inAll,       \* that read_release was called by release_all
  restarts,
  (* What the caller of a channel has. *)
  out,         \* buffers handed to it and not given back, oldest first
  released     \* number of buffers given back to the card

hwVars   == <<hwNext, hwCmplt, writing, data, byteCount, filled>>
drvVars  == <<swNext, hwIdx, swIdx, meta>>
pollVars == <<pollPc, pollChn, newCmpltIdx>>
devVars  == <<devHw, devSw, held, pc, num, inAll>>
callVars == <<out, released>>
vars == <<hwVars, drvVars, pollVars, devVars, callVars, restarts>>

add(i, k) == idx_add(NumBuffs, i, k)
delta(hw, sw) == delta_C2S(NumBuffs, hw, sw)

(* Buffers waiting as the driver sees them, and as the library last did.   *)
drvDelta(c) == delta(hwIdx[c], swIdx[c])
devDelta(c) == delta(devHw[c], devSw[c])

-----------------------------------------------------------------------------
(* alloc_mem leaves SW_NEXT = HW_CMPLT = the last descriptor ("num avail"  *)
(* is 0); init opens the device and copies the channel info.               *)
Init ==
  /\ hwNext = [c \in Channel |-> 0]
  /\ hwCmplt = [c \in Channel |-> NumBuffs - 1]
  /\ swNext = [c \in Channel |-> NumBuffs - 1]
  /\ writing = [c \in Channel |-> FALSE]
  /\ data = [c \in Channel |-> [i \in Idx(NumBuffs) |-> 0]]
  /\ byteCount = [c \in Channel |-> [i \in Idx(NumBuffs) |-> 0]]
  /\ filled = [c \in Channel |-> 0]
  /\ hwIdx = [c \in Channel |-> NumBuffs - 1]
  /\ swIdx = [c \in Channel |-> NumBuffs - 1]
  /\ meta = [c \in Channel |-> [i \in Idx(NumBuffs) |-> 0]]
  /\ pollPc = "read" /\ pollChn = DAQ /\ newCmpltIdx = 0
  /\ devHw = hwIdx /\ devSw = swIdx
  /\ held = [d \in Device |-> 0]
  /\ pc = [c \in Channel |-> "idle"]
  /\ num = [c \in Channel |-> 0]
  /\ inAll = [c \in Channel |-> FALSE]
  /\ restarts = 0
  /\ out = [c \in Channel |-> <<>>]
  /\ released = [c \in Channel |-> 0]

-----------------------------------------------------------------------------
(* The DMA engine (external: the FPGA's, known from how the driver sets it *)
(* up and reads it back).  It fills descriptors in ring order and stops    *)
(* when HW_NEXT meets SW_NEXT.                                             *)
HwBegin(c) ==
  /\ ~writing[c] /\ hwNext[c] # swNext[c]
  /\ filled[c] < MaxPackets[c]
  /\ writing' = [writing EXCEPT ![c] = TRUE]
  /\ data' = [data EXCEPT ![c][hwNext[c]] = 0]
  /\ UNCHANGED <<hwNext, hwCmplt, byteCount, filled>>
  /\ UNCHANGED <<drvVars, pollVars, devVars, callVars, restarts>>

HwComplete(c) ==
  /\ writing[c]
  /\ writing' = [writing EXCEPT ![c] = FALSE]
  /\ filled' = [filled EXCEPT ![c] = @ + 1]
  /\ data' = [data EXCEPT ![c][hwNext[c]] = filled[c] + 1]
  /\ byteCount' = [byteCount EXCEPT ![c][hwNext[c]] = filled[c] + 1]
  /\ hwCmplt' = [hwCmplt EXCEPT ![c] = hwNext[c]]
  /\ hwNext' = [hwNext EXCEPT ![c] = add(@, 1)]
  /\ UNCHANGED <<drvVars, pollVars, devVars, callVars, restarts>>

-----------------------------------------------------------------------------
(* poll_packets: for each channel, read HW_CMPLT once, then walk hwIdx up  *)
(* to it, copying a descriptor's byte count to the META page before the    *)
(* index that exposes it.  descDmaAdr2idx always returns an index of the   *)
(* ring: when the register holds no descriptor's address, its search ends  *)
(* where it began, at hwIdx, and the channel looks empty (PollMisread).    *)
(* So the branch for an index "above maximum sane value" is never taken.   *)
completedIdx0(c) == hwCmplt[DAQ]          \* mutant: always channel 0's register
completedIdx(c) == hwCmplt[c]

nxtCachedSkip(c) == newCmpltIdx           \* mutant: skips to the newest
nxtCachedCmpltIdx(c) == add(hwIdx[c], 1)

PollRead ==
  /\ pollPc = "read"
  /\ newCmpltIdx' = completedIdx(pollChn)
  /\ pollPc' = "loop"
  /\ UNCHANGED <<pollChn, hwVars, drvVars, devVars, callVars, restarts>>

PollMisread ==
  /\ pollPc = "read"
  /\ newCmpltIdx' = hwIdx[pollChn]
  /\ pollPc' = "loop"
  /\ UNCHANGED <<pollChn, hwVars, drvVars, devVars, callVars, restarts>>

PollMeta ==
  LET nxt == nxtCachedCmpltIdx(pollChn) IN
  /\ pollPc = "loop" /\ newCmpltIdx # hwIdx[pollChn]
  /\ meta' = [meta EXCEPT ![pollChn][nxt] = byteCount[pollChn][nxt]]
  /\ pollPc' = "publish"
  /\ UNCHANGED <<pollChn, newCmpltIdx, swNext, hwIdx, swIdx>>
  /\ UNCHANGED <<hwVars, devVars, callVars, restarts>>

PollPublish ==
  /\ pollPc = "publish"
  /\ hwIdx' = [hwIdx EXCEPT ![pollChn] = nxtCachedCmpltIdx(pollChn)]
  /\ pollPc' = "loop"
  /\ UNCHANGED <<pollChn, newCmpltIdx, swNext, swIdx, meta>>
  /\ UNCHANGED <<hwVars, devVars, callVars, restarts>>

(* After the last channel the routine ends, and a later call starts anew.  *)
PollNextChn ==
  /\ pollPc = "loop" /\ newCmpltIdx = hwIdx[pollChn]
  /\ pollChn' = IF pollChn = DAQ THEN DCS ELSE DAQ
  /\ pollPc' = "read"
  /\ UNCHANGED <<newCmpltIdx, hwVars, drvVars, devVars, callVars, restarts>>

-----------------------------------------------------------------------------
(* read_data.  The cached channel info is looked at first; only when it    *)
(* shows no buffer beyond those held is the driver asked (GET_INFO, which  *)
(* waits, and times out if nothing arrives).                               *)
(* Callers keep at most one DCS buffer: every DCS request starts with      *)
(* release_all, and dcs_main releases each reply it reads.                 *)
ReadData(c) ==
  /\ pc[c] = "idle"
  /\ c = DCS => out[c] = <<>>
  /\ pc' = [pc EXCEPT ![c] = IF devDelta(c) > held[DevOf[c]]
                             THEN "take" ELSE "getinfo"]
  /\ UNCHANGED <<devHw, devSw, held, num, inAll>>
  /\ UNCHANGED <<hwVars, drvVars, pollVars, callVars, restarts>>

(* M_IOC_GET_INFO copies the driver's channel info over the cached one.    *)
getInfo(c) ==
  /\ devHw' = [devHw EXCEPT ![c] = hwIdx[c]]
  /\ devSw' = [devSw EXCEPT ![c] = swIdx[c]]

ReadGetInfo(c) ==
  /\ pc[c] = "getinfo"
  /\ getInfo(c)
  /\ pc' = [pc EXCEPT ![c] = IF drvDelta(c) > held[DevOf[c]]
                             THEN "take" ELSE "idle"]
  /\ UNCHANGED <<held, num, inAll>>
  /\ UNCHANGED <<hwVars, drvVars, pollVars, callVars, restarts>>

(* The caller gets a pointer to the buffer after those it holds, and its   *)
(* byte count.  Only DAQ buffers are counted as held.                      *)
newNxtIdxFirst(c) == add(devSw[c], 1)     \* mutant: forgets those it holds
newNxtIdx(c) == add(devSw[c], held[DevOf[c]] + 1)

countedAlways(c, h) == h + 1              \* mutant: on either channel
counted(c, h) == IF c = DAQ THEN h + 1 ELSE h

ReadTake(c) ==
  /\ pc[c] = "take"
  /\ out' = [out EXCEPT ![c] =
               Append(@, [idx |-> newNxtIdx(c), len |-> meta[c][newNxtIdx(c)]])]
  /\ held' = [held EXCEPT ![DevOf[c]] = counted(c, @)]
  /\ pc' = [pc EXCEPT ![c] = "idle"]
  /\ UNCHANGED <<devHw, devSw, num, inAll>>
  /\ UNCHANGED <<hwVars, drvVars, pollVars, released, restarts>>

-----------------------------------------------------------------------------
(* M_IOC_BUF_GIVE writes SW_NEXT first and the driver's swIdx after it.    *)
myIdxTooFar(c, n) == add(swIdx[c], n + 1) \* mutant: one descriptor too far
myIdx(c, n) == add(swIdx[c], n)

bufGive(c, n) ==
  /\ swNext' = [swNext EXCEPT ![c] = myIdx(c, n)]
  /\ num' = [num EXCEPT ![c] = n]
  /\ released' = [released EXCEPT ![c] = @ + n]
  /\ pc' = [pc EXCEPT ![c] = "give"]

(* read_release(c, n) by a caller that holds at least n buffers, which it  *)
(* no longer uses.  A count above the cached delta is ignored with a       *)
(* warning.                                                                *)
ReadRelease(c, n) ==
  /\ pc[c] = "idle"
  /\ n \in 1 .. Len(out[c])
  /\ out' = [out EXCEPT ![c] = SubSeq(@, n + 1, Len(@))]
  /\ IF n <= devDelta(c)
     THEN bufGive(c, n)
     ELSE UNCHANGED <<swNext, num, released, pc>>
  /\ UNCHANGED <<devHw, devSw, held, inAll, hwIdx, swIdx, meta>>
  /\ UNCHANGED <<hwVars, pollVars, restarts>>

GiveSwIdx(c) ==
  /\ pc[c] = "give"
  /\ swIdx' = [swIdx EXCEPT ![c] = add(@, num[c])]
  /\ pc' = [pc EXCEPT ![c] = "account"]
  /\ UNCHANGED <<swNext, hwIdx, meta, devHw, devSw, held, num, inAll>>
  /\ UNCHANGED <<hwVars, pollVars, callVars, restarts>>

(* Back in read_release: the cached swIdx and buffers_held_ follow.        *)
cachedSw(c) == add(devSw[c], num[c])

uncountedNot(h, n) == h                   \* mutant: buffers_held_ stays
uncounted(h, n) == IF n <= h THEN h - n ELSE 0

ReleaseAccount(c) ==
  /\ pc[c] = "account"
  /\ devSw' = [devSw EXCEPT ![c] = cachedSw(c)]
  /\ held' = [held EXCEPT ![DevOf[c]] = uncounted(@, num[c])]
  /\ pc' = [pc EXCEPT ![c] = IF inAll[c] THEN "all" ELSE "idle"]
  /\ UNCHANGED <<devHw, num, inAll>>
  /\ UNCHANGED <<hwVars, drvVars, pollVars, callVars, restarts>>

-----------------------------------------------------------------------------
(* release_all: refresh the cached info and release everything in it,      *)
(* until nothing arrived for a while; then, for DAQ, nothing is held.      *)
ReleaseAll(c) ==
  /\ pc[c] = "idle"
  /\ out' = [out EXCEPT ![c] = <<>>]
  /\ inAll' = [inAll EXCEPT ![c] = TRUE]
  /\ pc' = [pc EXCEPT ![c] = "all"]
  /\ UNCHANGED <<devHw, devSw, held, num, released>>
  /\ UNCHANGED <<hwVars, drvVars, pollVars, restarts>>

ReleaseAllInfo(c) ==
  /\ pc[c] = "all"
  /\ drvDelta(c) > 0
  /\ getInfo(c)
  /\ pc' = [pc EXCEPT ![c] = "allgive"]
  /\ UNCHANGED <<held, num, inAll>>
  /\ UNCHANGED <<hwVars, drvVars, pollVars, callVars, restarts>>

ReleaseAllGive(c) ==
  /\ pc[c] = "allgive"
  /\ bufGive(c, devDelta(c))
  /\ UNCHANGED <<devHw, devSw, held, inAll, hwIdx, swIdx, meta, out>>
  /\ UNCHANGED <<hwVars, pollVars, restarts>>

ReleaseAllDone(c) ==
  /\ pc[c] = "all"
  /\ drvDelta(c) = 0
  /\ getInfo(c)
  /\ held' = [held EXCEPT ![DevOf[c]] = IF c = DAQ THEN 0 ELSE @]
  /\ inAll' = [inAll EXCEPT ![c] = FALSE]
  /\ pc' = [pc EXCEPT ![c] = "idle"]
  /\ UNCHANGED num
  /\ UNCHANGED <<hwVars, drvVars, pollVars, callVars, restarts>>

-----------------------------------------------------------------------------
(* The process of object d dies, outside the driver, and a new one opens   *)
(* the device: a new object with nothing held and a fresh copy of the      *)
(* channel info.  The driver and the card notice nothing.                  *)
Restart(d) ==
  LET mine == {c \in Channel : DevOf[c] = d} IN
  /\ restarts < MaxRestarts
  /\ \A c \in mine : pc[c] # "give"
  /\ restarts' = restarts + 1
  /\ devHw' = [c \in Channel |-> IF c \in mine THEN hwIdx[c] ELSE devHw[c]]
  /\ devSw' = [c \in Channel |-> IF c \in mine THEN swIdx[c] ELSE devSw[c]]
  /\ held' = [held EXCEPT ![d] = 0]
  /\ pc' = [c \in Channel |-> IF c \in mine THEN "idle" ELSE pc[c]]
  /\ inAll' = [c \in Channel |-> IF c \in mine THEN FALSE ELSE inAll[c]]
  /\ out' = [c \in Channel |-> IF c \in mine THEN <<>> ELSE out[c]]
  /\ UNCHANGED <<num, released, hwVars, drvVars, pollVars>>

-----------------------------------------------------------------------------
Poll == PollRead \/ PollMisread \/ PollMeta \/ PollPublish \/ PollNextChn

(* The steps of a call that has started. *)
Call(c) ==
  \/ ReadGetInfo(c) \/ ReadTake(c)
  \/ GiveSwIdx(c) \/ ReleaseAccount(c)
  \/ ReleaseAllInfo(c) \/ ReleaseAllGive(c) \/ ReleaseAllDone(c)

Next ==
  \/ \E c \in Channel :
       \/ HwBegin(c) \/ HwComplete(c)
       \/ ReadData(c)
       \/ \E n \in 1 .. (NumBuffs - 1) : ReadRelease(c, n)
       \/ ReleaseAll(c)
       \/ Call(c)
  \/ Poll
  \/ \E d \in Device : Restart(d)

Spec == Init /\ [][Next]_vars

(* A transfer that has begun ends; poll_packets keeps being called (it     *)
(* re-arms its timer while it finds work and the completion interrupt      *)
(* otherwise) and does not misread for ever; a call in progress returns; a *)
(* caller keeps reading, and gives back what it holds.                     *)
Fairness ==
  /\ WF_vars(Poll)
  /\ \A c \in Channel :
       /\ SF_vars(pollChn = c /\ PollRead)
       /\ WF_vars(HwComplete(c))
       /\ WF_vars(Call(c))
       /\ WF_vars(ReadData(c))
       /\ WF_vars(\E n \in 1 .. (NumBuffs - 1) : ReadRelease(c, n))

FairSpec == Spec /\ Fairness

-----------------------------------------------------------------------------
(* Indices stay on the ring, whatever the card, the driver and the readers *)
(* do; the rest has the types of the program's variables.                  *)
HwType ==
  /\ hwNext \in [Channel -> Idx(NumBuffs)]
  /\ hwCmplt \in [Channel -> Idx(NumBuffs)]
  /\ writing \in [Channel -> BOOLEAN]
  /\ data \in [Channel -> [Idx(NumBuffs) -> Nat]]
  /\ byteCount \in [Channel -> [Idx(NumBuffs) -> Nat]]
  /\ filled \in [Channel -> Nat]
DrvType ==
  /\ swNext \in [Channel -> Idx(NumBuffs)]
  /\ hwIdx \in [Channel -> Idx(NumBuffs)]
  /\ swIdx \in [Channel -> Idx(NumBuffs)]
  /\ meta \in [Channel -> [Idx(NumBuffs) -> Nat]]
PollType ==
  /\ pollPc \in {"read", "loop", "publish"}
  /\ pollChn \in Channel
  /\ newCmpltIdx \in Idx(NumBuffs)
DevType ==
  /\ devHw \in [Channel -> Idx(NumBuffs)]
  /\ devSw \in [Channel -> Idx(NumBuffs)]
  /\ held \in [Device -> Nat]
  /\ pc \in [Channel -> {"idle", "getinfo", "take", "give", "account",
                         "all", "allgive"}]
  /\ num \in [Channel -> Idx(NumBuffs)]
  /\ inAll \in [Channel -> BOOLEAN]
CallType ==
  /\ out \in [Channel -> Seq([idx : Idx(NumBuffs), len : Nat])]
  /\ released \in [Channel -> Nat]
TypeOK ==
  HwType /\ DrvType /\ PollType /\ DevType /\ CallType /\ restarts \in Nat

(* A buffer handed to a caller holds, until it is given back, the whole    *)
(* packet it was handed out for, with that packet's byte count; and the    *)
(* buffers a caller holds are the oldest ones of the channel, in order,    *)
(* none twice and none left out (read_data, read_release, release_all and  *)
(* the engine that must not lap the reader).                               *)
HandedOutInOrder ==
  \A c \in Channel : \A k \in 1 .. Len(out[c]) :
    /\ out[c][k].len = released[c] + k
    /\ data[c][out[c][k].idx] = released[c] + k

(* Every buffer the driver shows as received holds a whole packet and its  *)
(* byte count: poll_packets stores the byte count before it moves hwIdx,   *)
(* and the engine stays clear of buffers not given back.                   *)
PublishedIsWhole ==
  \A c \in Channel : \A k \in 1 .. delta(hwIdx[c], swNext[c]) :
    LET i == add(swNext[c], k) IN
    data[c][i] = released[c] + k /\ meta[c][i] = released[c] + k

(* The library's cached channel info is never ahead of the driver's:       *)
(* outside read_release it has the driver's swIdx, and a hwIdx that may    *)
(* be old but shows no buffer the driver has not published.                *)
CacheBehindDriver ==
  \A c \in Channel :
    pc[c] \notin {"give", "account"} =>
      devSw[c] = swIdx[c] /\ devDelta(c) <= drvDelta(c)

(* BUF_GIVE gives the card only buffers that were published to the reader, *)
(* so SW_NEXT never overtakes the driver's hwIdx.                          *)
GivesOnlyPublished ==
  [][\A c \in Channel :
       delta(swNext'[c], swNext[c]) <= delta(hwIdx[c], swNext[c])]_swNext

(* A read_release on the DCS channel leaves the DAQ buffers that a caller  *)
(* of the same mu2edev object holds counted as held.                       *)
ReleaseIsPerChannel ==
  [][pc[DCS] = "account" /\ pc'[DCS] # "account" /\ pc[DAQ] = "idle"
       => held'[DevOf[DAQ]] = held[DevOf[DAQ]]]_vars

(* Every packet the card delivers is handed to the caller or, by           *)
(* release_all, given back to the card.  It is enough to say so of the     *)
(* last one, which no later arrival can help along: the card does send     *)
(* all of them, and they leave in order.                                   *)
EveryPacketDelivered ==
  \A c \in Channel :
    filled[c] = MaxPackets[c] ~> released[c] + Len(out[c]) = filled[c]

(* The ring is a bounded first-in first-out queue of packets: the card,    *)
(* poll_packets, the driver and the library together do what RecvFifo      *)
(* promises, and in particular a packet leaves only by read_data followed  *)
(* by read_release, or by release_all.                                     *)
lentPackets == [c \in Channel |-> [k \in 1 .. Len(out[c]) |-> out[c][k].len]]

Fifo == INSTANCE RecvFifo WITH
  Capacity <- NumBuffs - 1,
  produced <- filled,
  lent <- lentPackets

ImplementsFifo == Fifo!Spec

=============================================================================
