------------------------------ MODULE SendRing ------------------------------
(***************************************************************************)
(* The send (S2C) path of one channel: a writer copies a packet into the   *)
(* ring's buffers, which its process has mapped, and asks the driver to    *)
(* transmit "the next one"; the driver marks the descriptor and moves      *)
(* SW_NEXT; the card sends the buffer and sets the descriptor's Complete   *)
(* bit; the driver finds out how far the card is by walking those bits.    *)
(*                                                                         *)
(*   write_data --memcpy--> buffer[cached swIdx]                           *)
(*              --BUF_XMIT--> driver: buffer[swIdx] --SW_NEXT--> card      *)
(*                                                                         *)
(* The buffer to fill is chosen from the channel info cached in the        *)
(* writer's mu2edev object, the buffer to transmit from the driver's.      *)
(*                                                                         *)
(* A packet is represented by its number, which stands for its contents    *)
(* and for its byte count.                                                 *)
(***************************************************************************)
EXTENDS RingIndex, Sequences

CONSTANTS NumBuffs,     \* MU2E_NUM_SEND_BUFFS
          Writer,       \* mu2edev objects that write to the channel
          MaxPackets,   \* bound: calls of write_data
          MaxRestarts   \* bound: deaths of a writer's process

ASSUME SendConstants ==
  /\ NumBuffs \in Nat /\ NumBuffs >= 2
  /\ MaxPackets \in Nat /\ MaxRestarts \in Nat

VARIABLES
  (* The card. *)
  hwNext,     \* register HW_NEXT_BD: the descriptor to be sent next
  swNext,     \* register SW_NEXT_BD: the engine stops before this one
  sent,       \* what the card has read: contents and byte count
  (* Shared memory: buffers and descriptors. *)
  data,       \* contents of each buffer
  complete, byteCount,
  (* The driver's channel info. *)
  hwIdx, swIdx,
  (* Writers: the cached channel info, and the call in progress. *)
  devHw, devSw,
  pc, packet, myIdx,
  written,    \* calls of write_data so far
  accepted,   \* packets BUF_XMIT passed to the card, in order
  restarts

hwVars == <<hwNext, sent>>
memVars == <<data, complete, byteCount>>
drvVars == <<swNext, hwIdx, swIdx>>
devVars == <<devHw, devSw>>
callVars == <<pc, packet, myIdx>>
vars == <<hwVars, memVars, drvVars, devVars, callVars, written, accepted, restarts>>

add(i, k) == idx_add(NumBuffs, i, k)

goto(w, l) == pc' = [pc EXCEPT ![w] = l]

-----------------------------------------------------------------------------
(* alloc_mem (all descriptors Complete), then init of each writer.         *)
Init ==
  /\ hwNext = 0 /\ swNext = 0 /\ sent = <<>>
  /\ data = [i \in Idx(NumBuffs) |-> 0]
  /\ complete = [i \in Idx(NumBuffs) |-> TRUE]
  /\ byteCount = [i \in Idx(NumBuffs) |-> 0]
  /\ hwIdx = 0 /\ swIdx = 0
  /\ devHw = [w \in Writer |-> 0] /\ devSw = [w \in Writer |-> 0]
  /\ pc = [w \in Writer |-> "idle"]
  /\ packet = [w \in Writer |-> 0]
  /\ myIdx = [w \in Writer |-> 0]
  /\ written = 0 /\ accepted = <<>> /\ restarts = 0

(* The card (external) sends the buffers up to SW_NEXT.                    *)
HwSend ==
  /\ hwNext # swNext
  /\ sent' = Append(sent, [data |-> data[hwNext], len |-> byteCount[hwNext]])
  /\ complete' = [complete EXCEPT ![hwNext] = TRUE]
  /\ hwNext' = add(hwNext, 1)
  /\ UNCHANGED <<data, byteCount, drvVars, devVars, callVars, written, accepted, restarts>>

-----------------------------------------------------------------------------
(* How far the driver's hwIdx can follow the Complete bits towards stop    *)
(* (GET_INFO and BUF_XMIT; the walk's count-down from num_buffs never ends *)
(* it, stop being less than that away).                                    *)
walkedNot(stop) == hwIdx                  \* mutant: hwIdx stays
walked(stop) ==
  LET goesOn(k) == complete[add(hwIdx, k)] /\ add(hwIdx, k) # stop
      steps == CHOOSE k \in Idx(NumBuffs) :
                 ~goesOn(k) /\ \A j \in 0 .. (k - 1) : goesOn(j)
  IN  add(hwIdx, steps)

(* write_data.  With the lock of the DCS channel, or a single writer, only *)
(* one call is in progress.  One buffer must stay free, or the card would  *)
(* take a full ring for an empty one.                                      *)
roomForOne(hw, sw) == delta_S2C(NumBuffs, hw, sw) > 0   \* mutant: fills the ring
room(hw, sw) == delta_S2C(NumBuffs, hw, sw) > 1

WriteData(w) ==
  /\ \A v \in Writer : pc[v] = "idle"
  /\ written < MaxPackets
  /\ written' = written + 1
  /\ packet' = [packet EXCEPT ![w] = written + 1]
  /\ goto(w, IF room(devHw[w], devSw[w]) THEN "copy" ELSE "getinfo")
  /\ UNCHANGED <<hwVars, memVars, drvVars, devVars, myIdx, accepted, restarts>>

(* M_IOC_GET_INFO for S2C updates the driver's hwIdx, then copies both.    *)
getInfo(w) ==
  /\ hwIdx' = walked(swIdx)
  /\ devHw' = [devHw EXCEPT ![w] = hwIdx']
  /\ devSw' = [devSw EXCEPT ![w] = swIdx]

WriteGetInfo(w) ==
  /\ pc[w] = "getinfo"
  /\ getInfo(w)
  /\ goto(w, IF room(hwIdx', swIdx) THEN "copy" ELSE "getinfo")
  /\ UNCHANGED <<hwVars, memVars, swNext, swIdx, packet, myIdx, written, accepted, restarts>>

(* HW_NOT_READING_BUFS: no room within a second.                           *)
WriteTimeout(w) ==
  /\ pc[w] = "getinfo"
  /\ goto(w, "idle")
  /\ UNCHANGED <<hwVars, memVars, drvVars, devVars, packet, myIdx, written, accepted, restarts>>

(* The memcpy, before the driver has been asked.                           *)
copyIdxAhead(w) == add(devSw[w], 1)       \* mutant: the buffer after it
copyIdx(w) == devSw[w]

WriteCopy(w) ==
  /\ pc[w] = "copy"
  /\ data' = [data EXCEPT ![copyIdx(w)] = packet[w]]
  /\ goto(w, "xmit")
  /\ UNCHANGED <<hwVars, complete, byteCount, drvVars, devVars, packet, myIdx>>
  /\ UNCHANGED <<written, accepted, restarts>>

-----------------------------------------------------------------------------
(* M_IOC_BUF_XMIT: EAGAIN unless the descriptor is complete (write_data    *)
(* repeats the ioctl 15 times, then returns the error) ...                 *)
XmitCheck(w) ==
  /\ pc[w] = "xmit"
  /\ myIdx' = [myIdx EXCEPT ![w] = swIdx]
  /\ goto(w, IF complete[swIdx] THEN "mark" ELSE "idle")
  /\ UNCHANGED <<hwVars, memVars, drvVars, devVars, packet, written, accepted, restarts>>

(* ... then it is marked and given its size ...                            *)
XmitMark(w) ==
  /\ pc[w] = "mark"
  /\ complete' = [complete EXCEPT ![myIdx[w]] = FALSE]
  /\ byteCount' = [byteCount EXCEPT ![myIdx[w]] = packet[w]]
  /\ goto(w, "go")
  /\ UNCHANGED <<hwVars, data, drvVars, devVars, packet, myIdx, written, accepted, restarts>>

(* ... hwIdx is brought up to date and SW_NEXT moved past the descriptor,  *)
(* on which the card sends it ...                                          *)
xmitUpTo(w) == myIdx[w]               \* mutant: not past the descriptor
xmitPast(w) == add(myIdx[w], 1)

XmitGo(w) ==
  /\ pc[w] = "go"
  /\ hwIdx' = walked(myIdx[w])
  /\ swNext' = xmitPast(w)
  /\ accepted' = Append(accepted, packet[w])
  /\ goto(w, "swidx")
  /\ UNCHANGED <<hwVars, memVars, swIdx, devVars, packet, myIdx, written, restarts>>

(* ... and last the driver's swIdx follows.                                *)
XmitSwIdx(w) ==
  /\ pc[w] = "swidx"
  /\ swIdx' = add(myIdx[w], 1)
  /\ goto(w, "account")
  /\ UNCHANGED <<hwVars, memVars, swNext, hwIdx, devVars, packet, myIdx>>
  /\ UNCHANGED <<written, accepted, restarts>>

(* Back in write_data, the cached swIdx follows.                           *)
WriteAccount(w) ==
  /\ pc[w] = "account"
  /\ devSw' = [devSw EXCEPT ![w] = add(@, 1)]
  /\ goto(w, "idle")
  /\ UNCHANGED <<hwVars, memVars, drvVars, devHw, packet, myIdx, written, accepted, restarts>>

(* A writer's process dies, outside the driver, and a new one opens the    *)
(* device and asks for the channel info.                                   *)
Restart(w) ==
  /\ restarts < MaxRestarts
  /\ pc[w] \notin {"mark", "go", "swidx"}
  /\ restarts' = restarts + 1
  /\ getInfo(w)
  /\ goto(w, "idle")
  /\ UNCHANGED <<hwVars, memVars, swNext, swIdx, packet, myIdx, written, accepted>>

-----------------------------------------------------------------------------
Call(w) ==
  \/ WriteGetInfo(w) \/ WriteTimeout(w) \/ WriteCopy(w)
  \/ XmitCheck(w) \/ XmitMark(w) \/ XmitGo(w) \/ XmitSwIdx(w)
  \/ WriteAccount(w)

Next ==
  \/ HwSend
  \/ \E w \in Writer : WriteData(w) \/ Call(w) \/ Restart(w)

Spec == Init /\ [][Next]_vars

(* The card sends what it was given.                                       *)
FairSpec == Spec /\ WF_vars(HwSend)

-----------------------------------------------------------------------------
(* Indices stay on the ring and the rest has the program's types.          *)
TypeOK ==
  /\ {hwNext, swNext, hwIdx, swIdx} \subseteq Idx(NumBuffs)
  /\ sent \in Seq([data : Nat, len : Nat])
  /\ data \in [Idx(NumBuffs) -> Nat]
  /\ byteCount \in [Idx(NumBuffs) -> Nat]
  /\ complete \in [Idx(NumBuffs) -> BOOLEAN]
  /\ devHw \in [Writer -> Idx(NumBuffs)] /\ devSw \in [Writer -> Idx(NumBuffs)]
  /\ pc \in [Writer -> {"idle", "getinfo", "copy", "xmit", "mark", "go", "swidx",
                        "account"}]
  /\ packet \in [Writer -> Nat] /\ myIdx \in [Writer -> Idx(NumBuffs)]
  /\ {written, restarts} \subseteq Nat /\ accepted \in Seq(Nat)

(* What the card sends for a call of write_data is the packet that the     *)
(* caller passed, with that packet's size.                                 *)
SentAsWritten ==
  \A k \in 1 .. Len(sent) : sent[k] = [data |-> accepted[k], len |-> accepted[k]]

(* The card's view of the ring, between HW_NEXT and SW_NEXT, is exactly    *)
(* the packets accepted and not yet sent: a full ring never looks empty,   *)
(* and no packet is sent twice or left behind (the "delta <= 1" of         *)
(* write_data, Complete and the walk of hwIdx).                            *)
RingHoldsAccepted ==
  Len(accepted) - Len(sent) = (swNext + NumBuffs - hwNext) % NumBuffs

(* A writer fills only a buffer that the card is done with.                *)
CopiesIntoFree ==
  [][\A i \in Idx(NumBuffs) : data'[i] # data[i] =>
       complete[i] /\ \A k \in 0 .. (Len(accepted) - Len(sent) - 1) : add(hwNext, k) # i]_data

(* What GET_INFO tells a writer that asks is "no room" only while the ring *)
(* really holds as many packets as it can (the walk over the Complete bits *)
(* is never stuck behind the card), and who was told there is room is not  *)
(* answered EAGAIN by BUF_XMIT.                                            *)
RefusedOnlyWhenFull ==
  \A w \in Writer :
    /\ pc[w] = "getinfo" /\ ~room(walked(swIdx), swIdx) =>
         Len(accepted) - Len(sent) = NumBuffs - 1
    /\ pc[w] = "xmit" => complete[swIdx]

(* Every packet that BUF_XMIT accepted is sent, however many writers, dead *)
(* or alive, the channel has had since.                                    *)
EveryAcceptedSent ==
  \A n \in 1 .. MaxPackets : Len(accepted) >= n ~> Len(sent) >= n

(* The packets the card reads, as SendFifo sees them.                      *)
Fifo == INSTANCE SendFifo WITH
  Packet <- 1 .. MaxPackets,
  Capacity <- NumBuffs - 1,
  sent <- [k \in 1 .. Len(sent) |-> sent[k].data]

(* The ring implements the FIFO for a single writer.                       *)
ImplementsFifo == Fifo!Spec
=============================================================================
