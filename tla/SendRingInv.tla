---------------------------- MODULE SendRingInv ----------------------------
(***************************************************************************)
(* The inductive invariant behind SendRing's safety properties, for a      *)
(* channel with one writer.  Everything is told by distance: toGo(i) is    *)
(* how many places index i lies before SW_NEXT, and in that distance       *)
(*                                                                         *)
(*         SW_NEXT <= HW_NEXT <= the driver's hwIdx <= the writer's        *)
(*                                                                         *)
(* where the buffer with k places to go holds the k-th of the packets      *)
(* accepted, counted from the last one.                                    *)
(***************************************************************************)
EXTENDS SendRing

OneWriter == \A v, w \in Writer : v = w

toGo(i) == delta_C2S(NumBuffs, swNext, i)

\* The packet the buffer with index i holds for the card.
Due(i) == accepted[Len(accepted) + 1 - toGo(i)]

(* The card: what it has not sent of what was accepted is in the buffers   *)
(* from HW_NEXT on, and the flags of these alone are down, but for the     *)
(* buffer that is being given to it.                                       *)
HwInv ==
  /\ Len(accepted) = Len(sent) + toGo(hwNext)
  /\ \A i \in Idx(NumBuffs) : toGo(i) \in 1 .. toGo(hwNext) =>
       /\ ~complete[i]
       /\ data[i] = Due(i) /\ byteCount[i] = Due(i)
  /\ \A i \in Idx(NumBuffs) : toGo(i) \notin 1 .. toGo(hwNext) =>
       \/ complete[i]
       \/ i = swNext /\ \E w \in Writer : pc[w] = "go"

(* The driver: hwIdx follows HW_NEXT, and swIdx is SW_NEXT except at the   *)
(* end of BUF_XMIT.                                                        *)
DrvInv ==
  /\ toGo(hwNext) <= toGo(hwIdx)
  /\ (\A w \in Writer : pc[w] # "swidx") => swIdx = swNext

(* The writer: its cached indices are behind by its last packet at most,   *)
(* and its packet is in the buffer that is next.                           *)
DevInv(w) ==
  /\ toGo(hwIdx) <= toGo(devHw[w])
  /\ IF pc[w] \in {"swidx", "account"} THEN swNext = add(devSw[w], 1) ELSE swNext = devSw[w]
  /\ pc[w] \in {"mark", "go", "swidx"} => myIdx[w] = swIdx
  /\ pc[w] = "swidx" => swNext = add(swIdx, 1)
  /\ pc[w] \in {"copy", "xmit", "mark", "go"} => toGo(devHw[w]) <= NumBuffs - 2
  /\ pc[w] \in {"xmit", "mark", "go"} => data[swNext] = packet[w]
  /\ pc[w] = "go" => byteCount[swNext] = packet[w] /\ ~complete[swNext]
  /\ pc[w] # "idle" => packet[w] \in 1 .. MaxPackets

(* What the card, the driver and the writer take for the state of the ring *)
(* agrees at every step, in the middle of BUF_XMIT too, and the packets    *)
(* accepted are where it says.                                             *)
IInv ==
  /\ SentAsWritten
  /\ HwInv
  /\ DrvInv
  /\ \A w \in Writer : DevInv(w)
=============================================================================
