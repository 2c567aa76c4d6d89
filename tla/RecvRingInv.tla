---------------------------- MODULE RecvRingInv ----------------------------
(***************************************************************************)
(* The inductive invariant behind RecvRing's safety properties, for        *)
(* channels read through different mu2edev objects.  Everything is told by *)
(* distance: since(c, i) is how many places index i of channel c lies      *)
(* after SW_NEXT, the last buffer given back, and on both channels         *)
(*                                                                         *)
(*    SW_NEXT <= lent buffers <= devHw <= hwIdx <= newCmpltIdx <= HW_CMPLT *)
(*                                                                         *)
(* in that distance, where buffer number k of the window holds packet      *)
(* released[c] + k.                                                        *)
(***************************************************************************)
EXTENDS RecvRing

(* Each channel is read through a mu2edev object of its own.               *)
OwnObjects == DevOf[DAQ] # DevOf[DCS]

since(c, i) == delta(i, swNext[c])

(* A read_release or release_all of channel c has given buffers back to    *)
(* the card that the library's cached swIdx does not reflect yet.          *)
Giving(c) == pc[c] \in {"give", "account"}

(* The engine: what it has filled and not been given back are the buffers  *)
(* up to HW_CMPLT, each whole.                                             *)
HwInv(c) ==
  /\ hwNext[c] = add(hwCmplt[c], 1)
  /\ filled[c] = released[c] + since(c, hwCmplt[c])
  /\ writing[c] => hwNext[c] # swNext[c]
  /\ \A i \in Idx(NumBuffs) :
       since(c, i) \in 1 .. since(c, hwCmplt[c]) =>
         /\ data[c][i] = released[c] + since(c, i)
         /\ byteCount[c][i] = released[c] + since(c, i)

(* The driver: hwIdx trails HW_CMPLT, the META page is right up to hwIdx,  *)
(* and swIdx is SW_NEXT except in the middle of BUF_GIVE.                  *)
DrvInv(c) ==
  /\ since(c, hwIdx[c]) <= since(c, hwCmplt[c])
  /\ \A i \in Idx(NumBuffs) :
       since(c, i) \in 1 .. since(c, hwIdx[c]) =>
         meta[c][i] = released[c] + since(c, i)
  /\ swIdx[c] = IF pc[c] = "give" THEN devSw[c] ELSE swNext[c]

(* poll_packets: the completed index it works towards lies between hwIdx   *)
(* and HW_CMPLT, though the card has moved on since it was read.           *)
PollInv ==
  LET c == pollChn IN
  /\ pollPc \in {"loop", "publish"} =>
       /\ since(c, hwIdx[c]) <= since(c, newCmpltIdx)
       /\ since(c, newCmpltIdx) <= since(c, hwCmplt[c])
  /\ pollPc = "publish" =>
       /\ newCmpltIdx # hwIdx[c]
       /\ meta[c][add(hwIdx[c], 1)] = byteCount[c][add(hwIdx[c], 1)]

(* The library: its copy of the channel info is behind by what it is       *)
(* giving back, and shows nothing the driver has not published.            *)
DevInv(c) ==
  /\ delta(swNext[c], devSw[c]) = IF Giving(c) THEN num[c] ELSE 0
  /\ since(c, devHw[c]) <= since(c, hwIdx[c])
  /\ Giving(c) => num[c] <= devDelta(c)

(* What is held is lent: buffers_held_ counts the buffers the DAQ caller   *)
(* has, is never used for DCS, and stays within the cached channel info.   *)
LentInv(c) ==
  LET h == held[DevOf[c]] IN
  /\ Len(out[c]) + (IF Giving(c) THEN num[c] ELSE 0) <= devDelta(c)
  /\ pc[c] \in {"idle", "getinfo", "take"} => ~inAll[c]
  /\ pc[c] \in {"all", "allgive"} => inAll[c]
  /\ inAll[c] => out[c] = <<>>
  /\ pc[c] = "take" => h < devDelta(c)
  /\ c = DAQ /\ ~inAll[c] =>
       h = Len(out[c]) + (IF Giving(c) THEN num[c] ELSE 0)
  /\ c = DCS => h = 0 /\ Len(out[c]) <= 1
  /\ c = DCS /\ pc[c] \in {"getinfo", "take"} => out[c] = <<>>

OutInv(c) ==
  \A k \in 1 .. Len(out[c]) :
    /\ since(c, out[c][k].idx) = k
    /\ out[c][k].len = released[c] + k

ChannelInv(c) == HwInv(c) /\ DrvInv(c) /\ DevInv(c) /\ LentInv(c) /\ OutInv(c)

(* Every quantity of the receive path is where the others say it is: the   *)
(* engine, poll_packets, BUF_GIVE, the cached channel info and             *)
(* buffers_held_ agree on which buffer holds which packet at every step.   *)
IInv == PollInv /\ \A c \in Channel : ChannelInv(c)

=============================================================================
