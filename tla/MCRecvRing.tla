----------------------------- MODULE MCRecvRing -----------------------------
(* Instances of RecvRing for TLC. *)
EXTENDS RecvRingInv, TLC

CONSTANTS d1, d2, DaqPackets, DcsPackets

(* One mu2edev object per channel, or one for both. *)
OwnDevices == (DAQ :> d1) @@ (DCS :> d2)
SharedDevice == [c \in Channel |-> d1]

Packets == (DAQ :> DaqPackets) @@ (DCS :> DcsPackets)
=============================================================================
