------------------------------ MODULE SendFifo ------------------------------
(***************************************************************************)
(* What an S2C (system to card) DMA channel promises: the card gets every  *)
(* packet that was accepted, in the order of acceptance and with the       *)
(* contents and the size the writer gave, and no more than Capacity        *)
(* packets wait for it.  SendRing implements this for one writer.          *)
(***************************************************************************)
EXTENDS Naturals, Sequences

CONSTANTS Packet, Capacity

VARIABLES accepted,  \* the packets write_data had accepted
          sent       \* the packets the card has read

vars == <<accepted, sent>>

Init == accepted = <<>> /\ sent = <<>>

Accept ==
  /\ Len(accepted) - Len(sent) < Capacity
  /\ \E p \in Packet : accepted' = Append(accepted, p)
  /\ UNCHANGED sent

Deliver ==
  /\ Len(sent) < Len(accepted)
  /\ sent' = Append(sent, accepted[Len(sent) + 1])
  /\ UNCHANGED accepted

Next == Accept \/ Deliver

Spec == Init /\ [][Next]_vars
=============================================================================
