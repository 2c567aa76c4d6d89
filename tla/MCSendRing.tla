----------------------------- MODULE MCSendRing -----------------------------
(* Instances of SendRing for TLC. *)
EXTENDS SendRingInv
CONSTANTS w1, w2
=============================================================================
