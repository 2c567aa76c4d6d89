------------------------------ MODULE MCReadout ------------------------------
(* An instance of Readout: a ring of three buffers of two words, and        *)
(* events of half a buffer, of one and a half, and longer than the ring.    *)
EXTENDS ReadoutInv
=============================================================================
