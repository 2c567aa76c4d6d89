----------------------------- MODULE RingIndex -----------------------------
(***************************************************************************)
(* Index arithmetic of the DMA descriptor rings, shared by the kernel      *)
(* driver and the user library (mu2e_driver/mu2e_mmap_ioctl.h).  A ring of *)
(* n descriptors is indexed 0 .. n-1; the C code takes n from              *)
(* mu2e_channel_info_[dtc][chn][dir].num_buffs.                            *)
(***************************************************************************)
EXTENDS Integers

Idx(n) == 0 .. (n - 1)

(* Mutant of idx_add: the wrap at the end of the ring is missing.          *)
idx_add_NoWrap(n, i, k) == i + k

(* The index k places after i, or -k places before it when k < 0 (the C    *)
(* code is only ever given |k| <= n).                                      *)
idx_add(n, i, k) ==
  IF k < 0 /\ -k > i THEN (n - (-k - i)) % n ELSE (i + k) % n

(* mu2e_chn_info_delta_ for dir = C2S: buffers the hardware has filled     *)
(* and the software has not given back.  hw = sw means none.               *)
delta_C2S(n, hw, sw) == IF hw >= sw THEN hw - sw ELSE n + hw - sw

(* mu2e_chn_info_delta_ for dir = S2C: descriptors free for sending.       *)
(* hw = sw means all of them.                                              *)
delta_S2C(n, hw, sw) == IF sw >= hw THEN n - (sw - hw) ELSE hw - sw

=============================================================================
