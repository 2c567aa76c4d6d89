-------------------------- MODULE RingIndexProofs --------------------------
(* Facts about the ring index arithmetic, for rings of any size. *)
EXTENDS RingIndex, TLAPS

(* For an index of the ring and a step of at most one turn, idx_add takes  *)
(* at most one turn off.                                                   *)
LEMMA AddForward ==
  ASSUME NEW n \in Nat, n >= 1, NEW i \in Idx(n), NEW k \in 0 .. n
  PROVE  idx_add(n, i, k) = IF i + k < n THEN i + k ELSE i + k - n
<1>1. CASE i + k < n
  BY <1>1, SMT DEF idx_add, Idx
<1>2. CASE i + k >= n
  <2>1. i + k - n \in 0 .. n - 1
    BY <1>2 DEF Idx
  <2>2. (i + k) % n = (i + k - n) % n
    BY SMT DEF Idx
  <2> QED BY <1>2, <2>1, <2>2 DEF idx_add, Idx
<1> QED BY <1>1, <1>2 DEF Idx

LEMMA AddOnRing ==
  ASSUME NEW n \in Nat, n >= 1, NEW i \in Idx(n), NEW k \in 0 .. n
  PROVE  idx_add(n, i, k) \in Idx(n)
BY AddForward DEF Idx

-----------------------------------------------------------------------------
(* delta_C2S(n, s, i) is the number of places from i on to s.              *)
LEMMA PlacesRange ==
  ASSUME NEW n \in Nat, n >= 1, NEW i \in Idx(n), NEW s \in Idx(n)
  PROVE  delta_C2S(n, s, i) \in 0 .. n - 1 /\ (delta_C2S(n, s, i) = 0 <=> i = s)
BY DEF delta_C2S, Idx

LEMMA PlacesInjective ==
  ASSUME NEW n \in Nat, n >= 1, NEW i \in Idx(n), NEW j \in Idx(n), NEW s \in Idx(n),
         delta_C2S(n, s, i) = delta_C2S(n, s, j)
  PROVE  i = j
BY DEF delta_C2S, Idx

(* A step forward of i brings it nearer, or once around.                   *)
LEMMA PlacesAfterStep ==
  ASSUME NEW n \in Nat, n >= 1, NEW i \in Idx(n), NEW s \in Idx(n), NEW k \in 0 .. n - 1
  PROVE  delta_C2S(n, s, idx_add(n, i, k)) =
           IF delta_C2S(n, s, i) >= k THEN delta_C2S(n, s, i) - k
                                      ELSE delta_C2S(n, s, i) + n - k
<1>1. k \in 0 .. n
  OBVIOUS
<1> QED BY <1>1, AddForward DEF delta_C2S, Idx

(* A step forward of s takes it further away, or once around.              *)
LEMMA PlacesBeforeStep ==
  ASSUME NEW n \in Nat, n >= 1, NEW i \in Idx(n), NEW s \in Idx(n)
  PROVE  delta_C2S(n, idx_add(n, s, 1), i) =
           IF delta_C2S(n, s, i) = n - 1 THEN 0 ELSE delta_C2S(n, s, i) + 1
<1>1. 1 \in 0 .. n
  OBVIOUS
<1> QED BY <1>1, AddForward DEF delta_C2S, Idx

=============================================================================
