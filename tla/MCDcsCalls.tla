----------------------------- MODULE MCDcsCalls -----------------------------
(***************************************************************************)
(* Two processes that share a card, for TLC; which is which is symmetric   *)
(* as far as invariants go.                                                *)
(***************************************************************************)
EXTENDS DcsCallsInv, TLC

CallersSymmetry == Permutations(Callers)
=============================================================================
