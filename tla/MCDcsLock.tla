----------------------------- MODULE MCDcsLock -----------------------------
(* Instances of DcsLock for TLC. *)
EXTENDS DcsLock, TLC

CONSTANTS p1, p2, t1, t2, t3, a, b

(* t1 and t2 share a process; t3 has one of its own.                       *)
TwoProcs == (t1 :> p1) @@ (t2 :> p1) @@ (t3 :> p2)
=============================================================================
