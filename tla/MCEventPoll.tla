---------------------------- MODULE MCEventPoll ----------------------------
(* Instances of EventPoll for TLC. *)
EXTENDS EventPoll, TLC
=============================================================================
