---------------------------- MODULE MC_PitchPath ----------------------------
(* The two tasks of the firmware. *)
EXTENDS PitchPath

MCUser == {Audio, Worker}
=============================================================================
