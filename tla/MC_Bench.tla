------------------------------ MODULE MC_Bench ------------------------------
(* Every script on the bench, run twice, with two faults. *)
EXTENDS BenchRun, BenchScripts
=============================================================================
