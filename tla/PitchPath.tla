------------------------------ MODULE PitchPath ------------------------------
(***************************************************************************)
(* The pitch path: the samples of AnalysisFeed behind the gate of PitchGate. *)
(* The audio task taps each block, and the pitch worker runs the analysis,  *)
(* only between entering the gate and leaving it; the coordinator resets   *)
(* the analysis, or initializes it anew, behind the gate it has shut       *)
(* (components/vocal_fx/src/vocal_fx.cpp).                                 *)
(*                                                                         *)
(* Nobody being inside, a reset is one step, the last: the store that      *)
(* opens the gate again.                                                   *)
(***************************************************************************)
EXTENDS PitchGate, AnalysisFeed

CONSTANTS Audio, Worker

ASSUME PathAssumption == Audio # Worker /\ User = {Audio, Worker}

pathVars == <<vars, feedVars>>

PathInit == Init /\ FeedInit

(* vocal_fx_process: a block is tapped whole before the task leaves, and   *)
(* not at all if the gate is shut.                                         *)
AudioTask ==
    \/ /\ Try(Audio) \/ Enter(Audio) \/ EnterFails(Audio) \/ Refused(Audio)
       /\ UNCHANGED feedVars
    \/ /\ user[Audio] = "in"
       /\ Push
       /\ UNCHANGED vars
    \/ /\ tap = "idle"
       /\ Leave(Audio)
       /\ UNCHANGED feedVars

(* vocal_fx_run_pitch_analysis *)
WorkerTask ==
    \/ /\ Try(Worker) \/ Enter(Worker) \/ EnterFails(Worker) \/ Refused(Worker)
       /\ UNCHANGED feedVars
    \/ /\ user[Worker] = "in"
       /\ Run
       /\ UNCHANGED vars
    \/ /\ worker = "idle"
       /\ Leave(Worker)
       /\ UNCHANGED feedVars

Coordinator ==
    \/ /\ \/ \E then \in {"wait_reset", "wait_init"} : Shut(then)
          \/ ResetAlone \/ InitAlone \/ InitDone
       /\ UNCHANGED feedVars
    \/ Reopen /\ ResetFeed

PathNext == AudioTask \/ WorkerTask \/ Coordinator

PathSpec == PathInit /\ [][PathNext]_pathVars

(* Each task runs on once it is inside, to the end of its block or run     *)
(* (MaxInput stands for the end of a block), and a reset, once begun, goes *)
(* on.  Entering is not fair.                                              *)
PathFairness ==
    /\ WF_pathVars(Coordinator /\ resetter # "idle")
    /\ WF_pathVars(AudioTask /\ user[Audio] = "in")
    /\ WF_pathVars(WorkerTask /\ user[Worker] = "in")
FairPathSpec == PathSpec /\ PathFairness

-----------------------------------------------------------------------------
(* A block that is refused leaves no hole that the positions do not show:  *)
(* the reset that shut the gate is still to come to its end, or no sample  *)
(* has been tapped since.  A refusal may come late, from a word loaded     *)
(* before the gate was opened again.                                       *)
RefusalLeavesNoHole ==
    [][Refused(Audio) => resetter # "idle" \/ input = 0]_pathVars
=============================================================================
