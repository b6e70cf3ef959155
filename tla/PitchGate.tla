------------------------------ MODULE PitchGate ------------------------------
(***************************************************************************)
(* components/vocal_fx/src/vocal_fx.cpp: the gate in front of the pitch    *)
(* analysis.  The audio task (which taps its input into the analysis) and  *)
(* the pitch worker (which runs the hops) enter it together, without a     *)
(* lock; a reset or a re-initialization shuts it, waits until both are     *)
(* out, and has the analysis to itself.  The gate is one atomic word,      *)
(* pitch_users: bit 31 says that a reset is on, the rest counts the users. *)
(*                                                                         *)
(* Every atomic access is a step.  The compare-and-swap is the weak one:   *)
(* it may fail although the word is the expected one.                      *)
(***************************************************************************)
EXTENDS Naturals, FiniteSets

CONSTANT User       \* the tasks that enter: audio and pitch worker

ASSUME UserAssumption == IsFiniteSet(User)

VARIABLES
    users,          \* pitch_users without bit 31
    resetting,      \* bit 31
    enabled,        \* e.cfg.enable_pitch_analysis
    user,           \* where each task stands
    expected,       \* the word it loaded last
    resetter        \* where the coordinator stands

vars == <<users, resetting, enabled, user, expected, resetter>>

Word == [users : Nat, resetting : BOOLEAN]
PitchUsers == [users |-> users, resetting |-> resetting]

Init ==
    /\ users = 0 /\ resetting = FALSE
    /\ enabled = TRUE
    /\ user = [u \in User |-> "out"]
    /\ expected = [u \in User |-> PitchUsers]
    /\ resetter = "idle"

-----------------------------------------------------------------------------
(* enter_pitch_path, leave_pitch_path *)

(* vocal_fx_process and vocal_fx_run_pitch_analysis try to enter only if   *)
(* the analysis is enabled; the first step of entering loads the word.     *)
Try(u) ==
    /\ user[u] = "out"
    /\ enabled
    /\ user' = [user EXCEPT ![u] = "enter"]
    /\ expected' = [expected EXCEPT ![u] = PitchUsers]
    /\ UNCHANGED <<users, resetting, enabled, resetter>>

\* Bug: a task that was refused leaves all the same.
BugRefused(u) ==
    /\ user[u] = "enter"
    /\ expected[u].resetting
    /\ users' = users - 1
    /\ user' = [user EXCEPT ![u] = "out"]
    /\ UNCHANGED <<resetting, enabled, expected, resetter>>

Refused(u) ==
    /\ user[u] = "enter"
    /\ expected[u].resetting
    /\ user' = [user EXCEPT ![u] = "out"]
    /\ UNCHANGED <<users, resetting, enabled, expected, resetter>>

Enter(u) ==
    /\ user[u] = "enter"
    /\ ~expected[u].resetting
    /\ PitchUsers = expected[u]
    /\ users' = users + 1
    /\ user' = [user EXCEPT ![u] = "in"]
    /\ UNCHANGED <<resetting, enabled, expected, resetter>>

(* The swap fails, and loads the word anew. *)
EnterFails(u) ==
    /\ user[u] = "enter"
    /\ ~expected[u].resetting
    /\ expected' = [expected EXCEPT ![u] = PitchUsers]
    /\ UNCHANGED <<users, resetting, enabled, user, resetter>>

Leave(u) ==
    /\ user[u] = "in"
    /\ users' = users - 1
    /\ user' = [user EXCEPT ![u] = "out"]
    /\ UNCHANGED <<resetting, enabled, expected, resetter>>

-----------------------------------------------------------------------------
(* reset_pitch_analysis (for vocal_fx_reset, if the analysis is enabled)    *)
(* and vocal_fx_init_pitch_analysis, which may fail                         *)

Shut(then) ==
    /\ resetter = "idle"
    /\ then = "wait_reset" => enabled
    /\ resetting' = TRUE
    /\ resetter' = then
    /\ UNCHANGED <<users, enabled, user, expected>>

\* Bug: the reset does not wait for those inside.
BugResetAlone ==
    /\ resetter = "wait_reset"
    /\ resetter' = "reset"
    /\ UNCHANGED <<users, resetting, enabled, user, expected>>

\* Bug: the reset waits for the whole word, its own bit included, to be 0.
BugResetUnmasked ==
    /\ resetter = "wait_reset"
    /\ users = 0 /\ ~resetting
    /\ resetter' = "reset"
    /\ UNCHANGED <<users, resetting, enabled, user, expected>>

(* The load that finds nobody in ends the spin. *)
ResetAlone ==
    /\ resetter = "wait_reset"
    /\ users = 0
    /\ resetter' = "reset"
    /\ UNCHANGED <<users, resetting, enabled, user, expected>>

InitAlone ==
    /\ resetter = "wait_init"
    /\ users = 0
    /\ resetter' = "init"
    /\ enabled' = FALSE
    /\ UNCHANGED <<users, resetting, user, expected>>

InitDone ==
    /\ resetter = "init"
    /\ enabled' \in BOOLEAN
    /\ resetter' = "reset"
    /\ UNCHANGED <<users, resetting, user, expected>>

(* pitch_users.store(0) *)
Reopen ==
    /\ resetter = "reset"
    /\ users' = 0 /\ resetting' = FALSE
    /\ resetter' = "idle"
    /\ UNCHANGED <<enabled, user, expected>>

Resetter == (\E then \in {"wait_reset", "wait_init"} : Shut(then))
                \/ ResetAlone \/ InitAlone \/ InitDone \/ Reopen
Task(u) == Try(u) \/ Refused(u) \/ Enter(u) \/ EnterFails(u) \/ Leave(u)

Next == Resetter \/ \E u \in User : Task(u)

Spec == Init /\ [][Next]_vars

-----------------------------------------------------------------------------
Inside == {u \in User : user[u] = "in"}
Alone  == resetter \in {"reset", "init"}

TypeOK ==
    /\ users \in Nat /\ resetting \in BOOLEAN /\ enabled \in BOOLEAN
    /\ user \in [User -> {"out", "enter", "in"}]
    /\ expected \in [User -> Word]
    /\ resetter \in {"idle", "wait_reset", "wait_init", "reset", "init"}

(* While the analysis is being reset or initialized no task is inside it,  *)
(* though the gate's word was checked before and with no lock held, and    *)
(* though a task may swap against a word it loaded long ago.               *)
ResetIsAlone == Alone => Inside = {}

(* The word always counts exactly the tasks inside: no reset that stores 0 *)
(* forgets one, which would let the next reset start under its feet.       *)
CountExact == users = Cardinality(Inside)

(* A reset is never kept waiting for good, however often tasks knock.      *)
ResetEnds == [](resetter # "idle" => <>(resetter = "idle"))
=============================================================================
