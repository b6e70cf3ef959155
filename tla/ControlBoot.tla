---------------------------- MODULE ControlBoot ----------------------------
(***************************************************************************)
(* How the control plane and the audio engine come up together: the        *)
(* control task (main/voxlink_service.cpp, control/vocal_fx_param_binding) *)
(* serves SET_PARAM from power-on and seeds every registry default once    *)
(* the engine is ready; the coordinator (main/i2s_bringup.cpp) initializes *)
(* the engine, pushes the parameters of its mode and starts the audio      *)
(* task, which drains the parameter queue at each block boundary.          *)
(*                                                                         *)
(* The queue is the ring of ParameterQueue.  A block drains it in one step  *)
(* here, and a push takes two, the loads and the stores: between them      *)
(* another task may run.                                                   *)
(* The coordinator initializes the engine once, as the product modes do;   *)
(* that, or the start of the tasks, may fail, and the tasks may be stopped. *)
(***************************************************************************)
EXTENDS Integers, Sequences, SequencesExt

CONSTANTS
    Registry,       \* the registered parameters, in registry order
    Value,          \* normalized values
    Default,        \* registry defaults, also ProductState's initial values
    Config,         \* the engine's targets after vocal_fx_init(config)
    Modes,          \* for each mode of the build, the changes its
                    \* coordinator pushes after init
    Capacity,       \* slots of the ring
    MaxSets         \* bound: SET_PARAM requests in all

Param  == {Registry[i] : i \in 1..Len(Registry)}
Change == [parameter : Param, value : Value]
Slots  == 0..(Capacity - 1)

ASSUME BootAssumption ==
    /\ Capacity \in Nat /\ Capacity > 1 /\ MaxSets \in Nat
    /\ Registry \in Seq(Param) /\ Registry # <<>>
    /\ Default \in [Param -> Value] /\ Config \in [Param -> Value]
    /\ Modes \subseteq Seq(Change)

VARIABLES
    entries, head, tail,    \* parameter_queue
    mode,           \* the changes of the mode that was built
    control,        \* where the control task stands
    coordinator,    \* where the coordinator stands
    pushing,        \* per task: the change and the slot of its push
    values,         \* ProductState values
    early,          \* parameters last SET before seeding was complete
    sets,           \* SET_PARAM requests so far
    seeded,         \* whether every default has been accepted
    allAccepted,    \* ... so far, in the attempt in progress
    seedNext,       \* the registry index of that attempt
    modeNext,       \* index of the coordinator's next change
    ready,          \* e.ready
    targets         \* the engine's effective parameters

queueVars == <<entries, head, tail>>
controlVars == <<control, values, early, sets, seeded, allAccepted, seedNext>>
coordinatorVars == <<mode, coordinator, modeNext, ready>>
vars == <<queueVars, controlVars, coordinatorVars, pushing, targets>>

Task == {"control", "coordinator"}
Increment(index) == (index + 1) % Capacity

NoChange == [parameter |-> Registry[1], value |-> Config[Registry[1]]]

Init ==
    /\ entries = [s \in Slots |-> NoChange] /\ head = 0 /\ tail = 0
    /\ mode \in Modes
    /\ control = "idle" /\ coordinator = "delay"
    /\ pushing = [t \in Task |-> [change |-> NoChange, slot |-> 0]]
    /\ values = Default /\ early = {} /\ sets = 0
    /\ seeded = FALSE /\ allAccepted = TRUE /\ seedNext = 1
    /\ modeNext = 1 /\ ready = FALSE
    /\ targets = Config

-----------------------------------------------------------------------------
(* push(): what a task loads, and later stores *)

Full == Increment(head) = tail

PushLoad(task, change) ==
    /\ ~Full
    /\ pushing' = [pushing EXCEPT ![task] = [change |-> change, slot |-> head]]
    /\ UNCHANGED queueVars

PushStore(task) ==
    /\ entries' = [entries EXCEPT ![pushing[task].slot] = pushing[task].change]
    /\ head' = Increment(pushing[task].slot)
    /\ UNCHANGED <<tail, pushing>>

-----------------------------------------------------------------------------
(* The control task: SET_PARAM as Session::handle_set_param serves it. *)

SetRejected ==
    /\ control = "idle" /\ sets < MaxSets
    /\ Full
    /\ sets' = sets + 1
    /\ UNCHANGED <<queueVars, control, values, early, seeded, allAccepted,
                   seedNext, coordinatorVars, pushing, targets>>

SetBegin(change) ==
    /\ control = "idle" /\ sets < MaxSets
    /\ PushLoad("control", change)
    /\ control' = "set"
    /\ sets' = sets + 1
    /\ UNCHANGED <<values, early, seeded, allAccepted, seedNext,
                   coordinatorVars, targets>>

SetEnd ==
    LET change == pushing["control"].change
    IN  /\ control = "set"
        /\ PushStore("control")
        /\ values' = [values EXCEPT ![change.parameter] = change.value]
        /\ early' = IF seeded THEN early \ {change.parameter}
                    ELSE early \union {change.parameter}
        /\ control' = "idle"
        /\ UNCHANGED <<sets, seeded, allAccepted, seedNext, coordinatorVars, targets>>

(* The tick hook: once the engine is ready, push every default, and again  *)
(* at every later tick until all of them have been accepted.               *)

\* Bug: one refusal counts for every later attempt.
BugSeedBegin ==
    /\ control = "idle"
    /\ ~seeded /\ ready
    /\ control' = "seed" /\ seedNext' = 1
    /\ UNCHANGED <<queueVars, values, early, sets, seeded, allAccepted,
                   coordinatorVars, pushing, targets>>

SeedBegin ==
    /\ control = "idle"
    /\ ~seeded /\ ready
    /\ control' = "seed" /\ seedNext' = 1 /\ allAccepted' = TRUE
    /\ UNCHANGED <<queueVars, values, early, sets, seeded, coordinatorVars,
                   pushing, targets>>

SeedRefused ==
    /\ control = "seed" /\ seedNext <= Len(Registry)
    /\ Full
    /\ allAccepted' = FALSE /\ seedNext' = seedNext + 1
    /\ UNCHANGED <<queueVars, control, values, early, sets, seeded,
                   coordinatorVars, pushing, targets>>

SeedLoad ==
    LET p == Registry[seedNext]
    IN  /\ control = "seed" /\ seedNext <= Len(Registry)
        /\ PushLoad("control", [parameter |-> p, value |-> Default[p]])
        /\ control' = "seed_store"
        /\ UNCHANGED <<values, early, sets, seeded, allAccepted, seedNext,
                       coordinatorVars, targets>>

SeedStore ==
    /\ control = "seed_store"
    /\ PushStore("control")
    /\ control' = "seed" /\ seedNext' = seedNext + 1
    /\ UNCHANGED <<values, early, sets, seeded, allAccepted, coordinatorVars,
                   targets>>

\* Bug: seeding counts as done whatever the queue refused.
BugSeedEnd ==
    /\ control = "seed" /\ seedNext > Len(Registry)
    /\ seeded' = TRUE
    /\ control' = "idle"
    /\ UNCHANGED <<queueVars, values, early, sets, allAccepted, seedNext,
                   coordinatorVars, pushing, targets>>

SeedEnd ==
    /\ control = "seed" /\ seedNext > Len(Registry)
    /\ seeded' = allAccepted
    /\ control' = "idle"
    /\ UNCHANGED <<queueVars, values, early, sets, allAccepted, seedNext,
                   coordinatorVars, pushing, targets>>

-----------------------------------------------------------------------------
(* The coordinator: vocal_fx_init, whose last acts are the queue's reset    *)
(* and the store of ready, ... *)

InitReset ==
    /\ coordinator = "delay"
    /\ targets' = Config
    /\ tail' = head
    /\ coordinator' = "init"
    /\ UNCHANGED <<entries, head, controlVars, pushing, mode, modeNext, ready>>

\* Every failing return of vocal_fx_init comes before the reset.
InitFails ==
    /\ coordinator = "delay"
    /\ coordinator' = "failed"
    /\ UNCHANGED <<queueVars, controlVars, pushing, mode, modeNext, ready, targets>>

InitReady ==
    /\ coordinator = "init"
    /\ ready' = TRUE
    /\ coordinator' = "mode"
    /\ UNCHANGED <<queueVars, controlVars, pushing, mode, modeNext, targets>>

(* ... vocal_fx_set_parameter for each setting of the mode, refused or not, *)

ModeRefused ==
    /\ coordinator = "mode" /\ modeNext <= Len(mode)
    /\ Full
    /\ modeNext' = modeNext + 1
    /\ UNCHANGED <<queueVars, controlVars, mode, coordinator, ready, pushing, targets>>

ModeLoad ==
    /\ coordinator = "mode" /\ modeNext <= Len(mode)
    /\ PushLoad("coordinator", mode[modeNext])
    /\ coordinator' = "mode_store"
    /\ UNCHANGED <<controlVars, mode, modeNext, ready, targets>>

ModeStore ==
    /\ coordinator = "mode_store"
    /\ PushStore("coordinator")
    /\ coordinator' = "mode" /\ modeNext' = modeNext + 1
    /\ UNCHANGED <<controlVars, mode, ready, targets>>

(* ... and start_pipeline_tasks. *)
StartPipeline ==
    /\ coordinator = "mode" /\ modeNext > Len(mode)
    /\ coordinator' = "running"
    /\ UNCHANGED <<queueVars, controlVars, mode, modeNext, ready, pushing, targets>>

PipelineFails ==
    /\ coordinator = "mode" /\ modeNext > Len(mode)
    /\ coordinator' = "failed"
    /\ UNCHANGED <<queueVars, controlVars, mode, modeNext, ready, pushing, targets>>

\* stop_pipeline_tasks at the end of a timed run, or start_pipeline_tasks itself
\* when there is no pitch task for the audio task it has started.
StopPipeline ==
    /\ coordinator = "running"
    /\ coordinator' = "stopped"
    /\ UNCHANGED <<queueVars, controlVars, mode, modeNext, ready, pushing, targets>>

-----------------------------------------------------------------------------
(* The audio task: apply_pending_parameters at the start of a block. *)

Queued == [n \in 1..((head - tail) % Capacity) |-> entries[(tail + n - 1) % Capacity]]

\* Of several changes of a parameter the last one counts.
Applied(changes) ==
    [p \in Param |->
        LET own == {n \in 1..Len(changes) : changes[n].parameter = p}
        IN  IF own = {} THEN targets[p] ELSE changes[Max(own)].value]

Drain ==
    /\ coordinator = "running"
    /\ tail # head
    /\ targets' = Applied(Queued)
    /\ tail' = head
    /\ UNCHANGED <<entries, head, controlVars, coordinatorVars, pushing>>

ClientSet == SetRejected \/ \E change \in Change : SetBegin(change)
Control == SetEnd \/ SeedBegin \/ SeedRefused \/ SeedLoad \/ SeedStore \/ SeedEnd
Coordinator == InitReset \/ InitReady \/ ModeRefused \/ ModeLoad \/ ModeStore
                   \/ StartPipeline

CoordinatorEnds == InitFails \/ PipelineFails \/ StopPipeline

Next == ClientSet \/ Control \/ Coordinator \/ CoordinatorEnds \/ Drain

Spec == Init /\ [][Next]_vars

(* Each task runs on; the client's requests may stay away, and nothing has *)
(* to fail or to be stopped.  A block lasts 1.5 ms and the control task    *)
(* waits 5 ms for input in each of its rounds: blocks keep falling between *)
(* two rounds, not only inside them.                                       *)
DrainBetweenRounds == Drain /\ control = "idle"
Fairness ==
    /\ WF_vars(Control) /\ WF_vars(Coordinator) /\ WF_vars(Drain)
    /\ SF_vars(DrainBetweenRounds)
FairSpec == Spec /\ Fairness

-----------------------------------------------------------------------------
Settled == seeded /\ control = "idle" /\ coordinator = "running" /\ tail = head

ModeParam == {mode[i].parameter : i \in 1..Len(mode)}

(* After seeding, once the queue has drained, the engine's target of every *)
(* parameter is the value ProductState holds and GET_STATE reports, unless *)
(* the parameter was last SET before seeding, or the mode sets it.         *)
SettledCoherence ==
    Settled => \A p \in Param \ (early \union ModeParam) : targets[p] = values[p]

(* What voxlink_service.cpp and voxlink_cyd_integration.md 8.1 promise:    *)
(* a SET accepted during start-up makes no difference.                     *)
BootCoherence ==
    Settled => \A p \in Param \ ModeParam : targets[p] = values[p]

(* After seeding, a change the engine does not have yet is in the queue:   *)
(* no order of SETs, seeding and blocks loses one that was acknowledged,   *)
(* in a mode that leaves the queue to the control task.                    *)
AcceptedSetsArrive ==
    mode = <<>> /\ seeded =>
        \A p \in Param \ early : Applied(Queued)[p] = values[p]

(* Unless the start fails or the audio task is stopped, seeding succeeds in *)
(* the end, whatever the queue refused at first, and the queue drains.     *)
BootSettles ==
    \/ <>(coordinator \in {"failed", "stopped"})
    \/ <>[](seeded /\ tail = head)
=============================================================================
