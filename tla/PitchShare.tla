----------------------------- MODULE PitchShare -----------------------------
(***************************************************************************)
(* What the pitch worker tells the audio task: the pitch, through          *)
(* PitchMailbox, and the marks, through PitchMarkRing.  Two channels, each  *)
(* with a sequence counter of its own, and nothing that reads both at once *)
(* (components/vocal_fx/src/vocal_fx.cpp).                                 *)
(*                                                                         *)
(* The worker adds the marks of a hop and then publishes its pitch.  The    *)
(* audio task takes the pitch first, if it can be had, and then the marks  *)
(* up to the time of the pitch it has, be it an old one.                   *)
(***************************************************************************)
EXTENDS PitchMailbox, PitchMarkRing

CONSTANTS
    Worker,         \* the pitch worker; other publishers are tests and tools
    Audio,          \* the audio task
    Timestamp       \* analysis_timestamp_samples, one of the fields

ASSUME ShareAssumption ==
    Worker \in Publisher /\ Audio \in Reader /\ Timestamp \in Field

VARIABLES
    marksOf,        \* marks no later than the time of each publication
    block           \* what the audio task takes in next

shareVars == <<vars, markVars, marksOf, block>>

ShareInit ==
    /\ Init /\ RingInit
    /\ marksOf = [n \in 0..MaxPublications |-> 0]
    /\ block = "pitch"

-----------------------------------------------------------------------------
(* vocal_fx_run_pitch_analysis *)

\* Bug: a pitch carries the time of the hop after the one it was found in.
BugMarksUpTo(p) == {IF added < MaxMarks THEN added + 1 ELSE added}

(* The hops of a run have added their marks when its pitch is published;   *)
(* the search may have placed the newest mark after the time of the pitch. *)
(* Another publisher repeats the pitch that is there.                      *)
MarksUpTo(p) ==
    IF p = Worker THEN {n \in {added, added - 1} : n >= marksOf[begun]}
    ELSE {marksOf[begun]}

PublishPitch(p) ==
    /\ p = Worker => adder = "idle"
    /\ \/ /\ Open(p)
          /\ \E n \in MarksUpTo(p) : marksOf' = [marksOf EXCEPT ![begun'] = n]
       \/ /\ Lock(p) \/ (\E f \in Field : Write(p, f)) \/ Close(p) \/ Unlock(p)
          /\ UNCHANGED marksOf
    /\ UNCHANGED <<markVars, block>>

RunHop ==
    /\ publisher[Worker] = "idle"
    /\ AddMark
    /\ UNCHANGED <<vars, marksOf, block>>

-----------------------------------------------------------------------------
(* vocal_fx_process: one attempt at each in a block.  Other readers of the *)
(* pitch change nothing of it, and stay idle here.                         *)

TakePitch ==
    /\ block = "pitch"
    /\ \/ /\ ReadBegin(Audio) \/ \E f \in Field : ReadField(Audio, f)
          /\ UNCHANGED block
       \/ ReadEnd(Audio) /\ block' = "marks"
       \/ /\ reader[Audio] = "idle" /\ seq % 2 = 1
          /\ block' = "marks"
          /\ UNCHANGED vars
    /\ UNCHANGED <<markVars, marksOf>>

MarkEnd == marksOf[result[Audio][Timestamp]]

(* A block takes no marks if the ring is busy or the voice is off. *)
TakeMarks ==
    /\ block = "marks"
    /\ \/ /\ Attempt(MarkEnd) \/ LoadMetadata \/ BeginSlot
              \/ (\E f \in Part : LoadPart(f)) \/ EndSlot
          /\ UNCHANGED block
       \/ /\ SlotBusy \/ SlotChanged \/ Accept \/ RingChanged
          /\ block' = "pitch"
       \/ /\ copier = "idle"
          /\ block' = "pitch"
          /\ UNCHANGED markVars
    /\ UNCHANGED <<vars, marksOf>>

ShareNext ==
    \/ \E p \in Publisher : PublishPitch(p)
    \/ RunHop
    \/ TakePitch
    \/ TakeMarks

ShareSpec == ShareInit /\ [][ShareNext]_shareVars

-----------------------------------------------------------------------------
(* The marks a block takes over reach up to the pitch it shifts by: the     *)
(* last of them is the last of that pitch, or the ring has moved on past   *)
(* it.  Neither channel promises this; the order in which the worker fills *)
(* them and the audio task reads them does.                                *)
MarksReachPitch ==
    [][Accept /\ limit > 0 =>
          \/ limit < Oldest
          \/ /\ snapshot' # <<>>
             /\ snapshot'[Len(snapshot')] = [f \in Part |-> limit]]_shareVars
=============================================================================
