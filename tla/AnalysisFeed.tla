----------------------------- MODULE AnalysisFeed -----------------------------
(***************************************************************************)
(* How samples reach the pitch analysis: PitchAnalysis::tap, in the audio   *)
(* task, pushes each decimated sample into an AnalysisFifo                  *)
(* (components/vocal_fx/pitch/analysis_fifo.h) and drops it when there is   *)
(* no room; PitchAnalysis::run, in the pitch worker, pops them into a       *)
(* rolling window and analyses it once a hop.  The actions of both; who may *)
(* take them when is PitchPath.                                            *)
(*                                                                         *)
(* A sample is its position, in decimated samples from 1 on; 0 is no        *)
(* sample.  A position is 64 bits wide in the code and does not wrap.      *)
(* What was analysed is kept until the next reset.                         *)
(***************************************************************************)
EXTENDS Integers

CONSTANTS
    Capacity,       \* kFifoCapacity
    Window,         \* window_size
    Hop,            \* hop_size
    MaxInput        \* bound: samples tapped between two resets

ASSUME FeedAssumption ==
    /\ Capacity \in Nat /\ Capacity > 1
    /\ Window \in Nat \ {0} /\ Hop \in Nat \ {0} /\ Hop <= Window
    /\ MaxInput \in Nat

VARIABLES
    data, head, tail,   \* data_, head_, tail_
    input,              \* samples tapped
    tap,                \* where the audio task stands in push
    worker,             \* where the pitch worker stands in pop and run
    sample,             \* the sample it has popped
    previous,           \* previous_fifo_position_, or 0
    rolling, rollingWrite, rollingCount,
                        \* rolling_, rolling_write_, rolling_count_
    sinceHop,           \* since_hop_
    linear,             \* linear_: the window last analysed
    analysed            \* the position it was analysed at

fifoVars == <<data, head, tail>>
windowVars == <<previous, rolling, rollingWrite, rollingCount, sinceHop, linear, analysed>>
feedVars == <<fifoVars, input, tap, worker, sample, windowVars>>

Index == 0..(Capacity - 1)
Place == 0..(Window - 1)
Following(i) == (i + 1) % Capacity

FeedInit ==
    /\ data = [i \in Index |-> 0] /\ head = 0 /\ tail = 0
    /\ input = 0 /\ tap = "idle"
    /\ worker = "idle" /\ sample = 0
    /\ previous = 0
    /\ rolling = [i \in Place |-> 0] /\ rollingWrite = 0 /\ rollingCount = 0
    /\ sinceHop = 0
    /\ linear = [i \in Place |-> 0] /\ analysed = 0

-----------------------------------------------------------------------------
(* AnalysisFifo::push, for each sample the decimator yields *)

\* Bug: a full ring is not told from one with room.
BugHasRoom == TRUE

HasRoom == Following(head) # tail

PushBegin ==
    /\ tap = "idle"
    /\ input < MaxInput
    /\ input' = input + 1
    /\ tap' = IF HasRoom THEN "store" ELSE "idle"
    /\ UNCHANGED <<fifoVars, worker, sample, windowVars>>

PushStore ==
    /\ tap = "store"
    /\ data' = [data EXCEPT ![head] = input]
    /\ tap' = "publish"
    /\ UNCHANGED <<head, tail, input, worker, sample, windowVars>>

PushPublish ==
    /\ tap = "publish"
    /\ head' = Following(head)
    /\ tap' = "idle"
    /\ UNCHANGED <<data, tail, input, worker, sample, windowVars>>

-----------------------------------------------------------------------------
(* AnalysisFifo::pop *)

PopBegin ==
    /\ worker = "idle"
    /\ head # tail
    /\ worker' = "copy"
    /\ UNCHANGED <<fifoVars, input, tap, sample, windowVars>>

PopCopy ==
    /\ worker = "copy"
    /\ sample' = data[tail]
    /\ worker' = "advance"
    /\ UNCHANGED <<fifoVars, input, tap, windowVars>>

PopAdvance ==
    /\ worker = "advance"
    /\ tail' = Following(tail)
    /\ worker' = "take"
    /\ UNCHANGED <<data, head, input, tap, sample, windowVars>>

-----------------------------------------------------------------------------
(* run: a sample goes into the window, which a gap before it has emptied;   *)
(* the window is analysed when it is full and a hop has passed             *)

Gap == previous # 0 /\ sample # previous + 1

\* Bug: a gap starts a new hop, and leaves the samples before it.
BugKept == [write |-> rollingWrite, count |-> rollingCount,
             hop |-> IF Gap THEN 0 ELSE sinceHop]

Kept ==
    IF Gap THEN [write |-> 0, count |-> 0, hop |-> 0]
    ELSE [write |-> rollingWrite, count |-> rollingCount, hop |-> sinceHop]

TakeSample ==
    /\ rolling' = [rolling EXCEPT ![Kept.write] = sample]
    /\ rollingWrite' = (Kept.write + 1) % Window
    /\ rollingCount' = IF Kept.count < Window THEN Kept.count + 1 ELSE Window
    /\ previous' = sample

Take ==
    /\ worker = "take"
    /\ TakeSample
    /\ \/ /\ rollingCount' < Window
          /\ sinceHop' = Kept.hop
       \/ /\ rollingCount' = Window
          /\ Kept.hop + 1 < Hop
          /\ sinceHop' = Kept.hop + 1
    /\ worker' = "idle"
    /\ UNCHANGED <<fifoVars, input, tap, sample, linear, analysed>>

\* Bug: the count of the hop is not begun anew.
BugTakeHop ==
    /\ worker = "take"
    /\ TakeSample
    /\ rollingCount' = Window
    /\ Kept.hop + 1 >= Hop
    /\ sinceHop' = Kept.hop
    /\ linear' = [i \in Place |-> rolling'[(rollingWrite' + i) % Window]]
    /\ analysed' = sample
    /\ worker' = "idle"
    /\ UNCHANGED <<fifoVars, input, tap, sample>>

TakeHop ==
    /\ worker = "take"
    /\ TakeSample
    /\ rollingCount' = Window
    /\ Kept.hop + 1 >= Hop
    /\ sinceHop' = 0
    /\ linear' = [i \in Place |-> rolling'[(rollingWrite' + i) % Window]]
    /\ analysed' = sample
    /\ worker' = "idle"
    /\ UNCHANGED <<fifoVars, input, tap, sample>>

-----------------------------------------------------------------------------
(* PitchAnalysis::reset.  The entries of the FIFO stay; so does the value  *)
(* of a local variable.                                                    *)

\* Bug: the input goes on from its old position.
BugResetFeed ==
    /\ tail' = head
    /\ previous' = 0
    /\ rolling' = [i \in Place |-> 0] /\ rollingWrite' = 0 /\ rollingCount' = 0
    /\ sinceHop' = 0
    /\ linear' = [i \in Place |-> 0] /\ analysed' = 0
    /\ UNCHANGED <<data, head, input, tap, worker, sample>>

ResetFeed ==
    /\ tail' = head
    /\ input' = 0 /\ previous' = 0
    /\ rolling' = [i \in Place |-> 0] /\ rollingWrite' = 0 /\ rollingCount' = 0
    /\ sinceHop' = 0
    /\ linear' = [i \in Place |-> 0] /\ analysed' = 0
    /\ UNCHANGED <<data, head, tap, worker, sample>>

Push == PushBegin \/ PushStore \/ PushPublish
Run == PopBegin \/ PopCopy \/ PopAdvance \/ Take \/ TakeHop

-----------------------------------------------------------------------------
(* What is analysed is always one stretch of the input: whatever samples   *)
(* were dropped while the worker was behind, no window spans the hole, and *)
(* none is of samples from before it.                                      *)
WindowContiguous ==
    analysed # 0 => \A i \in Place : linear[i] = analysed - Window + 1 + i

(* Two analyses are at least a hop apart, also around a hole in the input: *)
(* the mark search reaches less than a hop past a boundary and relies on   *)
(* the next boundary to be out of its reach.                               *)
HopsApart == [][TakeHop => analysed = 0 \/ sample >= analysed + Hop]_feedVars

(* Samples come out in the order they went in, each once: an overload      *)
(* loses the newest, and never lets an older one come out again.           *)
SamplesInOrder == [][Take \/ TakeHop => sample > previous]_feedVars
=============================================================================
