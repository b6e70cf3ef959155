---------------------------- MODULE PitchMarkRing ----------------------------
(***************************************************************************)
(* components/vocal_fx/pitch/pitch_analysis.cpp, mark_ring_: the latest     *)
(* pitch marks, added by the pitch worker (add_mark) and copied by the      *)
(* audio task in one attempt (try_marks).  A sequence counter guards each   *)
(* slot, and a generation counter the ring; both are odd while the worker  *)
(* is at it.                                                               *)
(*                                                                         *)
(* Every atomic access is a step; the words of a slot, accessed relaxed,   *)
(* are written and read in any order between the accesses of its counter.  *)
(* Sequentially consistent.  A mark is the number of its addition, and     *)
(* each word of a slot holds the number of the mark that wrote it.         *)
(***************************************************************************)
EXTENDS Integers, Sequences

CONSTANTS
    Capacity,       \* kMarkCapacity, and kMaxMarks of the audio task's copy
    Part,           \* position_low, position_high, confidence
    CounterModulus, \* the counters are 32 bits wide and wrap
    MaxMarks        \* bound: marks added in all

ASSUME RingAssumption ==
    /\ Capacity \in Nat \ {0} /\ Part # {}
    /\ CounterModulus \in Nat /\ CounterModulus > 0 /\ CounterModulus % 2 = 0
    /\ MaxMarks \in Nat

VARIABLES
    generation,     \* mark_generation_
    writeIndex, markCount,   \* mark_metadata_, one word
    sequence,       \* sequence of each slot
    parts,          \* the words of each slot
    adder,          \* where add_mark stands
    unstored,       \* the words it has yet to store
    entered,        \* marks begun ...
    added,          \* ... and added
    copier,         \* where try_marks stands
    limit,          \* the end of the range it asks for
    generationBefore,   \* the generation it loaded first
    slots,          \* the slots it has yet to copy
    slotBefore,     \* the counter of the slot it loaded
    unloaded,       \* the words it has yet to load
    mark,           \* those it has loaded
    copied,         \* the marks in the range so far
    addedBefore,    \* marks added when it began
    snapshot        \* its copy, when it returns true

ringVars == <<generation, writeIndex, markCount, sequence, parts, adder, unstored, entered, added>>
copierVars == <<copier, limit, generationBefore, slots, slotBefore, unloaded, mark, copied,
                addedBefore, snapshot>>
markVars == <<ringVars, copierVars>>

Slot == 0..(Capacity - 1)
Counter == 0..(CounterModulus - 1)
NoMark == [f \in Part |-> 0]

Bump(c) == (c + 1) % CounterModulus

RingInit ==
    /\ generation = 0 /\ writeIndex = 0 /\ markCount = 0
    /\ sequence = [i \in Slot |-> 0]
    /\ parts = [i \in Slot |-> NoMark]
    /\ adder = "idle" /\ unstored = {} /\ entered = 0 /\ added = 0
    /\ copier = "idle" /\ limit = 0 /\ generationBefore = 0
    /\ slots = <<>> /\ slotBefore = 0 /\ unloaded = {}
    /\ mark = NoMark /\ copied = <<>> /\ addedBefore = 0 /\ snapshot = <<>>

-----------------------------------------------------------------------------
(* add_mark *)

(* A copy takes microseconds and marks come milliseconds apart: no copy    *)
(* lasts so long that a counter comes round to the value it began with.    *)
NoCopyLap == copier # "idle" => 2 * (entered + 1 - addedBefore) < CounterModulus

OpenRing ==
    /\ adder = "idle"
    /\ entered < MaxMarks /\ NoCopyLap
    /\ generation' = Bump(generation)
    /\ entered' = entered + 1
    /\ adder' = "open"
    /\ UNCHANGED <<writeIndex, markCount, sequence, parts, unstored, added, copierVars>>

OpenSlot ==
    /\ adder = "open"
    /\ sequence' = [sequence EXCEPT ![writeIndex] = Bump(@)]
    /\ unstored' = Part
    /\ adder' = "store"
    /\ UNCHANGED <<generation, writeIndex, markCount, parts, entered, added, copierVars>>

StorePart(f) ==
    /\ adder = "store"
    /\ f \in unstored
    /\ parts' = [parts EXCEPT ![writeIndex][f] = entered]
    /\ unstored' = unstored \ {f}
    /\ UNCHANGED <<generation, writeIndex, markCount, sequence, adder, entered, added, copierVars>>

CloseSlot ==
    /\ adder = "store"
    /\ unstored = {}
    /\ sequence' = [sequence EXCEPT ![writeIndex] = Bump(@)]
    /\ adder' = "metadata"
    /\ UNCHANGED <<generation, writeIndex, markCount, parts, unstored, entered, added, copierVars>>

NextCount == IF markCount < Capacity THEN markCount + 1 ELSE Capacity

StoreMetadata ==
    /\ adder = "metadata"
    /\ writeIndex' = (writeIndex + 1) % Capacity
    /\ markCount' = NextCount
    /\ adder' = "close"
    /\ UNCHANGED <<generation, sequence, parts, unstored, entered, added, copierVars>>

CloseRing ==
    /\ adder = "close"
    /\ generation' = Bump(generation)
    /\ added' = added + 1
    /\ adder' = "idle"
    /\ UNCHANGED <<writeIndex, markCount, sequence, parts, unstored, entered, copierVars>>

AddMark ==
    OpenRing \/ OpenSlot \/ (\E f \in Part : StorePart(f)) \/ CloseSlot
        \/ StoreMetadata \/ CloseRing

-----------------------------------------------------------------------------
(* try_marks and try_read_mark: one attempt, given up as soon as a counter  *)
(* shows that the worker is at it                                          *)

Attempt(end) ==
    /\ copier = "idle"
    /\ generation % 2 = 0
    /\ limit' = end
    /\ generationBefore' = generation
    /\ copied' = <<>> /\ snapshot' = <<>>
    /\ addedBefore' = added
    /\ copier' = "metadata"
    /\ UNCHANGED <<ringVars, slots, slotBefore, unloaded, mark>>

LoadMetadata ==
    /\ copier = "metadata"
    /\ slots' = [i \in 1..markCount |-> (writeIndex + Capacity - markCount + i - 1) % Capacity]
    /\ copier' = "slot"
    /\ UNCHANGED <<ringVars, limit, generationBefore, slotBefore, unloaded, mark, copied, addedBefore, snapshot>>

(* What try_read_mark and try_marks keep in locals is gone when they return. *)
SlotLocals == mark' = NoMark /\ slotBefore' = 0 /\ unloaded' = {}
Return ==
    /\ SlotLocals
    /\ slots' = <<>> /\ copied' = <<>> /\ limit' = 0
    /\ generationBefore' = 0 /\ addedBefore' = 0
    /\ copier' = "idle"
    /\ UNCHANGED ringVars

GiveUp == Return /\ UNCHANGED snapshot

BeginSlot ==
    /\ copier = "slot"
    /\ slots # <<>>
    /\ sequence[Head(slots)] % 2 = 0
    /\ slotBefore' = sequence[Head(slots)]
    /\ unloaded' = Part
    /\ copier' = "load"
    /\ UNCHANGED <<ringVars, limit, generationBefore, slots, mark, copied, addedBefore, snapshot>>

SlotBusy ==
    /\ copier = "slot"
    /\ slots # <<>>
    /\ sequence[Head(slots)] % 2 = 1
    /\ GiveUp

LoadPart(f) ==
    /\ copier = "load"
    /\ f \in unloaded
    /\ mark' = [mark EXCEPT ![f] = parts[Head(slots)][f]]
    /\ unloaded' = unloaded \ {f}
    /\ UNCHANGED <<ringVars, copier, limit, generationBefore, slots, slotBefore, copied, addedBefore, snapshot>>

(* The range begins a whole audio history back: only its end matters.  A    *)
(* torn position may be anything, and is early enough if a word of it is.  *)
InRange == \E f \in Part : mark[f] <= limit

\* Bug: the counter of the slot is not looked at again.
BugEndSlot ==
    /\ copier = "load"
    /\ unloaded = {}
    /\ copied' = IF InRange THEN Append(copied, mark) ELSE copied
    /\ slots' = Tail(slots)
    /\ SlotLocals
    /\ copier' = "slot"
    /\ UNCHANGED <<ringVars, limit, generationBefore, addedBefore, snapshot>>

EndSlot ==
    /\ copier = "load"
    /\ unloaded = {}
    /\ sequence[Head(slots)] = slotBefore
    /\ copied' = IF InRange THEN Append(copied, mark) ELSE copied
    /\ slots' = Tail(slots)
    /\ SlotLocals
    /\ copier' = "slot"
    /\ UNCHANGED <<ringVars, limit, generationBefore, addedBefore, snapshot>>

SlotChanged ==
    /\ copier = "load"
    /\ unloaded = {}
    /\ sequence[Head(slots)] # slotBefore
    /\ GiveUp

\* Bug: each slot is checked, and the ring is not.
BugAccept ==
    /\ copier = "slot"
    /\ slots = <<>>
    /\ snapshot' = copied
    /\ Return

Accept ==
    /\ copier = "slot"
    /\ slots = <<>>
    /\ generation = generationBefore
    /\ snapshot' = copied
    /\ Return

RingChanged ==
    /\ copier = "slot"
    /\ slots = <<>>
    /\ generation # generationBefore
    /\ GiveUp

-----------------------------------------------------------------------------
(* The counter of a slot is enough for each mark by itself: none that is    *)
(* taken over is mixed of two, whether or not the attempt succeeds.        *)
MarksWhole ==
    \A i \in 1..Len(copied) : \A f, g \in Part : copied[i][f] = copied[i][g]

(* What the ring held when the attempt began, as far as the range goes:    *)
(* the last marks, oldest first, none missing and none twice.              *)
Oldest == IF addedBefore > Capacity THEN addedBefore - Capacity + 1 ELSE 1
Newest == IF addedBefore < limit THEN addedBefore ELSE limit
Expected == [i \in 1..(Newest - Oldest + 1) |-> [f \in Part |-> Oldest + i - 1]]

(* A copy that is handed over is one moment of the ring, although it is    *)
(* made slot by slot while marks go in: whole marks, in order, without a    *)
(* gap, wrapped ring and counters included.                                *)
SnapshotExact == [][Accept => snapshot' = Expected]_markVars
=============================================================================
