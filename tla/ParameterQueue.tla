--------------------------- MODULE ParameterQueue ---------------------------
(***************************************************************************)
(* components/vocal_fx/src/parameter_queue.h: the single-producer,         *)
(* single-consumer ring that carries parameter changes from the control    *)
(* task to the audio task without a lock.                                  *)
(*                                                                         *)
(* Every access to memory the two tasks share is a step of its own: the    *)
(* load of the other side's index, the copy of each of the two words of an *)
(* entry, the store of one's own index.  An index is loaded once per call, *)
(* so its value may be stale when it is used.  A change is an opaque       *)
(* value; an entry records, for each of its two words, the change that     *)
(* word was copied from, so that a torn entry can be told from a whole one.*)
(*                                                                         *)
(* reset() runs inside vocal_fx_init(), which the coordinator calls while  *)
(* no audio task exists (it is created afterwards, and joined before a     *)
(* later init): reset takes the consumer's place, never overlaps a pop,    *)
(* and may overlap a push.                                                 *)
(***************************************************************************)
EXTENDS Integers, Sequences

CONSTANTS
    Capacity,       \* slots of the ring, one of them a sentinel
    Change,         \* the parameter changes the control task may submit
    NoChange        \* the zeroes an unwritten entry holds

ASSUME CapacityAssumption == Capacity \in Nat /\ Capacity > 1
ASSUME NoChangeAssumption == NoChange \notin Change

VARIABLES
    entries,        \* entries_
    head,           \* head_: stored by the producer only
    tail,           \* tail_: stored by the consumer, or by reset
    producer,       \* where the push in progress stands
    pushing,        \* the argument of that push
    consumer,       \* where the pop or reset in progress stands
    reading,        \* the output argument of that pop
    resetTo,        \* the head loaded by the reset in progress
    accepted,       \* the change, if the last completed push returned true
    popped          \* the change the last successful pop returned

vars == <<entries, head, tail, producer, pushing, consumer, reading, resetTo,
          accepted, popped>>
producerVars == <<producer, pushing, accepted>>
consumerVars == <<consumer, reading, resetTo, popped>>

Slots == 0..(Capacity - 1)
Word  == Change \union {NoChange}
Entry == [parameter : Word, value : Word]
Whole(c) == [parameter |-> c, value |-> c]

\* Bug: the index never wraps.
BugIncrement(index) == index + 1

Increment(index) == (index + 1) % Capacity

Init ==
    /\ entries = [i \in Slots |-> Whole(NoChange)]
    /\ head = 0 /\ tail = 0
    /\ producer = "idle" /\ pushing = NoChange /\ accepted = NoChange
    /\ consumer = "idle" /\ reading = Whole(NoChange) /\ resetTo = 0
    /\ popped = Whole(NoChange)

-----------------------------------------------------------------------------
(* push, on the control task *)

\* Bug: a full queue drops the change and reports success.
BugPushFull ==
    /\ producer = "idle"
    /\ Increment(head) = tail
    /\ accepted' \in Change
    /\ UNCHANGED <<entries, head, tail, producer, pushing, consumerVars>>

PushFull ==
    /\ producer = "idle"
    /\ Increment(head) = tail
    /\ accepted' = NoChange
    /\ UNCHANGED <<entries, head, tail, producer, pushing, consumerVars>>

\* Bug: a push that does not ask whether there is room.
BugPushBegin(c) ==
    /\ producer = "idle"
    /\ producer' = "write_parameter"
    /\ pushing' = c
    /\ UNCHANGED <<entries, head, tail, accepted, consumerVars>>

PushBegin(c) ==
    /\ producer = "idle"
    /\ Increment(head) # tail
    /\ producer' = "write_parameter"
    /\ pushing' = c
    /\ UNCHANGED <<entries, head, tail, accepted, consumerVars>>

\* Bug: the head is published before the value is copied.
BugWriteParameter ==
    /\ producer = "write_parameter"
    /\ entries' = [entries EXCEPT ![head].parameter = pushing]
    /\ producer' = "publish"
    /\ UNCHANGED <<head, tail, pushing, accepted, consumerVars>>

WriteParameter ==
    /\ producer = "write_parameter"
    /\ entries' = [entries EXCEPT ![head].parameter = pushing]
    /\ producer' = "write_value"
    /\ UNCHANGED <<head, tail, pushing, accepted, consumerVars>>

WriteValue ==
    /\ producer = "write_value"
    /\ entries' = [entries EXCEPT ![head].value = pushing]
    /\ producer' = "publish"
    /\ UNCHANGED <<head, tail, pushing, accepted, consumerVars>>

PushPublish ==
    /\ producer = "publish"
    /\ head' = Increment(head)
    /\ producer' = "idle"
    /\ accepted' = pushing
    /\ UNCHANGED <<entries, tail, pushing, consumerVars>>

Push == PushFull \/ (\E c \in Change : PushBegin(c))
            \/ WriteParameter \/ WriteValue \/ PushPublish

-----------------------------------------------------------------------------
(* pop, on the audio task; a pop that finds the ring empty changes nothing *)

\* Bug: a pop that does not ask whether there is an entry.
BugPopBegin ==
    /\ consumer = "idle"
    /\ consumer' = "read_parameter"
    /\ UNCHANGED <<entries, head, tail, reading, resetTo, popped, producerVars>>

PopBegin ==
    /\ consumer = "idle"
    /\ tail # head
    /\ consumer' = "read_parameter"
    /\ UNCHANGED <<entries, head, tail, reading, resetTo, popped, producerVars>>

ReadParameter ==
    /\ consumer = "read_parameter"
    /\ reading' = [reading EXCEPT !.parameter = entries[tail].parameter]
    /\ consumer' = "read_value"
    /\ UNCHANGED <<entries, head, tail, resetTo, popped, producerVars>>

ReadValue ==
    /\ consumer = "read_value"
    /\ reading' = [reading EXCEPT !.value = entries[tail].value]
    /\ consumer' = "advance"
    /\ UNCHANGED <<entries, head, tail, resetTo, popped, producerVars>>

PopAdvance ==
    /\ consumer = "advance"
    /\ tail' = Increment(tail)
    /\ popped' = reading
    /\ consumer' = "idle"
    /\ UNCHANGED <<entries, head, reading, resetTo, producerVars>>

Pop == PopBegin \/ ReadParameter \/ ReadValue \/ PopAdvance

-----------------------------------------------------------------------------
(* reset, on the coordinator while there is no audio task *)

ResetLoad ==
    /\ consumer = "idle"
    /\ resetTo' = head
    /\ consumer' = "reset_store"
    /\ UNCHANGED <<entries, head, tail, reading, popped, producerVars>>

ResetStore ==
    /\ consumer = "reset_store"
    /\ tail' = resetTo
    /\ consumer' = "idle"
    /\ UNCHANGED <<entries, head, reading, resetTo, popped, producerVars>>

Reset == ResetLoad \/ ResetStore

-----------------------------------------------------------------------------
Next == Push \/ Pop \/ Reset

Spec == Init /\ [][Next]_vars

-----------------------------------------------------------------------------
(* How many increments lead from index i to index j, and the slots between *)
(* the tail and the head.                                                  *)
Distance(i, j) == IF j >= i THEN j - i ELSE j - i + Capacity
Live(i) == Distance(tail, i) < Distance(tail, head)

Contents ==
    [n \in 1..Distance(tail, head) |-> entries[(tail + n - 1) % Capacity].parameter]

TypeOK ==
    /\ entries \in [Slots -> Entry]
    /\ head \in Slots /\ tail \in Slots /\ resetTo \in Slots
    /\ producer \in {"idle", "write_parameter", "write_value", "publish"}
    /\ consumer \in {"idle", "read_parameter", "read_value", "advance",
                     "reset_store"}
    /\ pushing \in Word
    /\ reading \in Entry /\ popped \in Entry
    /\ accepted \in Word

(* Every entry between tail and head is one whole change: neither a push   *)
(* in progress nor a stale index lets the consumer see half of one change  *)
(* and half of another, or an entry nobody wrote.                          *)
LiveEntriesWhole ==
    \A i \in Slots : Live(i) => \E c \in Change : entries[i] = Whole(c)

(* The entry a pop is copying stays as it was until the pop has advanced   *)
(* the tail: the producer never writes the slot under the consumer, even   *)
(* though it decided there was room from a tail loaded earlier.            *)
ReadIntact ==
    /\ consumer = "read_value" => reading.parameter = entries[tail].parameter
    /\ consumer = "advance" => reading = entries[tail]

(* What a pop returns is one whole change that the control task submitted. *)
PoppedWhole ==
    popped # Whole(NoChange) => \E c \in Change : popped = Whole(c)

(* The ring implements the bounded FIFO with one slot less than its        *)
(* capacity: no accepted change is lost, duplicated or reordered, a push   *)
(* is refused only when it is full, and a reset forgets the oldest ones.   *)
Fifo == INSTANCE ParameterFifo WITH
            Room <- Capacity - 1, queue <- Contents,
            popped <- popped.parameter
ImplementsFifo == Fifo!Spec
=============================================================================
