--------------------------- MODULE ParameterFifo ---------------------------
(***************************************************************************)
(* What the parameter queue promises its two tasks, with no ring, indices  *)
(* or memory: a bounded FIFO that refuses the newest change when it is     *)
(* full, hands the oldest one over, and whose reset forgets changes from   *)
(* the oldest end only.                                                    *)
(***************************************************************************)
EXTENDS Naturals, Sequences

CONSTANTS
    Room,           \* changes the queue can hold at once
    Change,         \* the parameter changes the control task may submit
    NoChange        \* no change: nothing popped yet, or a push refused

VARIABLES
    queue,          \* accepted changes not yet popped, oldest first
    accepted,       \* the change, if the last completed push returned true
    popped          \* the change the last successful pop returned

vars == <<queue, accepted, popped>>

Init ==
    /\ queue = <<>>
    /\ accepted = NoChange
    /\ popped = NoChange

Push(c) ==
    /\ Len(queue) < Room
    /\ queue' = Append(queue, c)
    /\ accepted' = c
    /\ UNCHANGED popped

\* A push may be refused only because the queue is full.
Refuse ==
    /\ Len(queue) = Room
    /\ accepted' = NoChange
    /\ UNCHANGED <<queue, popped>>

Pop ==
    /\ queue # <<>>
    /\ popped' = Head(queue)
    /\ queue' = Tail(queue)
    /\ UNCHANGED accepted

\* A reset forgets some of the oldest changes; a push that overlaps it stays.
Reset ==
    /\ \E n \in 0..Len(queue) : queue' = SubSeq(queue, n + 1, Len(queue))
    /\ UNCHANGED <<accepted, popped>>

Next == (\E c \in Change : Push(c)) \/ Refuse \/ Pop \/ Reset

Spec == Init /\ [][Next]_vars
=============================================================================
