---------------------------- MODULE VoxLinkUart ----------------------------
(***************************************************************************)
(* The control task: UartTransport::run() around one Session, and the      *)
(* controller at the other end of the wire.  Each round of the loop reads  *)
(* at most one chunk of input, feeds it, transmits until the ring is empty *)
(* or the drain budget of the round is spent, and ticks.                   *)
(*                                                                         *)
(* The controller (external) sends what it likes, in order; it keeps a     *)
(* mirror of the parameters from the frames it has completely received.    *)
(***************************************************************************)
EXTENDS VoxLinkSession

CONSTANTS
    ChunkFrames,    \* frames that fit in one read of rx[256]
    DrainBudget,    \* units after which a round stops transmitting (4096 bytes)
    TickStep,       \* ms that may pass between two ticks
    ClientSends,    \* the frames this controller sends
    MaxFrames       \* bound: frames the controller sends in all

ASSUME UartAssumption ==
    /\ ChunkFrames \in Nat \ {0} /\ DrainBudget \in Nat \ {0}
    /\ TickStep \subseteq Nat \ {0}
    /\ ClientSends \subseteq ClientFrame /\ MaxFrames \in Nat

VARIABLES
    phase,          \* where the loop stands
    chunk,          \* frames read in this round
    carried,        \* units still in the ring when this batch began
    drained,        \* units transmitted in this round
    sent,           \* frames the controller has sent
    mirror,         \* the controller's view of the parameters
    mirrorRevision  \* the newest revision it has seen

loopVars == <<phase, chunk, carried, drained, sent, mirror, mirrorRevision>>
vars == <<sessionVars, loopVars>>

Init ==
    /\ InitSession
    /\ phase = "read" /\ chunk = 0 /\ carried = 0 /\ drained = 0
    /\ sent = 0
    /\ mirror = [p \in Param |-> NoValue] /\ mirrorRevision = NoValue

(* uart_read_bytes returns data: a chunk of at least one frame, ... *)
ReadChunk ==
    /\ phase = "read"
    /\ sent < MaxFrames
    /\ FeedBegin
    /\ phase' = "parse" /\ chunk' = 0 /\ carried' = Len(tx)
    /\ UNCHANGED <<drained, sent, mirror, mirrorRevision>>

\* Bug: the drain budget is not renewed.
BugReadNothing ==
    /\ phase = "read"
    /\ phase' = "drain"
    /\ UNCHANGED <<sessionVars, chunk, carried, drained, sent, mirror, mirrorRevision>>

(* ... or times out after 5 ms with none. *)
ReadNothing ==
    /\ phase = "read"
    /\ phase' = "drain" /\ drained' = 0
    /\ UNCHANGED <<sessionVars, chunk, carried, sent, mirror, mirrorRevision>>

ParseFrame ==
    /\ phase = "parse"
    /\ chunk < ChunkFrames /\ sent < MaxFrames
    /\ \E frame \in ClientSends : EnqueueParsed(frame)
    /\ chunk' = chunk + 1
    /\ sent' = sent + 1
    /\ UNCHANGED <<phase, carried, drained, mirror, mirrorRevision>>

ParseEnd ==
    /\ phase = "parse"
    /\ chunk > 0
    /\ phase' = "handle"
    /\ UNCHANGED <<sessionVars, chunk, carried, drained, sent, mirror, mirrorRevision>>

Handle ==
    /\ phase = "handle"
    /\ HandleFrame
    /\ UNCHANGED loopVars

HandleEnd ==
    /\ phase = "handle"
    /\ parsed = <<>>
    /\ phase' = "drain" /\ drained' = 0
    /\ UNCHANGED <<sessionVars, chunk, carried, sent, mirror, mirrorRevision>>

(* What the controller does with a frame once its last unit has arrived. *)
Receive(view, frame) ==
    [view EXCEPT
        !.mirror = IF frame.param \in Param
                   THEN [@ EXCEPT ![frame.param] = frame.value] ELSE @,
        !.revision = IF frame.revision # NoValue THEN frame.revision ELSE @]

View == [mirror |-> mirror, revision |-> mirrorRevision]

Arrive(view, unit) == IF unit.last THEN Receive(view, unit.frame) ELSE view

Drain ==
    LET view == Arrive(View, Head(tx))
    IN  /\ phase = "drain"
        /\ drained < DrainBudget
        /\ TakeTx
        /\ drained' = drained + 1
        /\ mirror' = view.mirror /\ mirrorRevision' = view.revision
        /\ UNCHANGED <<phase, chunk, carried, sent>>

DrainEnd ==
    /\ phase = "drain"
    /\ tx = <<>> \/ drained >= DrainBudget
    /\ phase' = "tick"
    /\ UNCHANGED <<sessionVars, chunk, carried, drained, sent, mirror, mirrorRevision>>

RoundEnd ==
    /\ phase = "tick"
    /\ \E ms \in TickStep : Tick(ms)
    /\ phase' = "read"
    /\ UNCHANGED <<chunk, carried, drained, sent, mirror, mirrorRevision>>

Loop == ReadNothing \/ ParseFrame \/ ParseEnd \/ Handle \/ HandleEnd
            \/ Drain \/ DrainEnd \/ RoundEnd

Next == ReadChunk \/ Loop

(* run() loops for as long as the transport runs, and every call it makes  *)
(* returns; whether input arrives is up to the controller.                 *)
Fairness == WF_vars(Loop)

Spec == Init /\ [][Next]_vars
FairSpec == Spec /\ Fairness

-----------------------------------------------------------------------------
InFlight == Pending(tx)

(* The frame that ends the answer to a request. *)
Terminal(frame) ==
    /\ frame.request # NoValue /\ frame.request.type \in RequestType
    /\ frame.type \in {"ACK", "NACK", "HELLO_ACK", "CAPS_END", "STATE_END",
                       "PARAM_VALUE"}

(* The last unit of an answer other than NACK(BUSY).                       *)
Answers(unit) == unit.last /\ Terminal(unit.frame) /\ unit.frame.value # "BUSY"

(* What a controller will believe once these units have arrived.           *)
ViewAfter(view, units) ==
    LET seen[n \in 0..Len(units)] ==
            IF n = 0 THEN view ELSE Arrive(seen[n - 1], units[n])
    IN  seen[Len(units)]

FinalView == ViewAfter(View, tx)

(* Whatever subset of snapshots, answers and confirmations the controller  *)
(* has received, once the ring has drained its mirror holds the P4's value *)
(* of every parameter it has heard of, unless the last change of that      *)
(* parameter could not be announced; a later snapshot repairs that.        *)
MirrorConverges ==
    \A p \in Param \ stale : FinalView.mirror[p] \in {NoValue, values[p]}

(* Frames carry the revision of the state they report: never a revision    *)
(* the P4 has not reached, never an older one after a newer one.           *)
RevisionsInOrder ==
    LET stamps == {i \in 1..Len(tx) : tx[i].last /\ tx[i].frame.revision # NoValue}
        stamp(i) == tx[i].frame.revision
    IN  /\ \A i, j \in stamps : i < j => stamp(i) <= stamp(j)
        /\ \A i \in stamps : stamp(i) <= revision
        /\ mirrorRevision # NoValue =>
            mirrorRevision <= revision /\ \A i \in stamps : mirrorRevision <= stamp(i)

(* ProductState never runs ahead of the engine: its value of a parameter   *)
(* is the last one the engine's queue accepted, so NACK(QUEUE_FULL) and    *)
(* every other rejection leave it alone.                                   *)
StateFollowsEngine == values = submitted

(* Within one input batch a sequence number gets at most one answer other  *)
(* than NACK(BUSY), so the controller can correlate by sequence alone even *)
(* if it reuses one too early.                                             *)
OneAnswerPerSeq ==
    LET answers == {i \in (carried + 1)..Len(tx) : Answers(tx[i])}
    IN  phase = "handle" =>
            \A i, j \in answers :
                i # j => tx[i].frame.request.seq # tx[j].frame.request.seq

(* A controller that falls silent is eventually, and for good, found       *)
(* disconnected: the server's own heartbeats do not keep the link up.      *)
SilentLinkDrops == <>[](connection = "Disconnected")

(* Every response the ring accepted is transmitted in the end.             *)
ResponsesLeave == []<>(InFlight = <<>>)
=============================================================================
