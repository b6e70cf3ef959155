--------------------------- MODULE VoxLinkSession ---------------------------
(***************************************************************************)
(* components/voxlink: the server side of the VoxLink v1 control protocol. *)
(* One Session owns the parser's frame queue, the bounded transmit ring,   *)
(* the sequence-reuse guard, the connection state and (through             *)
(* ProductState) the authoritative value of every registered parameter.    *)
(* All of it is touched by the control task alone.                         *)
(*                                                                         *)
(* A frame is a record; its bytes are abstracted to its length, counted in *)
(* units, because only the limits of the ring depend on it.  The ring is a *)
(* sequence of units, so that a frame can be half transmitted.  A request  *)
(* carries the normalized value, or the code its decoding and              *)
(* normalization reject it with: all rejections are handled alike.         *)
(***************************************************************************)
EXTENDS Integers, Sequences, SequencesExt, FiniteSets

CONSTANTS
    Registry,           \* the registered parameters, in registry order
    Value,              \* normalized parameter values
    Default,            \* the default of each parameter
    RejectCode,         \* UnknownParam, ReadOnly, BadType, BadLength, ...
    NoValue,            \* a field that a frame does not carry
    Seq8,               \* the values of the 8-bit request sequence
    QueueCapacity,      \* Parser::kQueueCapacity, one slot a sentinel
    TxCapacity,         \* Session::kTxCapacity, in units
    HighWater,          \* telemetry_high_water_, in units
    Size(_),            \* units of an encoded frame of a type
    HeartbeatTimeout,   \* heartbeat_timeout_ms
    HeartbeatInterval   \* heartbeat_interval_ms

Param == ToSet(Registry)

ServerType == {"HELLO_ACK", "ACK", "NACK", "ERROR", "CAPS_BEGIN", "CAPS_PARAM",
               "CAPS_END", "STATE_BEGIN", "STATE_PARAM", "STATE_END",
               "PARAM_VALUE", "PARAM_CHANGED", "HEARTBEAT"}

ASSUME SessionAssumption ==
    /\ Registry \in Seq(Param) /\ Default \in [Param -> Value]
    /\ RejectCode \cap Value = {} /\ NoValue \notin Value \union RejectCode
    /\ NoValue \notin Param /\ NoValue \notin Nat
    /\ \A type \in ServerType : Size(type) \in Nat \ {0}
    /\ QueueCapacity \in Nat /\ QueueCapacity > 1
    /\ HighWater \in Nat /\ TxCapacity \in Nat /\ HighWater < TxCapacity
    /\ HeartbeatTimeout \in Nat /\ HeartbeatInterval \in Nat

VARIABLES
    parsed,         \* the parser's queue of valid frames
    inflight,       \* inflight_: sequences seen in this input batch
    connection,     \* connection_
    values,         \* ProductState values
    revision,       \* ProductState revision
    submitted,      \* the last value of each parameter the engine accepted
    tx,             \* the units of the transmit ring, oldest first
    stale,          \* parameters whose last change could not be announced
    rxAge,          \* now_ms_ - last_rx_ms_, no finer than the timeout
    heartbeatAge,   \* now_ms_ - last_heartbeat_ms_, no finer than the interval
    haveTick        \* have_tick_

sessionVars == <<parsed, inflight, connection, values, revision,
                 submitted, tx, stale, rxAge, heartbeatAge, haveTick>>
stateVars == <<values, revision, submitted>>
clockVars == <<heartbeatAge, haveTick>>

-----------------------------------------------------------------------------
(* Frames *)

RequestType == {"HELLO", "CAPS_REQUEST", "GET_STATE", "GET_PARAM", "SET_PARAM",
                "HEARTBEAT", "ACTION"}

Client(type, seq, param, value) ==
    [type |-> type, seq |-> seq, param |-> param, value |-> value]

\* ACTION stands for the seven request types answered NOT_SUPPORTED, ACK for
\* the six types a client may send and the server ignores.
ClientFrame ==
    {Client(t, s, NoValue, NoValue) : s \in Seq8,
        t \in {"HELLO", "CAPS_REQUEST", "GET_STATE", "HEARTBEAT", "ACTION",
               "ACK", "UNKNOWN"}}
    \union {Client("HELLO", s, NoValue, c) : s \in Seq8, c \in RejectCode}
    \union {Client("GET_PARAM", s, p, NoValue) : s \in Seq8, p \in Param}
    \union {Client("GET_PARAM", s, NoValue, c) : s \in Seq8, c \in RejectCode}
    \union {Client("SET_PARAM", s, p, v) :
                s \in Seq8, p \in Param, v \in Value \union RejectCode}

Server(type, request, param, value, rev) ==
    [type |-> type, request |-> request, param |-> param, value |-> value,
     revision |-> rev]
Reply(type, request) == Server(type, request, NoValue, NoValue, NoValue)
Nack(request, code)  == Server("NACK", request, NoValue, code, NoValue)
Notification(type)   == Reply(type, NoValue)

\* The server's heartbeat is the only telemetry that firmware sends today.
Critical(frame) == frame.type # "HEARTBEAT"

-----------------------------------------------------------------------------
(* The transmit ring *)

Units(frame) ==
    [i \in 1..Size(frame.type) |->
        [frame |-> frame, part |-> i, last |-> i = Size(frame.type)]]

Limit(frame) == IF Critical(frame) THEN TxCapacity - 1 ELSE HighWater

(* enqueue(): all of a frame or nothing.  A change that cannot be announced *)
(* leaves its parameter stale, a frame that carries its value ends that.    *)
EnqueueOne(ring, frame) ==
    IF Len(ring.tx) + Size(frame.type) > Limit(frame)
    THEN [ring EXCEPT !.stale =
            IF frame.type = "PARAM_CHANGED" THEN @ \union {frame.param} ELSE @]
    ELSE [tx |-> ring.tx \o Units(frame),
          stale |-> ring.stale \ {frame.param}]

Enqueue(frames) ==
    LET ring[n \in 0..Len(frames)] ==
            IF n = 0 THEN [tx |-> tx, stale |-> stale]
            ELSE EnqueueOne(ring[n - 1], frames[n])
    IN  tx' = ring[Len(frames)].tx /\ stale' = ring[Len(frames)].stale

(* Frames not completely transmitted, oldest first. *)
Pending(units) ==
    LET lasts == SelectSeq(units, LAMBDA u : u.last)
    IN  [i \in 1..Len(lasts) |-> lasts[i].frame]

-----------------------------------------------------------------------------
(* feed(): the guard is cleared, the whole chunk is parsed into the queue,  *)
(* and only then are the queued frames handled one after the other.         *)

FeedBegin ==
    /\ inflight' = {}
    /\ UNCHANGED <<parsed, connection, stateVars, tx, stale,
                   rxAge, clockVars>>

EnqueueParsed(frame) ==
    /\ parsed' = IF Len(parsed) = QueueCapacity - 1 THEN parsed
                 ELSE Append(parsed, frame)
    /\ UNCHANGED <<inflight, connection, stateVars, tx, stale, rxAge, clockVars>>

(* What popping a frame does before it is dispatched. *)
PopFrame(frame) ==
    /\ parsed' = Tail(parsed)
    /\ rxAge' = 0
    /\ UNCHANGED <<clockVars>>

\* Bug: no sequence guard.
BugDuplicate(frame) == FALSE

Duplicate(frame) == frame.type \in RequestType /\ frame.seq \in inflight

(* A frame of the given types that the guard lets through. *)
Dispatch(frame, types) ==
    /\ PopFrame(frame)
    /\ ~Duplicate(frame)
    /\ frame.type \in types
    /\ inflight' = IF frame.type \in RequestType
                   THEN inflight \union {frame.seq} ELSE inflight

RejectDuplicate(frame) ==
    /\ PopFrame(frame)
    /\ Duplicate(frame)
    /\ Enqueue(<<Nack(frame, "BUSY")>>)
    /\ UNCHANGED <<inflight, connection, stateVars>>

\* Bug: a new session starts counting revisions from 0.
BugHandleHello(frame) ==
    /\ Dispatch(frame, {"HELLO"})
    /\ IF frame.value \in RejectCode
       THEN /\ Enqueue(<<Nack(frame, frame.value)>>)
            /\ UNCHANGED <<connection, revision>>
       ELSE /\ Enqueue(<<Server("HELLO_ACK", frame, NoValue, NoValue, 0)>>)
            /\ connection' = "Active" /\ revision' = 0
    /\ UNCHANGED <<values, submitted>>

HandleHello(frame) ==
    /\ Dispatch(frame, {"HELLO"})
    /\ IF frame.value \in RejectCode
       THEN /\ Enqueue(<<Nack(frame, frame.value)>>)
            /\ UNCHANGED connection
       ELSE /\ Enqueue(<<Server("HELLO_ACK", frame, NoValue, NoValue, revision)>>)
            /\ connection' = "Active"
    /\ UNCHANGED stateVars

HandleHeartbeat(frame) ==
    /\ Dispatch(frame, {"HEARTBEAT"})
    /\ Enqueue(<<Reply("ACK", frame)>>)
    /\ UNCHANGED <<connection, stateVars>>

(* One frame per registered parameter, in registry order. *)
ForEachParam(type, request) ==
    [i \in 1..Len(Registry) |->
        Server(type, request, Registry[i], values[Registry[i]], NoValue)]

HandleCapsRequest(frame) ==
    /\ Dispatch(frame, {"CAPS_REQUEST"})
    /\ Enqueue(<<Reply("CAPS_BEGIN", frame)>> \o ForEachParam("CAPS_PARAM", frame)
               \o <<Reply("CAPS_END", frame)>>)
    /\ UNCHANGED <<connection, stateVars>>

HandleGetState(frame) ==
    /\ Dispatch(frame, {"GET_STATE"})
    /\ Enqueue(<<Server("STATE_BEGIN", frame, NoValue, NoValue, revision)>>
               \o ForEachParam("STATE_PARAM", frame)
               \o <<Server("STATE_END", frame, NoValue, NoValue, revision)>>)
    /\ UNCHANGED <<connection, stateVars>>

HandleGetParam(frame) ==
    /\ Dispatch(frame, {"GET_PARAM"})
    /\ Enqueue(<<IF frame.value \in RejectCode
                 THEN Nack(frame, frame.value)
                 ELSE Server("PARAM_VALUE", frame, frame.param,
                             values[frame.param], revision)>>)
    /\ UNCHANGED <<connection, stateVars>>

RejectSetParam(frame) ==
    /\ Dispatch(frame, {"SET_PARAM"})
    /\ frame.value \in RejectCode
    /\ Enqueue(<<Nack(frame, frame.value)>>)
    /\ UNCHANGED <<connection, stateVars>>

\* Bug: the state is set before submit() is asked.
BugSetParamQueueFull(frame) ==
    /\ Dispatch(frame, {"SET_PARAM"})
    /\ frame.value \notin RejectCode
    /\ values' = [values EXCEPT ![frame.param] = frame.value]
    /\ Enqueue(<<Nack(frame, "QUEUE_FULL")>>)
    /\ UNCHANGED <<connection, revision, submitted>>

(* submit() pushes into the engine's bounded queue, which may be full. *)
SetParamQueueFull(frame) ==
    /\ Dispatch(frame, {"SET_PARAM"})
    /\ frame.value \notin RejectCode
    /\ Enqueue(<<Nack(frame, "QUEUE_FULL")>>)
    /\ UNCHANGED <<connection, stateVars>>

\* Bug: an accepted change is acknowledged but not announced.
BugAcceptSetParam(frame) ==
    /\ Dispatch(frame, {"SET_PARAM"})
    /\ frame.value \notin RejectCode
    /\ submitted' = [submitted EXCEPT ![frame.param] = frame.value]
    /\ values' = [values EXCEPT ![frame.param] = frame.value]
    /\ revision' = IF values' = values THEN revision ELSE revision + 1
    /\ Enqueue(<<Reply("ACK", frame)>>)
    /\ UNCHANGED connection

\* Bug: a changed value keeps the revision of the old one.
BugAcceptSameRevision(frame) ==
    /\ Dispatch(frame, {"SET_PARAM"})
    /\ frame.value \notin RejectCode
    /\ submitted' = [submitted EXCEPT ![frame.param] = frame.value]
    /\ values' = [values EXCEPT ![frame.param] = frame.value]
    /\ Enqueue(<<Reply("ACK", frame),
                 Server("PARAM_CHANGED", frame, frame.param, frame.value, revision)>>)
    /\ UNCHANGED <<connection, revision>>

(* The revision counts changes of a value: setting the value that is       *)
(* already there is confirmed, but changes nothing.                        *)
AcceptSetParam(frame) ==
    LET changed == values[frame.param] # frame.value
        rev     == IF changed THEN revision + 1 ELSE revision
    IN  /\ Dispatch(frame, {"SET_PARAM"})
        /\ frame.value \notin RejectCode
        /\ submitted' = [submitted EXCEPT ![frame.param] = frame.value]
        /\ values' = [values EXCEPT ![frame.param] = frame.value]
        /\ revision' = rev
        /\ Enqueue(<<Reply("ACK", frame),
                     Server("PARAM_CHANGED", frame, frame.param, frame.value, rev)>>)
        /\ UNCHANGED connection

HandleUnsupported(frame) ==
    /\ Dispatch(frame, {"ACTION"})
    /\ Enqueue(<<Nack(frame, "NOT_SUPPORTED")>>)
    /\ UNCHANGED <<connection, stateVars>>

HandleIgnored(frame) ==
    /\ Dispatch(frame, {"ACK"})
    /\ UNCHANGED <<tx, stale, connection, stateVars>>

HandleUnknown(frame) ==
    /\ Dispatch(frame, {"UNKNOWN"})
    /\ Enqueue(<<Reply("ERROR", frame)>>)
    /\ UNCHANGED <<connection, stateVars>>

HandleFrame ==
    /\ parsed # <<>>
    /\ LET frame == Head(parsed) IN
        \/ RejectDuplicate(frame) \/ HandleHello(frame)
        \/ HandleHeartbeat(frame) \/ HandleCapsRequest(frame)
        \/ HandleGetState(frame) \/ HandleGetParam(frame)
        \/ RejectSetParam(frame) \/ SetParamQueueFull(frame)
        \/ AcceptSetParam(frame) \/ HandleUnsupported(frame)
        \/ HandleIgnored(frame) \/ HandleUnknown(frame)

-----------------------------------------------------------------------------
(* take_tx, one unit *)
TakeTx ==
    /\ tx # <<>>
    /\ tx' = Tail(tx)
    /\ UNCHANGED <<parsed, inflight, connection, stateVars,
                   stale, rxAge, clockVars>>

(* tick(now), ms after the previous tick; the first one sets the timebase. *)
Aged(age, ms, bound) == IF age + ms > bound THEN bound ELSE age + ms

\* Bug: the server's own heartbeat counts as traffic.
BugTick(ms) ==
    LET rx   == IF haveTick THEN Aged(rxAge, ms, HeartbeatTimeout + 1) ELSE 0
        beat == IF haveTick THEN Aged(heartbeatAge, ms, HeartbeatInterval) ELSE 0
        live == connection = "Active" /\ rx <= HeartbeatTimeout
        due  == live /\ beat >= HeartbeatInterval
    IN  /\ haveTick' = TRUE
        /\ rxAge' = IF due THEN 0 ELSE rx
        /\ connection' = IF live THEN "Active" ELSE "Disconnected"
        /\ heartbeatAge' = IF due THEN 0 ELSE beat
        /\ Enqueue(IF due THEN <<Notification("HEARTBEAT")>> ELSE <<>>)
        /\ UNCHANGED <<parsed, inflight, stateVars>>

Tick(ms) ==
    LET rx   == IF haveTick THEN Aged(rxAge, ms, HeartbeatTimeout + 1) ELSE 0
        beat == IF haveTick THEN Aged(heartbeatAge, ms, HeartbeatInterval) ELSE 0
        live == connection = "Active" /\ rx <= HeartbeatTimeout
        due  == live /\ beat >= HeartbeatInterval
    IN  /\ haveTick' = TRUE
        /\ rxAge' = rx
        /\ connection' = IF live THEN "Active" ELSE "Disconnected"
        /\ heartbeatAge' = IF due THEN 0 ELSE beat
        /\ Enqueue(IF due THEN <<Notification("HEARTBEAT")>> ELSE <<>>)
        /\ UNCHANGED <<parsed, inflight, stateVars>>

InitSession ==
    /\ parsed = <<>>
    /\ inflight = {}
    /\ connection = "Disconnected"
    /\ values = Default /\ revision = 0
    /\ submitted = Default
    /\ tx = <<>> /\ stale = {}
    /\ rxAge = 0 /\ heartbeatAge = 0 /\ haveTick = FALSE
=============================================================================
