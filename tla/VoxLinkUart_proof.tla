--------------------------- MODULE VoxLinkUart_proof ---------------------------
(***************************************************************************)
(* First the lemmas about the Session, on which the theorems about the     *)
(* reference client rest as well: what enqueue() makes of a list of        *)
(* frames, and which frames each handler sends.  Then the control task and *)
(* the controller around it.  All of it holds for every registry, every    *)
(* size of frame and of the ring.                                          *)
(***************************************************************************)
EXTENDS VoxLinkUart, SequenceTheorems, WellFoundedInduction, TLAPS

(* Induction up to N, over a set: what holds at 0 and goes from each number *)
(* to the next holds at all of them.                                        *)
LEMMA UpTo ==
    ASSUME NEW N \in Nat, NEW Good,
           0 \in Good, \A n \in 1..N : n - 1 \in Good => n \in Good
    PROVE  \A n \in 0..N : n \in Good
<1> DEFINE Bad == {n \in 0..N : n \notin Good}
           Less == {ss \in Nat \X Nat : ss[1] < ss[2]}
<1> SUFFICES ASSUME Bad # {} PROVE FALSE
    OBVIOUS
<1>1. IsWellFoundedOn(Less, Nat)
    BY NatLessThanWellFounded DEF OpToRel
<1>2. Bad \subseteq Nat
    OBVIOUS
<1>3. PICK x \in Bad : \A y \in Bad : <<y, x>> \notin Less
    <2> HIDE DEF Bad, Less
    <2> QED BY <1>1, <1>2, WFMin
<1>4. ASSUME NEW y \in Bad PROVE ~(y < x)
    <2>1. <<y, x>> \notin Less
        BY <1>3
    <2>2. y \in Nat /\ x \in Nat
        OBVIOUS
    <2> QED BY <2>1, <2>2
<1>5. x \in 1..N /\ x - 1 \in 0..N
    BY SMT
<1>6. x - 1 \notin Bad
    BY <1>4, <1>5
<1> QED BY <1>5, <1>6

(* A loop of N rounds, each with its own step, and the states it runs       *)
(* through.                                                                 *)
Steps(N, S) == [1..N -> [S -> S]]
IsRun(f, S, base, N, step) ==
    /\ f \in [0..N -> S]
    /\ f[0] = base /\ \A n \in 1..N : f[n] = step[n][f[n - 1]]

LEMMA Iterates ==
    ASSUME NEW S, NEW base \in S, NEW N \in Nat, NEW step \in Steps(N, S)
    PROVE  \E f : IsRun(f, S, base, N, step)
<1> USE DEF Steps, IsRun
<1> DEFINE Runs(m) == \E f \in [0..m -> S] :
                        f[0] = base /\ \A n \in 1..m : f[n] = step[n][f[n - 1]]
           Ran == {m \in 0..N : Runs(m)}
<1>1. Runs(0)
    <2> WITNESS [n \in 0..0 |-> base] \in [0..0 -> S]
    <2> QED OBVIOUS
<1>2. ASSUME NEW m \in 1..N, Runs(m - 1)
      PROVE  Runs(m)
    <2>1. PICK f \in [0..(m-1) -> S] :
              f[0] = base /\ \A n \in 1..(m-1) : f[n] = step[n][f[n - 1]]
        BY <1>2
    <2> DEFINE g == [n \in 0..m |-> IF n = m THEN step[m][f[m - 1]] ELSE f[n]]
    <2>2. g \in [0..m -> S]
        OBVIOUS
    <2>3. g[0] = base
        BY <2>1
    <2>4. \A n \in 1..m : g[n] = step[n][g[n - 1]]
        BY <2>1
    <2> QED BY <2>2, <2>3, <2>4
<1>3. 0 \in Ran
    BY <1>1
<1>4. \A m \in 1..N : m - 1 \in Ran => m \in Ran
    <2> SUFFICES ASSUME NEW m \in 1..N, m - 1 \in Ran
                 PROVE  m \in Ran
        OBVIOUS
    <2>1. Runs(m - 1)
        <3> HIDE DEF Runs
        <3> QED OBVIOUS
    <2>2. Runs(m)
        <3> HIDE DEF Runs
        <3> QED BY <2>1, <1>2
    <2> QED
        <3> HIDE DEF Runs
        <3> QED BY <2>2
<1>5. \A m \in 0..N : m \in Ran
    <2> HIDE DEF Ran
    <2> QED BY <1>3, <1>4, UpTo
<1>6. Runs(N)
    BY <1>5
<1> QED BY <1>6

-----------------------------------------------------------------------------
(* Types *)

FrameValue == Value \union RejectCode
                  \union {NoValue, "BUSY", "QUEUE_FULL", "NOT_SUPPORTED"}

ServerFrame ==
    [type : ServerType, request : ClientFrame \union {NoValue},
     param : Param \union {NoValue}, value : FrameValue,
     revision : Nat \union {NoValue}]

Unit == [frame : ServerFrame, part : Nat \ {0}, last : BOOLEAN]
Ring == [tx : Seq(Unit), stale : SUBSET (Param \union {NoValue})]

SessionTypeOK ==
    /\ parsed \in Seq(ClientFrame) /\ inflight \subseteq Seq8
    /\ connection \in {"Active", "Disconnected"}
    /\ values \in [Param -> Value] /\ revision \in Nat
    /\ submitted \in [Param -> Value]
    /\ tx \in Seq(Unit) /\ stale \subseteq Param \union {NoValue}
    /\ rxAge \in Nat /\ heartbeatAge \in Nat /\ haveTick \in BOOLEAN

(* The units of a frame: at least one, and the last one ends it.            *)
LEMMA UnitsOfFrame ==
    ASSUME NEW frame \in ServerFrame
    PROVE  /\ Size(frame.type) \in Nat \ {0}
           /\ Units(frame) \in Seq(Unit) /\ Len(Units(frame)) = Size(frame.type)
           /\ \A i \in 1..Size(frame.type) :
                Units(frame)[i].frame = frame /\ Units(frame)[i].part = i
                /\ (Units(frame)[i].last <=> i = Size(frame.type))
<1>1. Size(frame.type) \in Nat \ {0}
    BY SessionAssumption DEF ServerFrame
<1>2. \A i \in 1..Size(frame.type) :
        [frame |-> frame, part |-> i, last |-> i = Size(frame.type)] \in Unit
    BY <1>1 DEF Unit
<1>3. Units(frame) \in [1..Size(frame.type) -> Unit]
    BY <1>2 DEF Units
<1>4. Units(frame) \in Seq(Unit) /\ Len(Units(frame)) = Size(frame.type)
    BY <1>1, <1>3, IsASeq
<1> QED BY <1>1, <1>4 DEF Units

(* enqueue() of one frame: it is dropped, and its change becomes stale, or *)
(* it is appended as a whole.                                               *)
LEMMA EnqueueOneCases ==
    ASSUME NEW ring \in Ring, NEW frame \in ServerFrame
    PROVE  LET next == EnqueueOne(ring, frame) IN
           /\ next \in Ring
           /\ \/ /\ next.tx = ring.tx
                 /\ next.stale = IF frame.type = "PARAM_CHANGED"
                                 THEN ring.stale \union {frame.param} ELSE ring.stale
              \/ /\ next.tx = ring.tx \o Units(frame)
                 /\ next.stale = ring.stale \ {frame.param}
<1>1. ring.tx \in Seq(Unit) /\ frame.param \in Param \union {NoValue}
    BY DEF Ring, ServerFrame
<1>2. ring.tx \o Units(frame) \in Seq(Unit)
    BY <1>1, UnitsOfFrame, ConcatProperties
<1>3. CASE Len(ring.tx) + Size(frame.type) > Limit(frame)
    BY <1>1, <1>3 DEF EnqueueOne, Ring
<1>4. CASE ~(Len(ring.tx) + Size(frame.type) > Limit(frame))
    BY <1>1, <1>2, <1>4 DEF EnqueueOne, Ring
<1> QED BY <1>3, <1>4

(* Enqueue() of a list is enqueue() of one frame after the other.           *)
LEMMA EnqueueRings ==
    ASSUME tx \in Seq(Unit), stale \subseteq Param \union {NoValue},
           NEW frames \in Seq(ServerFrame), Enqueue(frames)
    PROVE  \E ring \in [0..Len(frames) -> Ring] :
              /\ ring[0] = [tx |-> tx, stale |-> stale]
              /\ \A n \in 1..Len(frames) : ring[n] = EnqueueOne(ring[n - 1], frames[n])
              /\ tx' = ring[Len(frames)].tx /\ stale' = ring[Len(frames)].stale
<1> DEFINE N == Len(frames)
           base == [tx |-> tx, stale |-> stale]
           step == [n \in 1..N |-> [r \in Ring |-> EnqueueOne(r, frames[n])]]
           Eq(g) == g = [n \in 0..N |-> IF n = 0 THEN base
                                        ELSE EnqueueOne(g[n - 1], frames[n])]
           ring == CHOOSE g : Eq(g)
<1>1. N \in Nat /\ base \in Ring
    BY DEF Ring
<1>2. \A n \in 1..N, r \in Ring : EnqueueOne(r, frames[n]) \in Ring
    <2> SUFFICES ASSUME NEW n \in 1..N, NEW r \in Ring
                 PROVE  EnqueueOne(r, frames[n]) \in Ring
        OBVIOUS
    <2>1. frames[n] \in ServerFrame
        OBVIOUS
    <2> QED BY <2>1, EnqueueOneCases
<1>3. PICK f : IsRun(f, Ring, base, N, step)
    <2>1. step \in Steps(N, Ring)
        BY <1>2 DEF Steps
    <2> HIDE DEF N, base, step
    <2> QED BY <1>1, <2>1, Iterates
<1>4. \A n \in 1..N : f[n] = EnqueueOne(f[n - 1], frames[n])
    <2> SUFFICES ASSUME NEW n \in 1..N
                 PROVE  f[n] = EnqueueOne(f[n - 1], frames[n])
        OBVIOUS
    <2>1. f[n - 1] \in Ring
        BY <1>1, <1>3 DEF IsRun
    <2>2. step[n][f[n - 1]] = EnqueueOne(f[n - 1], frames[n])
        BY <2>1
    <2> QED BY <1>3, <2>2 DEF IsRun
<1>5. Eq(f)
    <2> HIDE DEF base
    <2> QED BY <1>1, <1>3, <1>4 DEF IsRun
<1>6. Eq(ring)
    <2> HIDE DEF Eq
    <2> QED BY <1>5
<1>7. tx' = ring[N].tx /\ stale' = ring[N].stale
    BY DEF Enqueue
<1>8. ring[0] = base /\ \A n \in 1..N : ring[n] = EnqueueOne(ring[n - 1], frames[n])
    <2> HIDE DEF ring, base
    <2> QED BY <1>1, <1>6
<1>9. ring \in [0..N -> Ring]
    <2> HIDE DEF ring, base
    <2> DEFINE Good == {n \in 0..N : ring[n] \in Ring}
    <2>1. 0 \in Good
        BY <1>1, <1>8
    <2>2. \A n \in 1..N : n - 1 \in Good => n \in Good
        BY <1>1, <1>2, <1>8
    <2>3. \A n \in 0..N : n \in Good
        <3> HIDE DEF Good, N
        <3> QED BY <1>1, <2>1, <2>2, UpTo
    <2> QED BY <1>6, <2>3
<1> HIDE DEF ring
<1> QED BY <1>7, <1>8, <1>9

-----------------------------------------------------------------------------
(* What the handlers send *)

AnswerType == {"ACK", "NACK", "HELLO_ACK", "CAPS_END", "STATE_END", "PARAM_VALUE"}

(* A step enqueues these frames: they are true of the state after it, and   *)
(* announce every value it changes.                                         *)
Sends(frames) ==
    /\ frames \in Seq(ServerFrame) /\ Enqueue(frames)
    /\ \A n \in 1..Len(frames) :
        /\ frames[n].param \in Param => frames[n].value = values'[frames[n].param]
        /\ frames[n].revision \in {NoValue, revision'}
    /\ \A p \in Param : values'[p] # values[p] =>
        \E n \in 1..Len(frames) :
            frames[n].type = "PARAM_CHANGED" /\ frames[n].param = p

(* The frames answer one request, which the guard has let through, at most  *)
(* once; or they are no answer.  A snapshot answers GET_STATE alone.        *)
SnapshotType == {"STATE_BEGIN", "STATE_PARAM"}

AnswersOnce(frame, frames) ==
    /\ \A n \in 1..Len(frames) :
        /\ frames[n].request = frame
        /\ frames[n].type \in SnapshotType => frame.type = "GET_STATE"
    /\ \/ /\ inflight' = inflight
          /\ frame.type \in RequestType =>
                \A n \in 1..Len(frames) : frames[n].value = "BUSY"
       \/ /\ frame.type \in RequestType /\ frame.seq \notin inflight
          /\ inflight' = inflight \union {frame.seq}
          /\ \A m, n \in 1..Len(frames) :
                frames[m].type \in AnswerType /\ frames[n].type \in AnswerType => m = n

LEMMA ClientFrameFields ==
    ASSUME NEW frame \in ClientFrame
    PROVE  /\ frame.seq \in Seq8
           /\ frame.value \in Value \union RejectCode \union {NoValue}
           /\ frame.type = "SET_PARAM" => frame.param \in Param /\ frame.value # NoValue
           /\ frame.type = "GET_PARAM" /\ frame.value \notin RejectCode =>
                frame.param \in Param
BY SessionAssumption DEF ClientFrame, Client

LEMMA OneFrame ==
    ASSUME NEW x \in ServerFrame
    PROVE  /\ <<x>> \in Seq(ServerFrame) /\ Len(<<x>>) = 1
           /\ <<x>>[1] = x
OBVIOUS

(* A snapshot is a frame for each parameter between a first and a last one. *)
LEMMA SnapshotFrames ==
    ASSUME NEW first \in ServerFrame, NEW last \in ServerFrame,
           NEW each \in Seq(ServerFrame)
    PROVE  LET all == <<first>> \o each \o <<last>> IN
           /\ all \in Seq(ServerFrame) /\ Len(all) = Len(each) + 2
           /\ all[1] = first /\ all[Len(each) + 2] = last
           /\ \A n \in 2..(Len(each) + 1) : all[n] = each[n - 1]
<1> DEFINE head == <<first>> \o each
<1>1. head \in Seq(ServerFrame) /\ Len(head) = Len(each) + 1 /\ head[1] = first
      /\ \A n \in 2..(Len(each) + 1) : head[n] = each[n - 1]
    OBVIOUS
<1>2. Len(each) \in Nat
    OBVIOUS
<1> HIDE DEF head
<1>3. /\ head \o <<last>> \in Seq(ServerFrame)
      /\ Len(head \o <<last>>) = Len(head) + 1
      /\ \A n \in 1..Len(head) : (head \o <<last>>)[n] = head[n]
      /\ (head \o <<last>>)[Len(head) + 1] = last
    BY <1>1
<1> QED
    <2> SUFFICES /\ head \o <<last>> \in Seq(ServerFrame)
                 /\ Len(head \o <<last>>) = Len(each) + 2
                 /\ (head \o <<last>>)[1] = first
                 /\ (head \o <<last>>)[Len(each) + 2] = last
                 /\ \A n \in 2..(Len(each) + 1) : (head \o <<last>>)[n] = each[n - 1]
        BY DEF head
    <2> QED BY <1>1, <1>2, <1>3

(* A frame without a parameter is enqueued by itself, and nothing changes.  *)
LEMMA SendsOne ==
    ASSUME SessionTypeOK, NEW x \in ServerFrame, Enqueue(<<x>>),
           values' = values, revision' = revision,
           x.param \in Param => x.value = values[x.param],
           x.revision \in {NoValue, revision}
    PROVE  Sends(<<x>>)
BY OneFrame DEF Sends

(* One frame per parameter, with its value.                                 *)
LEMMA EachParam ==
    ASSUME SessionTypeOK, NEW request \in ClientFrame, NEW type \in ServerType
    PROVE  LET each == ForEachParam(type, request) IN
           /\ each \in Seq(ServerFrame) /\ Len(each) = Len(Registry)
           /\ \A n \in 1..Len(each) :
                /\ each[n].type = type /\ each[n].request = request
                /\ each[n].param = Registry[n] /\ each[n].param \in Param
                /\ each[n].value = values[each[n].param]
                /\ each[n].revision = NoValue
<1> DEFINE N == Len(Registry)
           frame(n) == Server(type, request, Registry[n], values[Registry[n]], NoValue)
<1>1. N \in Nat /\ \A n \in 1..N : Registry[n] \in Param
    BY SessionAssumption
<1>2. ASSUME NEW n \in 1..N
      PROVE  /\ frame(n) \in ServerFrame
             /\ frame(n).type = type /\ frame(n).request = request
             /\ frame(n).param = Registry[n] /\ frame(n).value = values[Registry[n]]
             /\ frame(n).revision = NoValue
    <2>1. Registry[n] \in Param /\ values[Registry[n]] \in Value
        BY <1>1 DEF SessionTypeOK
    <2> QED BY <2>1 DEF Server, ServerFrame, FrameValue
<1> HIDE DEF frame
<1>3. ForEachParam(type, request) = [n \in 1..N |-> frame(n)]
    BY DEF ForEachParam, frame
<1>4. [n \in 1..N |-> frame(n)] \in [1..N -> ServerFrame]
    BY <1>2
<1>5. /\ ForEachParam(type, request) \in Seq(ServerFrame)
      /\ Len(ForEachParam(type, request)) = N
      /\ \A n \in 1..N : ForEachParam(type, request)[n] = frame(n)
    BY <1>1, <1>3, <1>4, IsASeq
<1> QED BY <1>1, <1>2, <1>5

(* A snapshot sends every parameter, and ends with its only answer.         *)
LEMMA SendsSnapshot ==
    ASSUME SessionTypeOK, NEW frame \in ClientFrame, NEW type \in ServerType,
           NEW first \in ServerFrame, NEW last \in ServerFrame,
           Enqueue(<<first>> \o ForEachParam(type, frame) \o <<last>>),
           values' = values, revision' = revision,
           first.request = frame, first.param = NoValue,
           first.revision \in {NoValue, revision}, first.type \notin AnswerType,
           last.request = frame, last.param = NoValue,
           last.revision \in {NoValue, revision}, type \notin AnswerType,
           frame.type \in RequestType, frame.seq \notin inflight,
           inflight' = inflight \union {frame.seq},
           \A t \in {first.type, type, last.type} :
                t \in SnapshotType => frame.type = "GET_STATE"
    PROVE  \E frames : Sends(frames) /\ AnswersOnce(frame, frames)
<1> DEFINE each == ForEachParam(type, frame)
           frames == <<first>> \o each \o <<last>>
           N == Len(each)
<1>1. /\ each \in Seq(ServerFrame)
      /\ \A n \in 1..N :
            /\ each[n].type = type /\ each[n].request = frame
            /\ each[n].param \in Param /\ each[n].value = values[each[n].param]
            /\ each[n].revision = NoValue
    BY EachParam
<1>2. Enqueue(frames)
    OBVIOUS
<1> HIDE DEF each
<1>3. /\ frames \in Seq(ServerFrame) /\ Len(frames) = N + 2
      /\ frames[1] = first /\ frames[N + 2] = last
      /\ \A n \in 2..(N + 1) : frames[n] = each[n - 1]
    BY <1>1, SnapshotFrames
<1> HIDE DEF frames
<1>4. N \in Nat /\ NoValue \notin Param
    BY <1>1, SessionAssumption
<1>5. \A n \in 1..Len(frames) :
        \/ n = 1 /\ frames[n] = first
        \/ n = N + 2 /\ frames[n] = last
        \/ n - 1 \in 1..N /\ frames[n] = each[n - 1]
    BY SMTT(30), <1>3, <1>4
<1>6. \A n \in 1..Len(frames) :
        /\ frames[n].request = frame
        /\ frames[n].revision \in {NoValue, revision}
        /\ frames[n].param \in Param => frames[n].value = values[frames[n].param]
        /\ frames[n].type \in AnswerType => n = N + 2
        /\ frames[n].type \in SnapshotType => frame.type = "GET_STATE"
    BY SMTT(30), <1>1, <1>4, <1>5
<1>7. Sends(frames)
    BY <1>2, <1>3, <1>6 DEF Sends
<1>8. AnswersOnce(frame, frames)
    BY <1>6 DEF AnswersOnce
<1> QED BY <1>7, <1>8

LEMMA HandleFrameSends ==
    ASSUME SessionTypeOK, HandleFrame
    PROVE  \/ UNCHANGED <<tx, stale, values, revision, inflight>>
           \/ \E frames : Sends(frames) /\ AnswersOnce(Head(parsed), frames)
<1> DEFINE frame == Head(parsed)
<1>1. frame \in ClientFrame
    BY DEF HandleFrame, SessionTypeOK
<1> HIDE DEF frame
<1>a. NoValue \notin Param /\ revision \in Nat /\ values \in [Param -> Value]
    BY SessionAssumption DEF SessionTypeOK
<1>s. ASSUME NEW x \in ServerFrame, Enqueue(<<x>>),
             values' = values, revision' = revision, x.request = frame,
             x.param \in Param => x.value = values[x.param],
             x.revision \in {NoValue, revision}, x.type \notin SnapshotType,
             \/ inflight' = inflight /\ (frame.type \in RequestType => x.value = "BUSY")
             \/ frame.type \in RequestType /\ frame.seq \notin inflight
                /\ inflight' = inflight \union {frame.seq}
      PROVE  Sends(<<x>>) /\ AnswersOnce(frame, <<x>>)
    <2>1. Sends(<<x>>)
        BY <1>s, SendsOne
    <2>2. AnswersOnce(frame, <<x>>)
        BY <1>s, OneFrame DEF AnswersOnce
    <2> QED BY <2>1, <2>2
<1>n. ASSUME NEW code \in FrameValue
      PROVE  /\ Nack(frame, code) \in ServerFrame
             /\ Nack(frame, code).request = frame /\ Nack(frame, code).param = NoValue
             /\ Nack(frame, code).revision = NoValue /\ Nack(frame, code).value = code
             /\ Nack(frame, code).type \notin SnapshotType
    BY <1>1 DEF Nack, Server, ServerFrame, ServerType, SnapshotType
<1>r. ASSUME NEW type \in ServerType
      PROVE  /\ Reply(type, frame) \in ServerFrame
             /\ Reply(type, frame).type = type
             /\ Reply(type, frame).request = frame /\ Reply(type, frame).param = NoValue
             /\ Reply(type, frame).revision = NoValue
    BY <1>1 DEF Reply, Server, ServerFrame, FrameValue
<1>d. ASSUME NEW types, types \subseteq RequestType, Dispatch(frame, types)
      PROVE  /\ frame.type \in RequestType /\ frame.type \in types
             /\ frame.seq \notin inflight /\ inflight' = inflight \union {frame.seq}
    BY <1>d DEF Dispatch, Duplicate
<1>2. CASE RejectDuplicate(frame)
    <2>1. Nack(frame, "BUSY") \in ServerFrame
        BY <1>n DEF FrameValue
    <2>2. Sends(<<Nack(frame, "BUSY")>>) /\ AnswersOnce(frame, <<Nack(frame, "BUSY")>>)
        BY <1>2, <1>a, <1>s, <1>n, <2>1 DEF RejectDuplicate, stateVars, FrameValue
    <2> QED BY <2>2 DEF frame
<1>3. CASE HandleHello(frame)
    <2>1. frame.type \in RequestType /\ frame.seq \notin inflight
          /\ inflight' = inflight \union {frame.seq}
        BY <1>3, <1>d DEF HandleHello, RequestType
    <2>2. CASE frame.value \in RejectCode
        <3>1. frame.value \in FrameValue
            BY <2>2 DEF FrameValue
        <3>2. Sends(<<Nack(frame, frame.value)>>)
              /\ AnswersOnce(frame, <<Nack(frame, frame.value)>>)
            BY <1>3, <1>a, <1>s, <1>n, <2>1, <2>2, <3>1 DEF HandleHello, stateVars
        <3> QED BY <3>2 DEF frame
    <2>3. CASE frame.value \notin RejectCode
        <3> DEFINE x == Server("HELLO_ACK", frame, NoValue, NoValue, revision)
        <3>1. x \in ServerFrame /\ x.request = frame /\ x.param = NoValue
              /\ x.revision = revision /\ x.type \notin SnapshotType
            BY <1>1, <1>a DEF Server, ServerFrame, FrameValue, ServerType, SnapshotType
        <3>2. Enqueue(<<x>>) /\ values' = values /\ revision' = revision
            BY <1>3, <2>3 DEF HandleHello, stateVars
        <3> HIDE DEF x
        <3>3. Sends(<<x>>) /\ AnswersOnce(frame, <<x>>)
            BY <1>a, <1>s, <2>1, <3>1, <3>2
        <3> QED BY <3>3 DEF frame
    <2> QED BY <2>2, <2>3
<1>4. CASE HandleHeartbeat(frame)
    <2>1. frame.type \in RequestType /\ frame.seq \notin inflight
          /\ inflight' = inflight \union {frame.seq}
        BY <1>4, <1>d DEF HandleHeartbeat, RequestType
    <2>2. Sends(<<Reply("ACK", frame)>>) /\ AnswersOnce(frame, <<Reply("ACK", frame)>>)
        BY <1>4, <1>a, <1>r, <1>s, <2>1 DEF HandleHeartbeat, stateVars, ServerType,
            SnapshotType
    <2> QED BY <2>2 DEF frame
<1>5. CASE HandleGetParam(frame)
    <2>1. frame.type \in RequestType /\ frame.seq \notin inflight
          /\ inflight' = inflight \union {frame.seq} /\ frame.type = "GET_PARAM"
        BY <1>5, <1>d DEF HandleGetParam, RequestType
    <2>2. CASE frame.value \in RejectCode
        <3>1. frame.value \in FrameValue
            BY <2>2 DEF FrameValue
        <3>2. Sends(<<Nack(frame, frame.value)>>)
              /\ AnswersOnce(frame, <<Nack(frame, frame.value)>>)
            BY <1>5, <1>a, <1>s, <1>n, <2>1, <2>2, <3>1 DEF HandleGetParam, stateVars
        <3> QED BY <3>2 DEF frame
    <2>3. CASE frame.value \notin RejectCode
        <3> DEFINE x == Server("PARAM_VALUE", frame, frame.param,
                               values[frame.param], revision)
        <3>1. frame.param \in Param
            BY <1>1, <2>1, <2>3, ClientFrameFields
        <3>2. x \in ServerFrame /\ x.request = frame /\ x.param = frame.param
              /\ x.revision = revision /\ x.value = values[frame.param]
              /\ x.type \notin SnapshotType
            BY <1>1, <1>a, <3>1 DEF Server, ServerFrame, FrameValue, ServerType, SnapshotType
        <3>3. Enqueue(<<x>>) /\ values' = values /\ revision' = revision
            BY <1>5, <2>3 DEF HandleGetParam, stateVars
        <3> HIDE DEF x
        <3>4. Sends(<<x>>) /\ AnswersOnce(frame, <<x>>)
            BY <1>a, <1>s, <2>1, <3>2, <3>3
        <3> QED BY <3>4 DEF frame
    <2> QED BY <2>2, <2>3
<1>6. CASE RejectSetParam(frame)
    <2>1. frame.type \in RequestType /\ frame.seq \notin inflight
          /\ inflight' = inflight \union {frame.seq}
        BY <1>6, <1>d DEF RejectSetParam, RequestType
    <2>2. frame.value \in FrameValue
        BY <1>6 DEF RejectSetParam, FrameValue
    <2>3. Sends(<<Nack(frame, frame.value)>>)
          /\ AnswersOnce(frame, <<Nack(frame, frame.value)>>)
        BY <1>6, <1>a, <1>s, <1>n, <2>1, <2>2 DEF RejectSetParam, stateVars
    <2> QED BY <2>3 DEF frame
<1>7. CASE SetParamQueueFull(frame)
    <2>1. frame.type \in RequestType /\ frame.seq \notin inflight
          /\ inflight' = inflight \union {frame.seq}
        BY <1>7, <1>d DEF SetParamQueueFull, RequestType
    <2>2. "QUEUE_FULL" \in FrameValue
        BY DEF FrameValue
    <2>3. Sends(<<Nack(frame, "QUEUE_FULL")>>)
          /\ AnswersOnce(frame, <<Nack(frame, "QUEUE_FULL")>>)
        BY <1>7, <1>a, <1>s, <1>n, <2>1, <2>2 DEF SetParamQueueFull, stateVars
    <2> QED BY <2>3 DEF frame
<1>8. CASE AcceptSetParam(frame)
    <2> DEFINE ack == Reply("ACK", frame)
               news == Server("PARAM_CHANGED", frame, frame.param, frame.value, revision')
               frames == <<ack, news>>
    <2>1. frame.type = "SET_PARAM" /\ frame.type \in RequestType /\ frame.seq \notin inflight
          /\ inflight' = inflight \union {frame.seq}
        BY <1>8, <1>d DEF AcceptSetParam, RequestType
    <2>2. frame.param \in Param /\ frame.value \in Value
        BY <1>1, <1>8, <2>1, ClientFrameFields DEF AcceptSetParam
    <2>3. /\ values' = [values EXCEPT ![frame.param] = frame.value]
          /\ revision' \in Nat
          /\ Enqueue(frames)
        BY <1>8, <1>a DEF AcceptSetParam
    <2>4. ack \in ServerFrame /\ ack.type = "ACK" /\ ack.request = frame
          /\ ack.param = NoValue /\ ack.revision = NoValue
        BY <1>r DEF ServerType
    <2>5. news \in ServerFrame /\ news.type = "PARAM_CHANGED" /\ news.request = frame
          /\ news.param = frame.param /\ news.value = frame.value
          /\ news.revision = revision'
        BY <1>1, <2>2, <2>3 DEF Server, ServerFrame, FrameValue, ServerType
    <2> HIDE DEF ack, news
    <2>6. frames \in Seq(ServerFrame) /\ Len(frames) = 2
          /\ frames[1] = ack /\ frames[2] = news
        BY <2>4, <2>5
    <2>7. Sends(frames)
        <3> HIDE DEF frames
        <3>1. \A n \in 1..Len(frames) : n = 1 \/ n = 2
            BY <2>6
        <3>2. values'[frame.param] = frame.value
              /\ \A p \in Param : values'[p] # values[p] => p = frame.param
            BY <1>a, <2>2, <2>3
        <3> QED BY <1>a, <2>2, <2>3, <2>4, <2>5, <2>6, <3>1, <3>2 DEF Sends
    <2>8. AnswersOnce(frame, frames)
        <3> HIDE DEF frames
        <3>1. \A n \in 1..Len(frames) : n = 1 \/ n = 2
            BY <2>6
        <3> QED BY <2>1, <2>4, <2>5, <2>6, <3>1 DEF AnswersOnce, AnswerType, SnapshotType
    <2> HIDE DEF frames
    <2> QED BY <2>7, <2>8 DEF frame
<1>9. CASE HandleUnsupported(frame)
    <2>1. frame.type \in RequestType /\ frame.seq \notin inflight
          /\ inflight' = inflight \union {frame.seq}
        BY <1>9, <1>d DEF HandleUnsupported, RequestType
    <2>2. "NOT_SUPPORTED" \in FrameValue
        BY DEF FrameValue
    <2>3. Sends(<<Nack(frame, "NOT_SUPPORTED")>>)
          /\ AnswersOnce(frame, <<Nack(frame, "NOT_SUPPORTED")>>)
        BY <1>9, <1>a, <1>s, <1>n, <2>1, <2>2 DEF HandleUnsupported, stateVars
    <2> QED BY <2>3 DEF frame
<1>10. CASE HandleIgnored(frame)
    BY <1>10 DEF HandleIgnored, Dispatch, RequestType, stateVars
<1>11. CASE HandleUnknown(frame)
    <2>1. frame.type \notin RequestType /\ inflight' = inflight
        BY <1>11 DEF HandleUnknown, Dispatch, RequestType
    <2>2. Sends(<<Reply("ERROR", frame)>>) /\ AnswersOnce(frame, <<Reply("ERROR", frame)>>)
        BY <1>11, <1>a, <1>r, <1>s, <2>1 DEF HandleUnknown, stateVars, ServerType,
            SnapshotType
    <2> QED BY <2>2 DEF frame
<1>12. CASE HandleCapsRequest(frame)
    <2> DEFINE first == Reply("CAPS_BEGIN", frame)
               last == Reply("CAPS_END", frame)
    <2>1. frame.type \in RequestType /\ frame.seq \notin inflight
          /\ inflight' = inflight \union {frame.seq}
        BY <1>12, <1>d DEF HandleCapsRequest, RequestType
    <2>2. first \in ServerFrame /\ first.type = "CAPS_BEGIN" /\ first.request = frame
          /\ first.param = NoValue /\ first.revision = NoValue
        BY <1>r DEF ServerType
    <2>3. last \in ServerFrame /\ last.type = "CAPS_END" /\ last.request = frame
          /\ last.param = NoValue /\ last.revision = NoValue
        BY <1>r DEF ServerType
    <2>4. Enqueue(<<first>> \o ForEachParam("CAPS_PARAM", frame) \o <<last>>)
          /\ values' = values /\ revision' = revision
        BY <1>12 DEF HandleCapsRequest, stateVars
    <2>5. "CAPS_PARAM" \in ServerType /\ "CAPS_PARAM" \notin AnswerType
          /\ "CAPS_BEGIN" \notin AnswerType
          /\ SnapshotType \intersect {"CAPS_BEGIN", "CAPS_PARAM", "CAPS_END"} = {}
        BY DEF ServerType, AnswerType, SnapshotType
    <2> HIDE DEF first, last
    <2>6. \E frames : Sends(frames) /\ AnswersOnce(frame, frames)
        BY <1>1, <2>1, <2>2, <2>3, <2>4, <2>5, SendsSnapshot
    <2> QED BY <2>6 DEF frame
<1>13. CASE HandleGetState(frame)
    <2> DEFINE first == Server("STATE_BEGIN", frame, NoValue, NoValue, revision)
               last == Server("STATE_END", frame, NoValue, NoValue, revision)
    <2>1. frame.type \in RequestType /\ frame.seq \notin inflight
          /\ inflight' = inflight \union {frame.seq} /\ frame.type = "GET_STATE"
        BY <1>13, <1>d DEF HandleGetState, RequestType
    <2>2. first \in ServerFrame /\ first.type = "STATE_BEGIN" /\ first.request = frame
          /\ first.param = NoValue /\ first.revision = revision
        BY <1>1, <1>a DEF Server, ServerFrame, ServerType, FrameValue
    <2>3. last \in ServerFrame /\ last.request = frame
          /\ last.param = NoValue /\ last.revision = revision
        BY <1>1, <1>a DEF Server, ServerFrame, ServerType, FrameValue
    <2>4. Enqueue(<<first>> \o ForEachParam("STATE_PARAM", frame) \o <<last>>)
          /\ values' = values /\ revision' = revision
        BY <1>13 DEF HandleGetState, stateVars
    <2>5. "STATE_PARAM" \in ServerType /\ "STATE_PARAM" \notin AnswerType
          /\ "STATE_BEGIN" \notin AnswerType
        BY DEF ServerType, AnswerType
    <2> HIDE DEF first, last
    <2>6. \E frames : Sends(frames) /\ AnswersOnce(frame, frames)
        BY <1>1, <2>1, <2>2, <2>3, <2>4, <2>5, SendsSnapshot
    <2> QED BY <2>6 DEF frame
<1> QED BY <1>2, <1>3, <1>4, <1>5, <1>6, <1>7, <1>8, <1>9, <1>10, <1>11, <1>12, <1>13
    DEF HandleFrame, frame

(* Only an accepted SET_PARAM changes the state, and counts it.             *)
LEMMA HandleFrameCounts ==
    ASSUME SessionTypeOK, HandleFrame
    PROVE  \/ values' = values /\ revision' = revision
           \/ Head(parsed).type = "SET_PARAM" /\ revision' = revision + 1
<1> DEFINE frame == Head(parsed)
<1> HIDE DEF frame
<1>1. CASE AcceptSetParam(frame)
    <2>1. CASE values[frame.param] = frame.value
        <3>1. values' = values /\ revision' = revision
            BY <1>1, <2>1 DEF AcceptSetParam, SessionTypeOK
        <3> QED BY <3>1
    <2>2. CASE values[frame.param] # frame.value
        BY <1>1, <2>2 DEF AcceptSetParam, Dispatch, frame
    <2> QED BY <2>1, <2>2
<1>2. CASE ~AcceptSetParam(frame)
    BY <1>2 DEF HandleFrame, frame, RejectDuplicate, HandleHello,
        HandleHeartbeat, HandleCapsRequest, HandleGetState, HandleGetParam,
        RejectSetParam, SetParamQueueFull, HandleUnsupported,
        HandleIgnored, HandleUnknown, stateVars
<1> QED BY <1>1, <1>2

(* The server's heartbeat announces nothing and answers nobody.             *)
LEMMA TickSends ==
    ASSUME SessionTypeOK, NEW ms \in Nat, Tick(ms)
    PROVE  \E frames : Sends(frames)
                       /\ \A n \in 1..Len(frames) : frames[n].type = "HEARTBEAT"
<1>1. NoValue \notin Param
    BY SessionAssumption
<1> DEFINE Beats(frames) == \A n \in 1..Len(frames) : frames[n].type = "HEARTBEAT"
<1>2. ASSUME Enqueue(<<>>), values' = values PROVE Sends(<<>>) /\ Beats(<<>>)
    BY <1>2 DEF Sends
<1>3. ASSUME Enqueue(<<Notification("HEARTBEAT")>>), values' = values, revision' = revision
      PROVE  Sends(<<Notification("HEARTBEAT")>>) /\ Beats(<<Notification("HEARTBEAT")>>)
    <2> DEFINE x == Notification("HEARTBEAT")
    <2>1. x \in ServerFrame /\ x.param = NoValue /\ x.revision = NoValue
          /\ x.type = "HEARTBEAT"
        BY DEF Notification, Reply, Server, ServerFrame, ServerType, FrameValue
    <2>2. Enqueue(<<x>>)
        BY <1>3
    <2> HIDE DEF x
    <2>3. Sends(<<x>>)
        BY <1>1, <1>3, <2>1, <2>2, SendsOne
    <2>4. Beats(<<x>>)
        BY <2>1, OneFrame
    <2> HIDE DEF Beats
    <2> QED BY <2>3, <2>4 DEF x
<1>4. values' = values /\ revision' = revision
    BY DEF Tick, stateVars
<1>5. Enqueue(<<>>) \/ Enqueue(<<Notification("HEARTBEAT")>>)
    BY DEF Tick
<1> QED BY <1>2, <1>3, <1>4, <1>5

-----------------------------------------------------------------------------
(* Types are preserved. *)

LEMMA EnqueueTypes ==
    ASSUME tx \in Seq(Unit), stale \subseteq Param \union {NoValue},
           NEW frames, Sends(frames)
    PROVE  tx' \in Seq(Unit) /\ stale' \subseteq Param \union {NoValue}
<1>1. frames \in Seq(ServerFrame) /\ Enqueue(frames)
    BY DEF Sends
<1>2. PICK ring \in [0..Len(frames) -> Ring] :
        tx' = ring[Len(frames)].tx /\ stale' = ring[Len(frames)].stale
    BY <1>1, EnqueueRings
<1>3. ring[Len(frames)] \in Ring
    BY <1>1
<1> QED BY <1>2, <1>3 DEF Ring

LEMMA HandleFrameTypes ==
    ASSUME SessionTypeOK, HandleFrame
    PROVE  SessionTypeOK' /\ revision' >= revision
<1> DEFINE frame == Head(parsed)
<1>1. frame \in ClientFrame /\ parsed # <<>> /\ Tail(parsed) \in Seq(ClientFrame)
    BY DEF HandleFrame, SessionTypeOK
<1>2. tx' \in Seq(Unit) /\ stale' \subseteq Param \union {NoValue}
    BY HandleFrameSends, EnqueueTypes DEF SessionTypeOK
<1> HIDE DEF frame
<1>3. ASSUME NEW types, Dispatch(frame, types)
      PROVE  /\ parsed' = Tail(parsed) /\ rxAge' = 0 /\ UNCHANGED clockVars
             /\ inflight' \subseteq inflight \union {frame.seq}
    BY <1>3 DEF Dispatch, PopFrame
<1>4. /\ parsed' = Tail(parsed) /\ rxAge' = 0 /\ UNCHANGED clockVars
      /\ inflight' \subseteq inflight \union {frame.seq}
    BY <1>3 DEF HandleFrame, frame, RejectDuplicate, PopFrame, HandleHello,
        HandleHeartbeat, HandleCapsRequest, HandleGetState, HandleGetParam,
        RejectSetParam, SetParamQueueFull, AcceptSetParam, HandleUnsupported,
        HandleIgnored, HandleUnknown
<1>5. /\ connection' \in {connection, "Active"}
      /\ UNCHANGED stateVars
         \/ /\ frame.param \in Param /\ frame.value \in Value
            /\ values' = [values EXCEPT ![frame.param] = frame.value]
            /\ submitted' = [submitted EXCEPT ![frame.param] = frame.value]
            /\ revision' \in {revision, revision + 1}
    <2>1. CASE AcceptSetParam(frame)
        <3>1. frame.type = "SET_PARAM" /\ frame.value \notin RejectCode
            BY <2>1 DEF AcceptSetParam, Dispatch
        <3>2. frame.param \in Param /\ frame.value \in Value
            BY <1>1, <3>1, ClientFrameFields
        <3> QED BY <2>1, <3>2 DEF AcceptSetParam
    <2>2. CASE ~AcceptSetParam(frame)
        BY <2>2 DEF HandleFrame, frame, RejectDuplicate, HandleHello,
            HandleHeartbeat, HandleCapsRequest, HandleGetState, HandleGetParam,
            RejectSetParam, SetParamQueueFull, HandleUnsupported,
            HandleIgnored, HandleUnknown
    <2> QED BY <2>1, <2>2
<1>6. frame.seq \in Seq8
    BY <1>1, ClientFrameFields
<1>7. /\ values' \in [Param -> Value] /\ submitted' \in [Param -> Value]
      /\ revision' \in Nat /\ revision' >= revision
    BY <1>5 DEF SessionTypeOK, stateVars
<1> QED BY <1>1, <1>2, <1>4, <1>5, <1>6, <1>7 DEF SessionTypeOK, clockVars

LEMMA TickTypes ==
    ASSUME SessionTypeOK, NEW ms \in Nat, Tick(ms)
    PROVE  SessionTypeOK'
<1>1. tx' \in Seq(Unit) /\ stale' \subseteq Param \union {NoValue}
    BY TickSends, EnqueueTypes DEF SessionTypeOK
<1>2. \A age, bound \in Nat : Aged(age, ms, bound) \in Nat
    BY DEF Aged
<1>3. rxAge' \in Nat /\ heartbeatAge' \in Nat
    <2>1. HeartbeatTimeout + 1 \in Nat /\ HeartbeatInterval \in Nat
        BY SessionAssumption
    <2>2. /\ Aged(rxAge, ms, HeartbeatTimeout + 1) \in Nat
          /\ Aged(heartbeatAge, ms, HeartbeatInterval) \in Nat
        BY <1>2, <2>1 DEF SessionTypeOK
    <2> QED BY <2>2 DEF Tick
<1>4. /\ UNCHANGED <<parsed, inflight, stateVars>> /\ haveTick' = TRUE
      /\ connection' \in {"Active", "Disconnected"}
    BY DEF Tick
<1> QED BY <1>1, <1>3, <1>4 DEF SessionTypeOK, stateVars

LEMMA ShortStepTypes ==
    ASSUME SessionTypeOK,
           FeedBegin \/ TakeTx \/ \E frame \in ClientFrame : EnqueueParsed(frame)
    PROVE  SessionTypeOK'
<1>1. CASE FeedBegin
    BY <1>1 DEF FeedBegin, SessionTypeOK, stateVars, clockVars
<1>2. CASE TakeTx
    <2>1. Tail(tx) \in Seq(Unit)
        BY <1>2 DEF TakeTx, SessionTypeOK
    <2> QED BY <1>2, <2>1 DEF TakeTx, SessionTypeOK, stateVars, clockVars
<1>3. CASE \E frame \in ClientFrame : EnqueueParsed(frame)
    <2>1. parsed' \in Seq(ClientFrame)
        BY <1>3 DEF EnqueueParsed, SessionTypeOK
    <2> QED BY <1>3, <2>1 DEF EnqueueParsed, SessionTypeOK, stateVars, clockVars
<1> QED BY <1>1, <1>2, <1>3


-----------------------------------------------------------------------------
(* The view of a controller after some units *)

ViewSet == [mirror : [Param -> FrameValue], revision : Nat \union {NoValue}]

LEMMA ReceiveIn ==
    ASSUME NEW view \in ViewSet, NEW frame \in ServerFrame
    PROVE  Receive(view, frame) \in ViewSet
<1>1. frame.value \in FrameValue /\ frame.revision \in Nat \union {NoValue}
    BY DEF ServerFrame
<1> QED BY <1>1 DEF Receive, ViewSet

LEMMA ArriveIn ==
    ASSUME NEW view \in ViewSet, NEW unit \in Unit
    PROVE  Arrive(view, unit) \in ViewSet
BY ReceiveIn DEF Arrive, Unit

(* The views that follow one another as the units arrive.                   *)
Views(seen, view, units) ==
    /\ seen \in [0..Len(units) -> ViewSet]
    /\ seen[0] = view
    /\ \A n \in 1..Len(units) : seen[n] = Arrive(seen[n - 1], units[n])

LEMMA ViewsExist ==
    ASSUME NEW view \in ViewSet, NEW units \in Seq(Unit)
    PROVE  \E seen : Views(seen, view, units)
                     /\ ViewAfter(view, units) = seen[Len(units)]
<1> DEFINE N == Len(units)
           step == [n \in 1..N |-> [v \in ViewSet |-> Arrive(v, units[n])]]
           Eq(g) == g = [n \in 0..N |-> IF n = 0 THEN view
                                        ELSE Arrive(g[n - 1], units[n])]
           seen == CHOOSE g : Eq(g)
<1>1. N \in Nat
    OBVIOUS
<1>2. \A n \in 1..N, v \in ViewSet : Arrive(v, units[n]) \in ViewSet
    BY ArriveIn
<1>3. PICK f : IsRun(f, ViewSet, view, N, step)
    <2>1. step \in Steps(N, ViewSet)
        BY <1>2 DEF Steps
    <2> HIDE DEF N, step
    <2> QED BY <1>1, <2>1, Iterates
<1>4. \A n \in 1..N : f[n] = Arrive(f[n - 1], units[n])
    <2> SUFFICES ASSUME NEW n \in 1..N
                 PROVE  f[n] = Arrive(f[n - 1], units[n])
        OBVIOUS
    <2>1. f[n - 1] \in ViewSet
        BY <1>1, <1>3 DEF IsRun
    <2>2. step[n][f[n - 1]] = Arrive(f[n - 1], units[n])
        BY <2>1
    <2> QED BY <1>3, <2>2 DEF IsRun
<1>5. Eq(f)
    BY <1>1, <1>3, <1>4 DEF IsRun
<1>6. Eq(seen)
    <2> HIDE DEF Eq
    <2> QED BY <1>5
<1>7. ViewAfter(view, units) = seen[N]
    BY DEF ViewAfter
<1> HIDE DEF seen
<1>8. seen[0] = view /\ \A n \in 1..N : seen[n] = Arrive(seen[n - 1], units[n])
    BY <1>1, <1>6
<1>9. seen \in [0..N -> ViewSet]
    <2> DEFINE Good == {n \in 0..N : seen[n] \in ViewSet}
    <2>1. 0 \in Good
        BY <1>1, <1>8
    <2>2. \A n \in 1..N : n - 1 \in Good => n \in Good
        BY <1>1, <1>2, <1>8
    <2>3. \A n \in 0..N : n \in Good
        <3> HIDE DEF Good, N
        <3> QED BY <1>1, <2>1, <2>2, UpTo
    <2> QED BY <1>6, <2>3
<1> QED BY <1>7, <1>8, <1>9 DEF Views

(* ... are the only ones.                                                   *)
LEMMA ViewsEnd ==
    ASSUME NEW view \in ViewSet, NEW units \in Seq(Unit),
           NEW seen, Views(seen, view, units)
    PROVE  ViewAfter(view, units) = seen[Len(units)]
<1> DEFINE N == Len(units)
<1>1. N \in Nat
    OBVIOUS
<1>2. PICK other : Views(other, view, units) /\ ViewAfter(view, units) = other[N]
    BY ViewsExist
<1> DEFINE Good == {n \in 0..N : other[n] = seen[n]}
<1>3. 0 \in Good
    BY <1>1, <1>2 DEF Views
<1>4. \A n \in 1..N : n - 1 \in Good => n \in Good
    BY <1>1, <1>2 DEF Views
<1>5. \A n \in 0..N : n \in Good
    <2> HIDE DEF Good, N
    <2> QED BY <1>1, <1>3, <1>4, UpTo
<1>6. other[N] = seen[N]
    BY <1>1, <1>5
<1> QED BY <1>2, <1>6

LEMMA ViewAfterIn ==
    ASSUME NEW view \in ViewSet, NEW units \in Seq(Unit)
    PROVE  ViewAfter(view, units) \in ViewSet
<1>1. PICK seen : Views(seen, view, units) /\ ViewAfter(view, units) = seen[Len(units)]
    BY ViewsExist
<1>2. Len(units) \in 0..Len(units)
    OBVIOUS
<1> QED BY <1>1, <1>2 DEF Views

(* Transmitting a unit changes nothing of what the controller will believe. *)
LEMMA ViewAfterTail ==
    ASSUME NEW view \in ViewSet, NEW units \in Seq(Unit), units # <<>>
    PROVE  ViewAfter(Arrive(view, Head(units)), Tail(units)) = ViewAfter(view, units)
<1> DEFINE N == Len(units)
<1>1. N \in Nat /\ N >= 1 /\ Head(units) = units[1] /\ Head(units) \in Unit
      /\ Tail(units) \in Seq(Unit) /\ Len(Tail(units)) = N - 1
      /\ \A n \in 1..(N - 1) : Tail(units)[n] = units[n + 1]
    OBVIOUS
<1>2. PICK seen : Views(seen, view, units) /\ ViewAfter(view, units) = seen[N]
    BY ViewsExist
<1> DEFINE later == [n \in 0..(N - 1) |-> seen[n + 1]]
<1>3. later \in [0..(N - 1) -> ViewSet]
    BY <1>1, <1>2 DEF Views
<1>4. later[0] = Arrive(view, Head(units))
    BY <1>1, <1>2 DEF Views
<1>5. \A n \in 1..(N - 1) : later[n] = Arrive(later[n - 1], Tail(units)[n])
    BY <1>1, <1>2 DEF Views
<1>6. later[N - 1] = seen[N]
    BY <1>1
<1> HIDE DEF later, N
<1>7. Views(later, Arrive(view, Head(units)), Tail(units))
    BY <1>1, <1>3, <1>4, <1>5 DEF Views
<1>8. ViewAfter(Arrive(view, Head(units)), Tail(units)) = later[N - 1]
    <2>1. Arrive(view, Head(units)) \in ViewSet
        BY <1>1, ArriveIn
    <2>2. ViewAfter(Arrive(view, Head(units)), Tail(units)) = later[Len(Tail(units))]
        BY <1>1, <1>7, <2>1, ViewsEnd
    <2> QED BY <1>1, <2>2
<1> QED BY <1>2, <1>6, <1>8

(* The units of a frame after some others.                                  *)
LEMMA AppendedUnits ==
    ASSUME NEW units \in Seq(Unit), NEW frame \in ServerFrame
    PROVE  LET all == units \o Units(frame)
               L == Len(units)
               k == Size(frame.type) IN
           /\ k \in Nat \ {0} /\ L \in Nat
           /\ all \in Seq(Unit) /\ Len(all) = L + k
           /\ \A i \in 1..L : all[i] = units[i]
           /\ \A i \in (L + 1)..(L + k) :
                all[i].frame = frame /\ (all[i].last <=> i = L + k)
<1> DEFINE k == Size(frame.type)
           L == Len(units)
<1>1. /\ k \in Nat \ {0} /\ Units(frame) \in Seq(Unit) /\ Len(Units(frame)) = k
      /\ \A i \in 1..k : Units(frame)[i].frame = frame
                         /\ (Units(frame)[i].last <=> i = k)
    BY UnitsOfFrame
<1>2. L \in Nat
    OBVIOUS
<1>3. /\ units \o Units(frame) \in Seq(Unit)
      /\ Len(units \o Units(frame)) = L + k
      /\ \A i \in 1..L : (units \o Units(frame))[i] = units[i]
      /\ \A i \in (L + 1)..(L + k) :
            (units \o Units(frame))[i] = Units(frame)[i - L]
    <2> DEFINE t == Units(frame)
    <2>1. t \in Seq(Unit) /\ Len(t) = k
        BY <1>1
    <2> HIDE DEF t, k
    <2>2. /\ units \o t \in Seq(Unit)
          /\ Len(units \o t) = L + k
          /\ \A i \in 1..L : (units \o t)[i] = units[i]
          /\ \A i \in (L + 1)..(L + k) : (units \o t)[i] = t[i - L]
        BY <2>1
    <2> QED BY <2>2 DEF t
<1>4. \A i \in (L + 1)..(L + k) : i - L \in 1..k /\ (i - L = k <=> i = L + k)
    BY <1>1, <1>2
<1> HIDE DEF k, L
<1>5. ASSUME NEW i \in (L + 1)..(L + k)
      PROVE  /\ (units \o Units(frame))[i].frame = frame
             /\ (units \o Units(frame))[i].last <=> i = L + k
    <2>1. (units \o Units(frame))[i] = Units(frame)[i - L]
        BY <1>3
    <2>2. i - L \in 1..k /\ (i - L = k <=> i = L + k)
        BY <1>4
    <2> QED BY <1>1, <2>1, <2>2
<1> QED BY <1>1, <1>2, <1>3, <1>5 DEF k, L

LEMMA ViewAfterFrame ==
    ASSUME NEW view \in ViewSet, NEW units \in Seq(Unit), NEW frame \in ServerFrame
    PROVE  ViewAfter(view, units \o Units(frame)) = Receive(ViewAfter(view, units), frame)
<1> DEFINE L == Len(units)
           k == Size(frame.type)
           all == units \o Units(frame)
<1>1. /\ k \in Nat \ {0} /\ L \in Nat
      /\ all \in Seq(Unit) /\ Len(all) = L + k
      /\ \A i \in 1..L : all[i] = units[i]
      /\ \A i \in (L + 1)..(L + k) :
            all[i].frame = frame /\ (all[i].last <=> i = L + k)
    BY AppendedUnits
<1>2. PICK seen : Views(seen, view, units) /\ ViewAfter(view, units) = seen[L]
    BY ViewsExist
<1> DEFINE end == Receive(seen[L], frame)
           more == [n \in 0..(L + k) |-> IF n <= L THEN seen[n]
                                         ELSE IF n < L + k THEN seen[L] ELSE end]
<1> HIDE DEF L, k, all
<1>3. seen \in [0..L -> ViewSet] /\ seen[0] = view
      /\ \A n \in 1..L : seen[n] = Arrive(seen[n - 1], units[n])
    BY <1>2 DEF Views, L
<1>4. end \in ViewSet
    BY <1>1, <1>3, ReceiveIn
<1> HIDE DEF end
<1>5. more \in [0..(L + k) -> ViewSet] /\ more[0] = view /\ more[L + k] = end
    BY <1>1, <1>3, <1>4
<1>6. ASSUME NEW n \in 1..(L + k)
      PROVE  more[n] = Arrive(more[n - 1], all[n])
    <2>1. CASE n <= L
        <3>1. more[n] = seen[n] /\ more[n - 1] = seen[n - 1] /\ all[n] = units[n]
            BY <1>1, <2>1
        <3> QED BY <1>1, <1>3, <2>1, <3>1
    <2>2. CASE n > L /\ n < L + k
        <3>1. more[n] = seen[L] /\ more[n - 1] = seen[L] /\ ~all[n].last
            BY <1>1, <2>2
        <3> QED BY <3>1 DEF Arrive
    <2>3. CASE n = L + k
        <3>1. more[n] = end /\ more[n - 1] = seen[L] /\ all[n].last /\ all[n].frame = frame
            BY <1>1, <2>3
        <3> QED BY <3>1 DEF Arrive, end
    <2> QED BY <1>1, <2>1, <2>2, <2>3
<1>7. Views(more, view, all)
    BY <1>1, <1>5, <1>6 DEF Views
<1>8. ViewAfter(view, all) = end
    BY <1>1, <1>5, <1>7, ViewsEnd
<1> QED BY <1>2, <1>8 DEF all, end

-----------------------------------------------------------------------------
(* What a list of frames, enqueued one after the other, keeps *)

(* The mirror: a frame that fits ends the staleness of its parameter and    *)
(* carries its value, one that does not fit makes a changed one stale.      *)
LEMMA MirrorKept ==
    ASSUME SessionTypeOK, View \in ViewSet, MirrorConverges,
           NEW frames, Sends(frames), values' \in [Param -> Value], View' = View
    PROVE  MirrorConverges'
<1> DEFINE N == Len(frames)
           Told(p, n) == values'[p] = values[p]
                         \/ \E m \in 1..n : frames[m].type = "PARAM_CHANGED"
                                            /\ frames[m].param = p
           Converges(r, n) ==
             \A p \in Param \ r.stale : Told(p, n) =>
                ViewAfter(View, r.tx).mirror[p] \in {NoValue, values'[p]}
<1>1. frames \in Seq(ServerFrame) /\ Enqueue(frames) /\ N \in Nat
    BY DEF Sends
<1>2. tx \in Seq(Unit) /\ stale \subseteq Param \union {NoValue}
    BY DEF SessionTypeOK
<1>3. PICK ring \in [0..N -> Ring] :
        /\ ring[0] = [tx |-> tx, stale |-> stale]
        /\ \A n \in 1..N : ring[n] = EnqueueOne(ring[n - 1], frames[n])
        /\ tx' = ring[N].tx /\ stale' = ring[N].stale
    BY <1>1, <1>2, EnqueueRings
<1> DEFINE Good == {n \in 0..N : Converges(ring[n], n)}
<1>4. Converges(ring[0], 0)
    BY <1>1, <1>3 DEF MirrorConverges, FinalView
<1>5. ASSUME NEW n \in 1..N, Converges(ring[n - 1], n - 1)
      PROVE  Converges(ring[n], n)
    <2> DEFINE frame == frames[n]
               old == ring[n - 1]
               new == ring[n]
    <2>1. frame \in ServerFrame /\ old \in Ring /\ old.tx \in Seq(Unit)
          /\ old.stale \subseteq Param \union {NoValue}
          /\ new = EnqueueOne(old, frame) /\ n \in Nat
        BY <1>1, <1>3 DEF Ring
    <2>2. frame.param \in Param => frame.value = values'[frame.param]
        BY DEF Sends
    <2>3. \A p \in Param : Told(p, n) =>
            Told(p, n - 1) \/ (frame.type = "PARAM_CHANGED" /\ frame.param = p)
        BY <2>1
    <2>4. \A p \in Param \ old.stale : Told(p, n - 1) =>
            ViewAfter(View, old.tx).mirror[p] \in {NoValue, values'[p]}
        BY <1>5
    <2>5. \/ /\ new.tx = old.tx
             /\ new.stale = IF frame.type = "PARAM_CHANGED"
                            THEN old.stale \union {frame.param} ELSE old.stale
          \/ /\ new.tx = old.tx \o Units(frame)
             /\ new.stale = old.stale \ {frame.param}
        <3> HIDE DEF frame, old, new
        <3> QED BY <2>1, EnqueueOneCases
    <2>6. ViewAfter(View, old.tx) \in ViewSet
          /\ ViewAfter(View, old.tx \o Units(frame))
                = Receive(ViewAfter(View, old.tx), frame)
        BY <2>1, ViewAfterIn, ViewAfterFrame
    <2> HIDE DEF frame, old, new, Told
    <2> SUFFICES ASSUME NEW p \in Param \ new.stale, Told(p, n)
                 PROVE  ViewAfter(View, new.tx).mirror[p] \in {NoValue, values'[p]}
        BY DEF new
    <2>7. CASE /\ new.tx = old.tx
               /\ new.stale = IF frame.type = "PARAM_CHANGED"
                              THEN old.stale \union {frame.param} ELSE old.stale
        <3>1. p \notin old.stale /\ ~(frame.type = "PARAM_CHANGED" /\ frame.param = p)
            BY <2>7
        <3>2. Told(p, n - 1)
            BY <2>3, <3>1
        <3> QED BY <2>4, <2>7, <3>1, <3>2
    <2>8. CASE /\ new.tx = old.tx \o Units(frame)
               /\ new.stale = old.stale \ {frame.param}
        <3> DEFINE before == ViewAfter(View, old.tx)
        <3>1. ViewAfter(View, new.tx) = Receive(before, frame) /\ before \in ViewSet
            BY <2>6, <2>8
        <3> HIDE DEF before
        <3>2. Receive(before, frame).mirror =
                IF frame.param \in Param
                THEN [before.mirror EXCEPT ![frame.param] = frame.value]
                ELSE before.mirror
            BY <3>1 DEF Receive, ViewSet
        <3>3. before.mirror \in [Param -> FrameValue]
            BY <3>1 DEF ViewSet
        <3>4. CASE frame.param = p
            BY <2>2, <3>1, <3>2, <3>3, <3>4
        <3>5. CASE frame.param # p
            <4>1. p \notin old.stale /\ Told(p, n - 1)
                BY <2>3, <2>8, <3>5
            <4>2. before.mirror[p] \in {NoValue, values'[p]}
                BY <2>4, <4>1 DEF before
            <4> QED BY <3>1, <3>2, <3>3, <3>5, <4>2
        <3> QED BY <3>4, <3>5
    <2> QED BY <2>5, <2>7, <2>8
<1> HIDE DEF Converges
<1>6. 0 \in Good /\ \A n \in 1..N : n - 1 \in Good => n \in Good
    BY <1>1, <1>4, <1>5
<1>7. \A n \in 0..N : n \in Good
    <2> HIDE DEF Good, N
    <2> QED BY <1>1, <1>6, UpTo
<1>8. Converges(ring[N], N)
    BY <1>1, <1>7
<1>9. \A p \in Param : Told(p, N)
    BY DEF Sends
<1> HIDE DEF Told
<1>10. \A p \in Param \ stale' : ViewAfter(View, tx').mirror[p] \in {NoValue, values'[p]}
    BY <1>3, <1>8, <1>9 DEF Converges
<1> QED BY <1>10 DEF MirrorConverges, FinalView

(* The revisions: a list of units reports none older than the first, newer  *)
(* than the last, or out of order.                                          *)
Stamped(unit) == unit.last /\ unit.frame.revision # NoValue
InOrder(units, oldest, newest) ==
    /\ \A i, j \in 1..Len(units) :
        i < j /\ Stamped(units[i]) /\ Stamped(units[j]) =>
            units[i].frame.revision <= units[j].frame.revision
    /\ \A i \in 1..Len(units) : Stamped(units[i]) => units[i].frame.revision <= newest
    /\ oldest # NoValue =>
        /\ oldest <= newest
        /\ \A i \in 1..Len(units) :
            Stamped(units[i]) => oldest <= units[i].frame.revision

LEMMA StampIsNat ==
    ASSUME NEW units \in Seq(Unit), NEW i \in 1..Len(units), Stamped(units[i])
    PROVE  units[i].frame.revision \in Nat
<1>1. units[i] \in Unit
    OBVIOUS
<1>2. units[i].frame \in ServerFrame
    BY <1>1 DEF Unit
<1>3. units[i].frame.revision \in Nat \union {NoValue}
    BY <1>2 DEF ServerFrame
<1> QED BY <1>3 DEF Stamped

LEMMA RevisionsAreInOrder ==
    RevisionsInOrder <=> InOrder(tx, mirrorRevision, revision)
BY DEF RevisionsInOrder, InOrder, Stamped

LEMMA FrameInOrder ==
    ASSUME NEW units \in Seq(Unit), NEW oldest \in Nat \union {NoValue},
           NEW newest \in Nat, NEW frame \in ServerFrame,
           frame.revision \in {NoValue, newest}, InOrder(units, oldest, newest)
    PROVE  InOrder(units \o Units(frame), oldest, newest)
<1> DEFINE L == Len(units)
           k == Size(frame.type)
           all == units \o Units(frame)
<1>1. /\ k \in Nat \ {0} /\ L \in Nat
      /\ all \in Seq(Unit) /\ Len(all) = L + k
      /\ \A i \in 1..L : all[i] = units[i]
      /\ \A i \in (L + 1)..(L + k) :
            all[i].frame = frame /\ (all[i].last <=> i = L + k)
    BY AppendedUnits
<1> HIDE DEF k, all
<1>2. ASSUME NEW i \in 1..(L + k), Stamped(all[i])
      PROVE  \/ i \in 1..L /\ all[i] = units[i] /\ Stamped(units[i])
             \/ i = L + k /\ all[i].frame.revision = newest
    BY <1>1, <1>2 DEF Stamped
<1>3. ASSUME NEW i \in 1..L, Stamped(units[i])
      PROVE  units[i].frame.revision \in Nat /\ units[i].frame.revision <= newest
    BY <1>3, StampIsNat DEF InOrder
<1>4. \A i \in 1..(L + k) : Stamped(all[i]) => all[i].frame.revision <= newest
    BY <1>2, <1>3
<1>5. ASSUME NEW i \in 1..(L + k), NEW j \in 1..(L + k), i < j,
             Stamped(all[i]), Stamped(all[j])
      PROVE  all[i].frame.revision <= all[j].frame.revision
    <2>1. i \in 1..L /\ all[i] = units[i] /\ Stamped(units[i])
        BY <1>1, <1>2, <1>5
    <2>2. CASE j \in 1..L /\ all[j] = units[j] /\ Stamped(units[j])
        BY <1>5, <2>1, <2>2 DEF InOrder
    <2>3. CASE j = L + k /\ all[j].frame.revision = newest
        BY <1>3, <2>1, <2>3
    <2> QED BY <1>2, <1>5, <2>2, <2>3
<1>6. oldest # NoValue =>
        /\ oldest <= newest
        /\ \A i \in 1..(L + k) : Stamped(all[i]) => oldest <= all[i].frame.revision
    BY <1>2 DEF InOrder
<1> QED BY <1>1, <1>4, <1>5, <1>6 DEF InOrder, all

(* A unit that arrives takes its stamp to the mirror.                       *)
LEMMA TailInOrder ==
    ASSUME NEW units \in Seq(Unit), units # <<>>, NEW oldest \in Nat \union {NoValue},
           NEW newest \in Nat, InOrder(units, oldest, newest)
    PROVE  InOrder(Tail(units),
                   IF Stamped(Head(units)) THEN Head(units).frame.revision ELSE oldest,
                   newest)
<1> DEFINE N == Len(units)
           rest == Tail(units)
           next == IF Stamped(Head(units)) THEN Head(units).frame.revision ELSE oldest
<1>1. N \in Nat \ {0} /\ Head(units) = units[1] /\ Len(rest) = N - 1
      /\ \A i \in 1..(N - 1) : rest[i] = units[i + 1] /\ i + 1 \in 1..N
    OBVIOUS
<1> HIDE DEF rest
<1>2. \A i, j \in 1..(N - 1) :
        i < j /\ Stamped(rest[i]) /\ Stamped(rest[j]) =>
            rest[i].frame.revision <= rest[j].frame.revision
    <2> SUFFICES ASSUME NEW i \in 1..(N - 1), NEW j \in 1..(N - 1),
                        i < j, Stamped(rest[i]), Stamped(rest[j])
                 PROVE  rest[i].frame.revision <= rest[j].frame.revision
        OBVIOUS
    <2>1. i + 1 < j + 1 /\ rest[i] = units[i + 1] /\ rest[j] = units[j + 1]
          /\ i + 1 \in 1..N /\ j + 1 \in 1..N
        BY <1>1
    <2> QED BY <2>1 DEF InOrder
<1>3. \A i \in 1..(N - 1) : Stamped(rest[i]) => rest[i].frame.revision <= newest
    BY <1>1 DEF InOrder
<1>4. next # NoValue =>
        /\ next <= newest
        /\ \A i \in 1..(N - 1) : Stamped(rest[i]) => next <= rest[i].frame.revision
    <2>1. CASE Stamped(units[1])
        <3>1. 1 \in 1..N /\ \A i \in 1..(N - 1) : 1 < i + 1
            BY <1>1
        <3>2. units[1].frame.revision <= newest
            BY <2>1, <3>1 DEF InOrder
        <3>3. \A i \in 1..(N - 1) :
                Stamped(rest[i]) => units[1].frame.revision <= rest[i].frame.revision
            BY <1>1, <2>1, <3>1 DEF InOrder
        <3> QED BY <1>1, <2>1, <3>2, <3>3
    <2>2. CASE ~Stamped(units[1])
        BY <1>1, <2>2 DEF InOrder
    <2> QED BY <2>1, <2>2
<1> QED BY <1>1, <1>2, <1>3, <1>4 DEF InOrder, rest

LEMMA RevisionsKept ==
    ASSUME SessionTypeOK, mirrorRevision \in Nat \union {NoValue}, RevisionsInOrder,
           NEW frames, Sends(frames), revision' \in Nat, revision' >= revision,
           mirrorRevision' = mirrorRevision
    PROVE  RevisionsInOrder'
<1> DEFINE N == Len(frames)
<1>1. frames \in Seq(ServerFrame) /\ Enqueue(frames) /\ N \in Nat
    BY DEF Sends
<1>2. tx \in Seq(Unit) /\ stale \subseteq Param \union {NoValue} /\ revision \in Nat
    BY DEF SessionTypeOK
<1>3. PICK ring \in [0..N -> Ring] :
        /\ ring[0] = [tx |-> tx, stale |-> stale]
        /\ \A n \in 1..N : ring[n] = EnqueueOne(ring[n - 1], frames[n])
        /\ tx' = ring[N].tx /\ stale' = ring[N].stale
    BY <1>1, <1>2, EnqueueRings
<1> DEFINE Good == {n \in 0..N : InOrder(ring[n].tx, mirrorRevision, revision')}
<1>4. InOrder(ring[0].tx, mirrorRevision, revision')
    <2>1. InOrder(tx, mirrorRevision, revision)
        BY RevisionsAreInOrder
    <2>2. \A i \in 1..Len(tx) : Stamped(tx[i]) => tx[i].frame.revision \in Nat
        BY <1>2, StampIsNat
    <2>3. InOrder(tx, mirrorRevision, revision')
        BY <1>2, <2>1, <2>2 DEF InOrder
    <2> QED BY <1>3, <2>3
<1>5. ASSUME NEW n \in 1..N, InOrder(ring[n - 1].tx, mirrorRevision, revision')
      PROVE  InOrder(ring[n].tx, mirrorRevision, revision')
    <2>1. frames[n] \in ServerFrame /\ ring[n - 1] \in Ring /\ ring[n - 1].tx \in Seq(Unit)
          /\ frames[n].revision \in {NoValue, revision'}
        <3>1. ring[n - 1] \in Ring
            BY <1>1, <1>3
        <3>2. frames[n] \in ServerFrame
            BY <1>1
        <3> QED BY <3>1, <3>2 DEF Ring, Sends
    <2>2. \/ ring[n].tx = ring[n - 1].tx
          \/ ring[n].tx = ring[n - 1].tx \o Units(frames[n])
        BY ZenonT(30), <1>3, <2>1, EnqueueOneCases
    <2> QED BY <1>5, <2>1, <2>2, FrameInOrder
<1>6. 0 \in Good /\ \A n \in 1..N : n - 1 \in Good => n \in Good
    BY <1>1, <1>4, <1>5
<1>7. \A n \in 0..N : n \in Good
    <2> HIDE DEF Good, N
    <2> QED BY <1>1, <1>6, UpTo
<1>8. InOrder(tx', mirrorRevision', revision')
    BY <1>1, <1>3, <1>7
<1> QED BY <1>8 DEF RevisionsInOrder, InOrder, Stamped

(* The answers of a batch: their requests have passed the guard, and no two *)
(* of them have the same sequence number.                                   *)
Guarded(units, from, seen) ==
    /\ from <= Len(units)
    /\ \A i \in (from + 1)..Len(units) :
        Answers(units[i]) => units[i].frame.request.seq \in seen
    /\ \A i, j \in (from + 1)..Len(units) :
        Answers(units[i]) /\ Answers(units[j]) /\ i # j =>
            units[i].frame.request.seq # units[j].frame.request.seq

AnswersGuarded == phase \in {"parse", "handle"} => Guarded(tx, carried, inflight)

(* A frame that is no answer, and an answer to a new sequence number.       *)
LEMMA FrameGuarded ==
    ASSUME NEW units \in Seq(Unit), NEW from \in Nat, NEW seen, NEW frame \in ServerFrame,
           Guarded(units, from, seen)
    PROVE  /\ ~(Terminal(frame) /\ frame.value # "BUSY") =>
                Guarded(units \o Units(frame), from, seen)
           /\ frame.request.seq \notin seen =>
                Guarded(units \o Units(frame), from, seen \union {frame.request.seq})
<1> DEFINE L == Len(units)
           k == Size(frame.type)
           all == units \o Units(frame)
<1>1. /\ k \in Nat \ {0} /\ L \in Nat
      /\ all \in Seq(Unit) /\ Len(all) = L + k
      /\ \A i \in 1..L : all[i] = units[i]
      /\ \A i \in (L + 1)..(L + k) :
            all[i].frame = frame /\ (all[i].last <=> i = L + k)
    BY AppendedUnits
<1> HIDE DEF k, all
<1>2. ASSUME NEW i \in (from + 1)..(L + k), Answers(all[i])
      PROVE  \/ i \in (from + 1)..L /\ all[i] = units[i] /\ Answers(units[i])
                /\ units[i].frame.request.seq \in seen
             \/ /\ i = L + k /\ all[i].frame = frame
                /\ Terminal(frame) /\ frame.value # "BUSY"
    <2>1. CASE i <= L
        <3>1. i \in 1..L /\ i \in (from + 1)..L /\ all[i] = units[i]
            BY <1>1, <2>1
        <3> QED BY <1>2, <3>1 DEF Guarded
    <2>2. CASE i > L
        <3>1. i \in (L + 1)..(L + k)
            BY <1>1, <2>2
        <3> QED BY <1>1, <1>2, <3>1 DEF Answers
    <2> QED BY <1>1, <2>1, <2>2
<1>3. from <= L + k
    BY <1>1 DEF Guarded
<1>4. ASSUME ~(Terminal(frame) /\ frame.value # "BUSY")
      PROVE  Guarded(all, from, seen)
    <2>1. ASSUME NEW i \in (from + 1)..(L + k), Answers(all[i])
          PROVE  /\ i \in (from + 1)..L /\ all[i] = units[i] /\ Answers(units[i])
                 /\ units[i].frame.request.seq \in seen
        BY <1>2, <1>4, <2>1
    <2>2. ASSUME NEW i \in (from + 1)..(L + k), NEW j \in (from + 1)..(L + k),
                 Answers(all[i]), Answers(all[j]), i # j
          PROVE  all[i].frame.request.seq # all[j].frame.request.seq
        BY <2>1, <2>2 DEF Guarded
    <2>3. \A i \in (from + 1)..(L + k) :
            Answers(all[i]) => all[i].frame.request.seq \in seen
        BY <2>1
    <2> QED BY <1>1, <1>3, <2>2, <2>3 DEF Guarded
<1>5. ASSUME frame.request.seq \notin seen
      PROVE  Guarded(all, from, seen \union {frame.request.seq})
    <2>1. \A i \in (from + 1)..(L + k) :
            Answers(all[i]) => all[i].frame.request.seq \in seen \union {frame.request.seq}
        BY <1>2
    <2>2. ASSUME NEW i \in (from + 1)..(L + k), NEW j \in (from + 1)..(L + k),
                 Answers(all[i]), Answers(all[j]), i # j
          PROVE  all[i].frame.request.seq # all[j].frame.request.seq
        <3>1. \/ i \in (from + 1)..L /\ all[i] = units[i] /\ Answers(units[i])
                 /\ units[i].frame.request.seq \in seen
              \/ i = L + k /\ all[i].frame = frame
            BY <1>2, <2>2
        <3>2. \/ j \in (from + 1)..L /\ all[j] = units[j] /\ Answers(units[j])
                 /\ units[j].frame.request.seq \in seen
              \/ j = L + k /\ all[j].frame = frame
            BY <1>2, <2>2
        <3> QED BY <1>5, <2>2, <3>1, <3>2 DEF Guarded
    <2> QED BY <1>1, <1>3, <2>1, <2>2 DEF Guarded
<1> QED BY <1>4, <1>5 DEF all

LEMMA AnswersKept ==
    ASSUME SessionTypeOK, carried \in Nat, Guarded(tx, carried, inflight),
           NEW request \in ClientFrame,
           NEW frames, Sends(frames), AnswersOnce(request, frames)
    PROVE  Guarded(tx', carried, inflight')
<1> DEFINE N == Len(frames)
           Answer(n) == Terminal(frames[n]) /\ frames[n].value # "BUSY"
           Seen(n) == IF \E m \in 1..n : Answer(m)
                      THEN inflight \union {request.seq} ELSE inflight
<1>1. frames \in Seq(ServerFrame) /\ Enqueue(frames) /\ N \in Nat
    BY DEF Sends
<1>2. tx \in Seq(Unit) /\ stale \subseteq Param \union {NoValue}
    BY DEF SessionTypeOK
<1>3. PICK ring \in [0..N -> Ring] :
        /\ ring[0] = [tx |-> tx, stale |-> stale]
        /\ \A n \in 1..N : ring[n] = EnqueueOne(ring[n - 1], frames[n])
        /\ tx' = ring[N].tx /\ stale' = ring[N].stale
    BY <1>1, <1>2, EnqueueRings
<1>4. /\ \A n \in 1..N : frames[n].request = request
      /\ \A n \in 1..N : Answer(n) =>
            /\ request.seq \notin inflight /\ inflight' = inflight \union {request.seq}
            /\ \A m \in 1..N : Answer(m) => m = n
    BY DEF AnswersOnce, AnswerType, Terminal
<1> DEFINE Good == {n \in 0..N : Guarded(ring[n].tx, carried, Seen(n))}
<1> HIDE DEF Answer
<1>5. Guarded(ring[0].tx, carried, Seen(0))
    BY <1>3
<1>6. ASSUME NEW n \in 1..N, Guarded(ring[n - 1].tx, carried, Seen(n - 1))
      PROVE  Guarded(ring[n].tx, carried, Seen(n))
    <2> DEFINE before == Seen(n - 1)
               after == Seen(n)
    <2>1. frames[n] \in ServerFrame /\ ring[n - 1] \in Ring /\ ring[n - 1].tx \in Seq(Unit)
        <3>1. ring[n - 1] \in Ring
            BY <1>1, <1>3
        <3>2. frames[n] \in ServerFrame
            BY <1>1
        <3> QED BY <3>1, <3>2 DEF Ring
    <2>2. \/ ring[n].tx = ring[n - 1].tx
          \/ ring[n].tx = ring[n - 1].tx \o Units(frames[n])
        BY ZenonT(30), <1>3, <2>1, EnqueueOneCases
    <2>3. frames[n].request.seq = request.seq
        BY <1>4
    <2>4. ~Answer(n) => after = before
        BY <1>1
    <2>5. Answer(n) => before = inflight /\ after = inflight \union {request.seq}
                       /\ request.seq \notin inflight
        BY <1>1, <1>4
    <2> HIDE DEF before, after
    <2>6. Guarded(ring[n - 1].tx, carried, before)
        BY <1>6 DEF before
    <2>7. CASE ~Answer(n)
        <3>1. ~(Terminal(frames[n]) /\ frames[n].value # "BUSY")
            BY <2>7 DEF Answer
        <3>2. Guarded(ring[n].tx, carried, before)
            BY <2>1, <2>2, <2>6, <3>1, FrameGuarded
        <3> QED BY <2>4, <2>7, <3>2 DEF after
    <2>8. CASE Answer(n)
        <3>1. Guarded(ring[n - 1].tx, carried, after)
            BY <2>5, <2>6, <2>8 DEF Guarded
        <3>2. Guarded(ring[n - 1].tx \o Units(frames[n]), carried, after)
            <4>1. frames[n].request.seq \notin before
                  /\ after = before \union {frames[n].request.seq}
                BY <2>3, <2>5, <2>8
            <4> QED BY <2>1, <2>6, <4>1, FrameGuarded
        <3>3. Guarded(ring[n].tx, carried, after)
            BY <2>2, <3>1, <3>2
        <3> QED BY <3>3 DEF after
    <2> QED BY <2>7, <2>8
<1> HIDE DEF Seen
<1>7. 0 \in Good /\ \A n \in 1..N : n - 1 \in Good => n \in Good
    BY <1>1, <1>5, <1>6
<1>8. \A n \in 0..N : n \in Good
    <2> HIDE DEF Good, N
    <2> QED BY <1>1, <1>7, UpTo
<1>9. Guarded(tx', carried, Seen(N))
    BY <1>1, <1>3, <1>8
<1>10. Seen(N) \subseteq inflight'
    <2>1. inflight \subseteq inflight'
        BY DEF AnswersOnce
    <2> QED BY <1>4, <2>1 DEF Seen
<1> QED BY <1>9, <1>10 DEF Guarded

-----------------------------------------------------------------------------
(* The inductive invariant.  MirrorConverges and RevisionsInOrder carry     *)
(* themselves; OneAnswerPerSeq needs that the sequence number of every      *)
(* answer of the batch is still in the guard.                               *)
TypeOK ==
    /\ SessionTypeOK
    /\ phase \in {"read", "parse", "handle", "drain", "tick"}
    /\ chunk \in Nat /\ carried \in Nat /\ drained \in Nat /\ sent \in Nat
    /\ mirror \in [Param -> FrameValue] /\ mirrorRevision \in Nat \union {NoValue}

IInv ==
    /\ TypeOK
    /\ MirrorConverges
    /\ RevisionsInOrder
    /\ StateFollowsEngine
    /\ AnswersGuarded

LEMMA ViewIn == TypeOK => View \in ViewSet
BY DEF TypeOK, View, ViewSet

LEMMA InitIInv == Init => IInv
<1> SUFFICES ASSUME Init PROVE IInv
    OBVIOUS
<1>1. TypeOK
    <2>1. SessionTypeOK
        <3>1. Default \in [Param -> Value]
            BY SessionAssumption
        <3>2. <<>> \in Seq(ClientFrame) /\ <<>> \in Seq(Unit)
            OBVIOUS
        <3> QED BY <3>1, <3>2 DEF Init, InitSession, SessionTypeOK
    <2>2. mirror \in [Param -> FrameValue]
        BY DEF Init, FrameValue
    <2> QED BY <2>1, <2>2 DEF Init, TypeOK
<1>2. MirrorConverges
    <2>1. PICK seen : Views(seen, View, <<>>) /\ ViewAfter(View, <<>>) = seen[Len(<<>>)]
        <3>1. <<>> \in Seq(Unit)
            OBVIOUS
        <3> QED BY <1>1, <3>1, ViewIn, ViewsExist
    <2>2. FinalView = View
        BY <2>1 DEF FinalView, Views, Init, InitSession
    <2> QED BY <2>2 DEF MirrorConverges, View, Init
<1>3. RevisionsInOrder
    BY DEF RevisionsInOrder, Init, InitSession
<1>4. StateFollowsEngine /\ AnswersGuarded
    BY DEF StateFollowsEngine, AnswersGuarded, Init, InitSession
<1> QED BY <1>1, <1>2, <1>3, <1>4 DEF IInv

(* A step that leaves the ring and the state alone keeps all of it.         *)
LEMMA QuietStep ==
    ASSUME IInv, TypeOK', UNCHANGED <<tx, stale, stateVars, mirror, mirrorRevision>>
    PROVE  MirrorConverges' /\ RevisionsInOrder' /\ StateFollowsEngine'
<1>1. MirrorConverges'
    BY DEF IInv, MirrorConverges, FinalView, View, stateVars
<1>2. RevisionsInOrder'
    BY DEF IInv, RevisionsInOrder, stateVars
<1>3. StateFollowsEngine'
    BY DEF IInv, StateFollowsEngine, stateVars
<1> QED BY <1>1, <1>2, <1>3

LEMMA HandleKeeps == ASSUME IInv, Handle PROVE IInv'
<1>1. TypeOK /\ SessionTypeOK /\ View \in ViewSet
    BY ViewIn DEF IInv, TypeOK
<1>2. SessionTypeOK' /\ revision' >= revision
    BY <1>1, HandleFrameTypes DEF Handle
<1>3. TypeOK' /\ View' = View
    BY <1>1, <1>2 DEF Handle, TypeOK, loopVars, View
<1>4. StateFollowsEngine'
    <2>1. UNCHANGED stateVars \/ AcceptSetParam(Head(parsed))
        BY DEF Handle, HandleFrame, RejectDuplicate, HandleHello,
            HandleHeartbeat, HandleCapsRequest, HandleGetState, HandleGetParam,
            RejectSetParam, SetParamQueueFull, HandleUnsupported,
            HandleIgnored, HandleUnknown
    <2>2. values = submitted
        BY DEF IInv, StateFollowsEngine
    <2> QED BY <2>1, <2>2 DEF AcceptSetParam, StateFollowsEngine, stateVars
<1>5. Head(parsed) \in ClientFrame
    BY <1>1 DEF Handle, HandleFrame, SessionTypeOK
<1>6. Guarded(tx, carried, inflight) /\ carried \in Nat
    BY DEF IInv, TypeOK, AnswersGuarded, Handle
<1>7. CASE UNCHANGED <<tx, stale, values, revision, inflight>>
    <2>1. MirrorConverges'
        BY <1>3, <1>7 DEF IInv, MirrorConverges, FinalView
    <2>2. RevisionsInOrder'
        BY <1>7 DEF IInv, RevisionsInOrder, Handle, loopVars
    <2>3. AnswersGuarded'
        BY <1>6, <1>7 DEF AnswersGuarded, Handle, loopVars
    <2> QED BY <1>3, <1>4, <2>1, <2>2, <2>3 DEF IInv
<1>8. ASSUME NEW frames, Sends(frames), AnswersOnce(Head(parsed), frames)
      PROVE  IInv'
    <2>1. MirrorConverges'
        BY <1>1, <1>2, <1>3, <1>8, MirrorKept DEF IInv, SessionTypeOK
    <2>2. RevisionsInOrder'
        <3>1. mirrorRevision \in Nat \union {NoValue} /\ mirrorRevision' = mirrorRevision
              /\ revision' \in Nat
            BY <1>1, <1>2 DEF TypeOK, Handle, loopVars, SessionTypeOK
        <3> QED BY <1>1, <1>2, <1>8, <3>1, RevisionsKept DEF IInv
    <2>3. AnswersGuarded'
        <3>1. Guarded(tx', carried, inflight')
            BY <1>1, <1>5, <1>6, <1>8, AnswersKept
        <3> QED BY <3>1 DEF AnswersGuarded, Handle, loopVars
    <2> QED BY <1>3, <1>4, <2>1, <2>2, <2>3 DEF IInv
<1> QED BY <1>1, <1>7, <1>8, HandleFrameSends DEF Handle

LEMMA DrainKeeps == ASSUME IInv, Drain PROVE IInv'
<1> DEFINE unit == Head(tx)
           view == Arrive(View, unit)
<1>1. TypeOK /\ SessionTypeOK /\ View \in ViewSet
    BY ViewIn DEF IInv, TypeOK
<1>2. /\ tx \in Seq(Unit) /\ tx # <<>> /\ tx' = Tail(tx)
      /\ UNCHANGED <<stateVars, stale, inflight, parsed, carried, phase>>
      /\ unit \in Unit
    BY <1>1 DEF Drain, TakeTx, SessionTypeOK
<1>3. view \in ViewSet
    BY <1>1, <1>2, ArriveIn
<1>4. View' = view /\ mirror' = view.mirror /\ mirrorRevision' = view.revision
    <2>1. mirror' = view.mirror /\ mirrorRevision' = view.revision
        BY DEF Drain
    <2> HIDE DEF view
    <2> QED BY <1>3, <2>1 DEF View, ViewSet
<1>5. TypeOK'
    <2>1. SessionTypeOK'
        BY <1>1, ShortStepTypes DEF Drain
    <2>2. mirror' \in [Param -> FrameValue] /\ mirrorRevision' \in Nat \union {NoValue}
        <3> HIDE DEF view
        <3> QED BY <1>3, <1>4 DEF ViewSet
    <2> QED BY <1>1, <2>1, <2>2 DEF TypeOK, Drain
<1>6. MirrorConverges'
    <2>1. FinalView' = FinalView
        BY <1>1, <1>2, <1>4, ViewAfterTail DEF FinalView
    <2> QED BY <1>2, <2>1 DEF IInv, MirrorConverges, stateVars
<1>7. RevisionsInOrder'
    <2>1. mirrorRevision' = IF Stamped(unit) THEN unit.frame.revision ELSE mirrorRevision
        BY <1>4 DEF Arrive, Receive, View, Stamped
    <2>2. InOrder(tx, mirrorRevision, revision) /\ mirrorRevision \in Nat \union {NoValue}
          /\ revision \in Nat
        BY <1>1, RevisionsAreInOrder DEF IInv, TypeOK, SessionTypeOK
    <2>3. InOrder(tx', mirrorRevision', revision')
        BY <1>2, <2>1, <2>2, TailInOrder DEF stateVars
    <2> QED BY <2>3 DEF RevisionsInOrder, InOrder, Stamped
<1>8. StateFollowsEngine' /\ AnswersGuarded'
    BY <1>2 DEF IInv, StateFollowsEngine, AnswersGuarded, stateVars, Drain
<1> QED BY <1>5, <1>6, <1>7, <1>8 DEF IInv

LEMMA RoundEndKeeps == ASSUME IInv, RoundEnd PROVE IInv'
<1>1. PICK ms \in TickStep : Tick(ms)
    BY DEF RoundEnd
<1>2. ms \in Nat
    BY UartAssumption
<1>3. TypeOK /\ SessionTypeOK /\ View \in ViewSet
    BY ViewIn DEF IInv, TypeOK
<1>4. SessionTypeOK'
    BY <1>1, <1>2, <1>3, TickTypes
<1>5. /\ TypeOK' /\ View' = View /\ UNCHANGED <<stateVars, mirrorRevision>>
      /\ phase' = "read"
    BY <1>1, <1>3, <1>4 DEF RoundEnd, Tick, TypeOK, View
<1>6. PICK frames : Sends(frames)
    BY <1>1, <1>2, <1>3, TickSends
<1>7. MirrorConverges'
    BY <1>3, <1>4, <1>5, <1>6, MirrorKept DEF IInv, SessionTypeOK
<1>8. RevisionsInOrder'
    <2>1. revision' \in Nat /\ revision' >= revision /\ mirrorRevision' = mirrorRevision
          /\ mirrorRevision \in Nat \union {NoValue}
        BY <1>3, <1>5 DEF SessionTypeOK, TypeOK, stateVars
    <2> QED BY <1>3, <1>6, <2>1, RevisionsKept DEF IInv
<1>9. StateFollowsEngine' /\ AnswersGuarded'
    BY <1>5 DEF IInv, StateFollowsEngine, AnswersGuarded, stateVars
<1> QED BY <1>5, <1>7, <1>8, <1>9 DEF IInv

LEMMA NextIInv == IInv /\ [Next]_vars => IInv'
<1> SUFFICES ASSUME IInv, [Next]_vars PROVE IInv'
    OBVIOUS
<1> USE DEF IInv
<1>1. CASE ReadChunk
    <2>1. SessionTypeOK'
        BY <1>1, ShortStepTypes DEF ReadChunk, TypeOK
    <2>2. TypeOK'
        BY <1>1, <2>1 DEF ReadChunk, FeedBegin, TypeOK, SessionTypeOK
    <2>3. UNCHANGED <<tx, stale, stateVars, mirror, mirrorRevision>>
        BY <1>1 DEF ReadChunk, FeedBegin
    <2>4. AnswersGuarded'
        BY <1>1 DEF ReadChunk, FeedBegin, AnswersGuarded, Guarded, TypeOK, SessionTypeOK
    <2> QED BY <2>2, <2>3, <2>4, QuietStep
<1>2. CASE ParseFrame
    <2>1. SessionTypeOK'
        BY <1>2, ShortStepTypes, UartAssumption DEF ParseFrame, TypeOK
    <2>2. TypeOK'
        BY <1>2, <2>1 DEF ParseFrame, TypeOK
    <2>3. UNCHANGED <<tx, stale, stateVars, mirror, mirrorRevision, inflight, carried, phase>>
        BY <1>2 DEF ParseFrame, EnqueueParsed
    <2>4. AnswersGuarded'
        BY <2>3 DEF AnswersGuarded
    <2> QED BY <2>2, <2>3, <2>4, QuietStep
<1>3. CASE ReadNothing \/ ParseEnd \/ HandleEnd \/ DrainEnd
    <2>1. UNCHANGED <<sessionVars, mirror, mirrorRevision, carried, chunk, sent>>
          /\ drained' \in Nat /\ phase' \in {"drain", "handle", "tick"}
        BY <1>3 DEF ReadNothing, ParseEnd, HandleEnd, DrainEnd, TypeOK
    <2>2. TypeOK'
        BY <2>1 DEF TypeOK, SessionTypeOK, sessionVars
    <2>3. UNCHANGED <<tx, stale, stateVars, mirror, mirrorRevision>>
        BY <2>1 DEF sessionVars, stateVars
    <2>4. AnswersGuarded'
        BY <1>3, <2>1 DEF AnswersGuarded, sessionVars, ReadNothing, ParseEnd,
            HandleEnd, DrainEnd
    <2> QED BY <2>2, <2>3, <2>4, QuietStep
<1>4. CASE Handle
    BY <1>4, HandleKeeps
<1>5. CASE Drain
    BY <1>5, DrainKeeps
<1>6. CASE RoundEnd
    BY <1>6, RoundEndKeeps
<1>7. CASE UNCHANGED vars
    <2>1. TypeOK' /\ AnswersGuarded'
        BY <1>7 DEF vars, sessionVars, loopVars, TypeOK, SessionTypeOK, AnswersGuarded
    <2>2. UNCHANGED <<tx, stale, stateVars, mirror, mirrorRevision>>
        BY <1>7 DEF vars, sessionVars, loopVars, stateVars
    <2> QED BY <2>1, <2>2, QuietStep
<1> QED BY <1>1, <1>2, <1>3, <1>4, <1>5, <1>6, <1>7 DEF Next, Loop

(* The inductive invariant holds in every reachable state of the control    *)
(* task, whatever the controller sends.                                    *)
THEOREM Inductive == Spec => []IInv
<1>1. Init => IInv
    BY InitIInv
<1>2. IInv /\ [Next]_vars => IInv'
    BY NextIInv
<1> QED BY <1>1, <1>2, PTL DEF Spec

(* The variables of the session, of the loop and of the mirror have their   *)
(* types.                                                                   *)
THEOREM TypeCorrect == Spec => []TypeOK
<1>1. IInv => TypeOK
    BY DEF IInv
<1> QED BY <1>1, Inductive, PTL

(* Whatever the ring has room for, once everything in it has been           *)
(* transmitted the controller's mirror agrees with the P4's state, but for  *)
(* the parameters that are known to be stale.                               *)
THEOREM MirrorsConverge == Spec => []MirrorConverges
<1>1. IInv => MirrorConverges
    BY DEF IInv
<1> QED BY <1>1, Inductive, PTL

(* No frame carries a revision older than one before it, nor one that the   *)
(* state has not reached.                                                   *)
THEOREM RevisionsOrdered == Spec => []RevisionsInOrder
<1>1. IInv => RevisionsInOrder
    BY DEF IInv
<1> QED BY <1>1, Inductive, PTL

(* ProductState holds what the engine's queue accepted.                     *)
THEOREM StateIsEngines == Spec => []StateFollowsEngine
<1>1. IInv => StateFollowsEngine
    BY DEF IInv
<1> QED BY <1>1, Inductive, PTL

(* A batch gets at most one answer per sequence number, whatever the        *)
(* controller reuses.                                                       *)
THEOREM AnswersUnique == Spec => []OneAnswerPerSeq
<1>1. IInv => OneAnswerPerSeq
    <2> SUFFICES ASSUME IInv, phase = "handle" PROVE OneAnswerPerSeq
        BY DEF OneAnswerPerSeq
    <2>1. Guarded(tx, carried, inflight)
        BY DEF IInv, AnswersGuarded
    <2> QED BY <2>1 DEF Guarded, OneAnswerPerSeq
<1> QED BY <1>1, Inductive, PTL
=============================================================================
