------------------------ MODULE ParameterQueue_proof ------------------------
(***************************************************************************)
(* The parameter queue, for every capacity and every set of changes: its   *)
(* type invariant, and that no entry is torn, overwritten while it is read *)
(* or read before it is written.                                           *)
(***************************************************************************)
EXTENDS ParameterQueue, TLAPS

(* What the two tasks keep true between their steps.  Window: the head     *)
(* that a reset loaded lies between tail and head.  Room: a push that      *)
(* found room still has it, whatever the consumer did since.               *)
Window ==
    consumer = "reset_store" =>
        Distance(tail, resetTo) <= Distance(tail, head)

Room ==
    producer # "idle" => Increment(head) # tail /\ pushing \in Change

Written ==
    /\ producer \in {"write_value", "publish"} =>
            entries[head].parameter = pushing
    /\ producer = "publish" => entries[head].value = pushing

Busy ==
    consumer \in {"read_parameter", "read_value", "advance"} => head # tail

IInv ==
    /\ TypeOK
    /\ Window
    /\ Room
    /\ Written
    /\ Busy
    /\ LiveEntriesWhole
    /\ ReadIntact
    /\ PoppedWhole

-----------------------------------------------------------------------------
(* Facts about indices. *)

(* increment() steps to the next slot and wraps at the capacity. *)
LEMMA IncrementWraps ==
    ASSUME NEW i \in Slots
    PROVE  /\ Increment(i) \in Slots
           /\ Increment(i) = IF i + 1 = Capacity THEN 0 ELSE i + 1
  BY CapacityAssumption DEF Slots, Increment

(* A push that has room makes the ring one entry longer, and the entry it  *)
(* adds is the one at the old head.                                        *)
LEMMA PushDistance ==
    ASSUME NEW t \in Slots, NEW h \in Slots, Increment(h) # t
    PROVE  /\ Distance(t, Increment(h)) = Distance(t, h) + 1
           /\ \A i \in Slots : Distance(t, i) < Distance(t, h) + 1 =>
                    Distance(t, i) < Distance(t, h) \/ i = h
  BY CapacityAssumption, IncrementWraps DEF Slots, Distance

(* A pop of a ring that is not empty frees the slot at the old tail: no    *)
(* slot becomes live, and the ring does not become full.                   *)
LEMMA PopDistance ==
    ASSUME NEW t \in Slots, NEW h \in Slots, t # h
    PROVE  /\ Increment(h) # Increment(t)
           /\ Distance(t, t) < Distance(t, h)
           /\ \A i \in Slots :
                  Distance(Increment(t), i) < Distance(Increment(t), h) =>
                      Distance(t, i) < Distance(t, h)
  BY CapacityAssumption, IncrementWraps DEF Slots, Distance

(* Moving the tail to any index between tail and head makes no slot live,  *)
(* and does not make the ring full.                                        *)
LEMMA ResetDistance ==
    ASSUME NEW t \in Slots, NEW h \in Slots, NEW r \in Slots,
           Distance(t, r) <= Distance(t, h)
    PROVE  /\ Increment(h) # t => Increment(h) # r
           /\ \A i \in Slots : Distance(r, i) < Distance(r, h) =>
                    Distance(t, i) < Distance(t, h)
  BY CapacityAssumption, IncrementWraps DEF Slots, Distance

-----------------------------------------------------------------------------
(* The ring is empty in the initial state. *)
LEMMA InitIInv == Init => IInv
<1> SUFFICES ASSUME Init PROVE IInv
  OBVIOUS
<1> USE CapacityAssumption DEF Init
<1>1. TypeOK
  BY DEF TypeOK, Slots, Entry, Word, Whole
<1>2. Window /\ Room /\ Written /\ Busy /\ ReadIntact /\ PoppedWhole
  BY DEF Window, Room, Written, Busy, ReadIntact, PoppedWhole
<1>3. LiveEntriesWhole
  BY DEF LiveEntriesWhole, Live, Distance, Slots
<1> QED
  BY <1>1, <1>2, <1>3 DEF IInv

(* Every step of the queue keeps the type invariant. *)
LEMMA NextTypeOK == TypeOK /\ [Next]_vars => TypeOK'
<1> SUFFICES ASSUME TypeOK, [Next]_vars PROVE TypeOK'
  OBVIOUS
<1> USE DEF TypeOK, Entry, Word, producerVars, consumerVars
<1>1. CASE Push
  <2>1. CASE PushFull \/ \E c \in Change : PushBegin(c)
    BY <2>1 DEF PushFull, PushBegin
  <2>2. CASE WriteParameter
    BY <2>2 DEF WriteParameter
  <2>3. CASE WriteValue
    BY <2>3 DEF WriteValue
  <2>4. CASE PushPublish
    BY <2>4, IncrementWraps DEF PushPublish
  <2> QED
    BY <1>1, <2>1, <2>2, <2>3, <2>4 DEF Push
<1>2. CASE Pop
  BY <1>2, IncrementWraps
     DEF Pop, PopBegin, ReadParameter, ReadValue, PopAdvance
<1>3. CASE Reset
  BY <1>3 DEF Reset, ResetLoad, ResetStore
<1>4. CASE UNCHANGED vars
  BY <1>4 DEF vars
<1> QED
  BY <1>1, <1>2, <1>3, <1>4 DEF Next

(* Every step of the queue keeps the inductive invariant. *)
LEMMA NextIInv == IInv /\ [Next]_vars => IInv'
<1> SUFFICES ASSUME IInv, [Next]_vars PROVE IInv'
  OBVIOUS
<1>1. TypeOK /\ TypeOK'
  BY NextTypeOK DEF IInv
<1> USE <1>1 DEF IInv, producerVars, consumerVars
<1>2. CASE PushFull
  BY <1>2 DEF PushFull, Window, Room, Written, Busy, LiveEntriesWhole, Live,
              ReadIntact, PoppedWhole
<1>3. ASSUME NEW c \in Change, PushBegin(c) PROVE IInv'
  BY <1>3 DEF PushBegin, Window, Room, Written, Busy, LiveEntriesWhole, Live,
              ReadIntact, PoppedWhole
<1>4. CASE WriteParameter
  <2>1. Window' /\ Room' /\ Busy' /\ PoppedWhole'
    BY <1>4 DEF WriteParameter, Window, Room, Busy, PoppedWhole
  <2>2. Written'
    BY <1>4 DEF WriteParameter, Written, TypeOK, Entry
  <2>3. LiveEntriesWhole'
    <3>1. ~Live(head)
      BY CapacityAssumption DEF Live, Distance, Slots, TypeOK
    <3>2. \A i \in Slots : Live(i)' = Live(i) /\ (Live(i) => i # head)
      BY <1>4, <3>1 DEF WriteParameter, Live
    <3>3. \A i \in Slots : i # head => entries'[i] = entries[i]
      BY <1>4 DEF WriteParameter, TypeOK
    <3> QED
      BY <3>2, <3>3 DEF LiveEntriesWhole
  <2>4. ReadIntact'
    BY <1>4 DEF WriteParameter, ReadIntact, Busy, TypeOK
  <2> QED
    BY <2>1, <2>2, <2>3, <2>4
<1>5. CASE WriteValue
  <2>1. Window' /\ Room' /\ Busy' /\ PoppedWhole'
    BY <1>5 DEF WriteValue, Window, Room, Busy, PoppedWhole
  <2>2. Written'
    BY <1>5 DEF WriteValue, Written, TypeOK, Entry
  <2>3. LiveEntriesWhole'
    <3>1. ~Live(head)
      BY CapacityAssumption DEF Live, Distance, Slots, TypeOK
    <3>2. \A i \in Slots : Live(i)' = Live(i) /\ (Live(i) => i # head)
      BY <1>5, <3>1 DEF WriteValue, Live
    <3>3. \A i \in Slots : i # head => entries'[i] = entries[i]
      BY <1>5 DEF WriteValue, TypeOK
    <3> QED
      BY <3>2, <3>3 DEF LiveEntriesWhole
  <2>4. ReadIntact'
    BY <1>5 DEF WriteValue, ReadIntact, Busy, TypeOK
  <2> QED
    BY <2>1, <2>2, <2>3, <2>4
<1>6. CASE PushPublish
  <2>1. /\ Distance(tail, head') = Distance(tail, head) + 1
        /\ \A i \in Slots : Distance(tail, i) < Distance(tail, head') =>
                Distance(tail, i) < Distance(tail, head) \/ i = head
    BY <1>6, PushDistance DEF PushPublish, Room, TypeOK
  <2>2. entries[head] = Whole(pushing) /\ pushing \in Change
    BY <1>6 DEF PushPublish, Written, Room, Whole, TypeOK, Entry
  <2>3. LiveEntriesWhole'
    BY <1>6, <2>1, <2>2 DEF PushPublish, LiveEntriesWhole, Live
  <2>4. Window'
    BY <1>6, <2>1, CapacityAssumption
       DEF PushPublish, Window, TypeOK, Distance, Slots
  <2>5. Busy'
    BY <1>6 DEF PushPublish, Busy, Room
  <2>6. Room' /\ Written' /\ ReadIntact' /\ PoppedWhole'
    BY <1>6 DEF PushPublish, Room, Written, ReadIntact, PoppedWhole
  <2> QED
    BY <2>3, <2>4, <2>5, <2>6
<1>7. CASE PopBegin
  BY <1>7 DEF PopBegin, Window, Room, Written, Busy, LiveEntriesWhole, Live,
              ReadIntact, PoppedWhole
<1>8. CASE ReadParameter
  BY <1>8 DEF ReadParameter, Window, Room, Written, Busy, LiveEntriesWhole,
              Live, ReadIntact, PoppedWhole, TypeOK, Entry
<1>9. CASE ReadValue
  BY <1>9 DEF ReadValue, Window, Room, Written, Busy, LiveEntriesWhole,
              Live, ReadIntact, PoppedWhole, TypeOK, Entry
<1>10. CASE PopAdvance
  <2>1. /\ Increment(head) # Increment(tail)
        /\ Distance(tail, tail) < Distance(tail, head)
        /\ \A i \in Slots : Distance(tail', i) < Distance(tail', head) =>
                Distance(tail, i) < Distance(tail, head)
    BY <1>10, PopDistance DEF PopAdvance, Busy, TypeOK
  <2>2. \E c \in Change : reading = Whole(c)
    BY <1>10, <2>1
       DEF PopAdvance, ReadIntact, LiveEntriesWhole, Live, TypeOK
  <2>3. LiveEntriesWhole'
    BY <1>10, <2>1 DEF PopAdvance, LiveEntriesWhole, Live
  <2>4. Room'
    BY <1>10, <2>1 DEF PopAdvance, Room
  <2>5. PoppedWhole'
    BY <1>10, <2>2 DEF PopAdvance, PoppedWhole
  <2>6. Window' /\ Written' /\ Busy' /\ ReadIntact'
    BY <1>10 DEF PopAdvance, Window, Written, Busy, ReadIntact
  <2> QED
    BY <2>3, <2>4, <2>5, <2>6
<1>11. CASE ResetLoad
  <2>1. Window'
    BY <1>11, CapacityAssumption
       DEF ResetLoad, Window, TypeOK, Distance, Slots
  <2>2. /\ Room' /\ Written' /\ Busy' /\ LiveEntriesWhole' /\ ReadIntact'
        /\ PoppedWhole'
    BY <1>11 DEF ResetLoad, Room, Written, Busy, LiveEntriesWhole, Live,
                 ReadIntact, PoppedWhole
  <2> QED
    BY <2>1, <2>2
<1>12. CASE ResetStore
  <2>1. /\ Increment(head) # tail => Increment(head) # resetTo
        /\ \A i \in Slots : Distance(resetTo, i) < Distance(resetTo, head) =>
                Distance(tail, i) < Distance(tail, head)
    BY <1>12, ResetDistance DEF ResetStore, Window, TypeOK
  <2>2. LiveEntriesWhole'
    BY <1>12, <2>1 DEF ResetStore, LiveEntriesWhole, Live
  <2>3. Room'
    BY <1>12, <2>1 DEF ResetStore, Room
  <2>4. Window' /\ Written' /\ Busy' /\ ReadIntact' /\ PoppedWhole'
    BY <1>12 DEF ResetStore, Window, Written, Busy, ReadIntact, PoppedWhole
  <2> QED
    BY <2>2, <2>3, <2>4
<1>13. CASE UNCHANGED vars
  BY <1>13 DEF vars, Window, Room, Written, Busy, LiveEntriesWhole, Live,
               ReadIntact, PoppedWhole
<1> QED
  BY <1>2, <1>3, <1>4, <1>5, <1>6, <1>7, <1>8, <1>9, <1>10, <1>11, <1>12,
     <1>13 DEF Next, Push, Pop, Reset

(* The inductive invariant holds in every reachable state. *)
THEOREM Inductive == Spec => []IInv
  BY InitIInv, NextIInv, PTL DEF Spec

(* The indices, the entries and both tasks' locals keep their types        *)
(* whatever the interleaving of push, pop and reset.                       *)
THEOREM TypeCorrect == Spec => []TypeOK
<1>1. IInv => TypeOK
  BY DEF IInv
<1> QED
  BY Inductive, <1>1, PTL

(* No torn entry: between tail and head every slot holds one whole         *)
(* submitted change.                                                       *)
THEOREM EntriesWhole == Spec => []LiveEntriesWhole
<1>1. IInv => LiveEntriesWhole
  BY DEF IInv
<1> QED
  BY Inductive, <1>1, PTL

(* The producer never writes the slot that a pop is copying. *)
THEOREM ReadsIntact == Spec => []ReadIntact
<1>1. IInv => ReadIntact
  BY DEF IInv
<1> QED
  BY Inductive, <1>1, PTL

(* The audio task only ever applies whole changes that were submitted. *)
THEOREM PopsWhole == Spec => []PoppedWhole
<1>1. IInv => PoppedWhole
  BY DEF IInv
<1> QED
  BY Inductive, <1>1, PTL

-----------------------------------------------------------------------------
(* The ring as a sequence: what a step makes of the changes it holds. *)

(* The slot of the n-th change. *)
At(t, n) == IF t + n - 1 < Capacity THEN t + n - 1 ELSE t + n - 1 - Capacity

LEMMA SlotAt ==
    ASSUME NEW t \in Slots, NEW n \in 1..Capacity
    PROVE  /\ (t + n - 1) % Capacity = At(t, n)
           /\ At(t, n) \in Slots
           /\ Distance(t, At(t, n)) = n - 1
<1> DEFINE x == t + n - 1
<1>1. x \in Nat /\ x < 2 * Capacity  BY CapacityAssumption DEF Slots
<1>2. x % Capacity = IF x < Capacity THEN x ELSE x - Capacity
  <2> HIDE DEF x
  <2> QED  BY <1>1, CapacityAssumption
<1> QED  BY <1>1, <1>2, CapacityAssumption DEF Slots, At, Distance

LEMMA DistanceBound ==
    ASSUME NEW t \in Slots, NEW h \in Slots
    PROVE  /\ Distance(t, h) \in Nat /\ Distance(t, h) < Capacity
           /\ At(t, Distance(t, h) + 1) = h
BY CapacityAssumption DEF Slots, Distance, At

LEMMA TailDistance ==
    ASSUME NEW t \in Slots, NEW u \in Slots, NEW h \in Slots,
           Distance(t, u) <= Distance(t, h)
    PROVE  /\ Distance(u, h) = Distance(t, h) - Distance(t, u)
           /\ \A k \in 1..Distance(u, h) : At(u, k) = At(t, Distance(t, u) + k)
BY CapacityAssumption DEF Slots, Distance, At

(* The changes from slot t up to slot h. *)
Held(e, t, h) ==
    [n \in 1..Distance(t, h) |-> e[(t + n - 1) % Capacity].parameter]

LEMMA HeldAre ==
    ASSUME NEW e \in [Slots -> Entry], NEW t \in Slots, NEW h \in Slots
    PROVE  /\ Held(e, t, h) \in Seq(Word)
           /\ Len(Held(e, t, h)) = Distance(t, h)
           /\ \A n \in 1..Distance(t, h) : Held(e, t, h)[n] = e[At(t, n)].parameter
<1> DEFINE d == Distance(t, h)
<1>1. d \in Nat /\ d < Capacity  BY DistanceBound
<1>2. \A n \in 1..d : (t + n - 1) % Capacity = At(t, n) /\ At(t, n) \in Slots
    BY <1>1, SlotAt, CapacityAssumption
<1>3. \A n \in 1..d : e[At(t, n)].parameter \in Word
    BY <1>2 DEF Entry
<1>4. Held(e, t, h) = [n \in 1..d |-> e[At(t, n)].parameter]
    BY <1>2 DEF Held
<1> QED  BY <1>1, <1>3, <1>4

LEMMA ContentsHeld ==
    /\ Contents = Held(entries, tail, head)
    /\ Contents' = Held(entries', tail', head')
BY DEF Contents, Held, Distance

LEMMA ContentsAre ==
    ASSUME TypeOK
    PROVE  /\ Contents \in Seq(Word)
           /\ Len(Contents) = Distance(tail, head)
           /\ \A n \in 1..Distance(tail, head) :
                 Contents[n] = entries[At(tail, n)].parameter
BY ContentsHeld, HeldAre DEF TypeOK

LEMMA ContentsNext ==
    ASSUME TypeOK'
    PROVE  /\ Contents' \in Seq(Word)
           /\ Len(Contents') = Distance(tail', head')
           /\ \A n \in 1..Distance(tail', head') :
                 Contents'[n] = entries'[At(tail', n)].parameter
BY ContentsHeld, HeldAre DEF TypeOK

(* Two sequences of the same length and the same elements are the same. *)
LEMMA SameSeq ==
    ASSUME NEW S, NEW s \in Seq(S), NEW t \in Seq(S), Len(s) = Len(t),
           \A n \in 1..Len(s) : s[n] = t[n]
    PROVE  s = t
OBVIOUS

(* The slot that a push fills is not one that holds a change. *)
LEMMA WriteKeepsContents ==
    ASSUME IInv, TypeOK', WriteParameter \/ WriteValue
    PROVE  Contents' = Contents
<1>1. head' = head /\ tail' = tail
      /\ \A i \in Slots : i # head => entries'[i] = entries[i]
    BY DEF WriteParameter, WriteValue, IInv, TypeOK
<1>2. /\ Contents \in Seq(Word) /\ Contents' \in Seq(Word)
      /\ Len(Contents') = Len(Contents)
    BY <1>1, ContentsAre, ContentsNext DEF IInv
<1>3. ASSUME NEW n \in 1..Len(Contents) PROVE Contents'[n] = Contents[n]
  <2>1. Len(Contents) = Distance(tail, head) /\ Distance(tail, head) \in Nat
        /\ Distance(tail, head) < Capacity /\ tail \in Slots
      BY ContentsAre, DistanceBound DEF IInv, TypeOK
  <2>2. At(tail, n) \in Slots /\ Distance(tail, At(tail, n)) = n - 1
      BY <2>1, SlotAt, CapacityAssumption
  <2>3. At(tail, n) # head  BY <2>1, <2>2
  <2>4. Contents[n] = entries[At(tail, n)].parameter
      BY <2>1, ContentsAre DEF IInv
  <2>5. Contents'[n] = entries'[At(tail, n)].parameter
      BY <1>1, <2>1, ContentsNext
  <2> QED  BY <1>1, <2>2, <2>3, <2>4, <2>5
<1> QED  BY <1>2, <1>3, SameSeq

LEMMA SameContents ==
    ASSUME UNCHANGED <<entries, head, tail>> PROVE Contents' = Contents
BY DEF Contents, Distance

LEMMA PublishAppends ==
    ASSUME IInv, TypeOK', PushPublish
    PROVE  Fifo!Push(pushing) /\ pushing \in Change
<1> DEFINE d == Distance(tail, head)
<1>1. Increment(head) # tail /\ pushing \in Change /\ entries[head].parameter = pushing
    BY DEF IInv, Room, Written, PushPublish
<1>2. tail \in Slots /\ head \in Slots /\ tail' = tail /\ entries' = entries
      /\ head' = Increment(head)
    BY DEF IInv, TypeOK, PushPublish, consumerVars
<1>3. d \in Nat /\ d < Capacity - 1 /\ At(tail, d + 1) = head
      /\ Distance(tail', head') = d + 1
  <2>1. d < Capacity - 1
      BY <1>1, <1>2, IncrementWraps, CapacityAssumption DEF Distance, Slots
  <2> QED  BY <1>1, <1>2, <2>1, DistanceBound, PushDistance
<1>4. /\ Contents \in Seq(Word) /\ Len(Contents) = d
      /\ \A n \in 1..d : Contents[n] = entries[At(tail, n)].parameter
    BY ContentsAre DEF IInv
<1>5. /\ Contents' \in Seq(Word) /\ Len(Contents') = d + 1
      /\ \A n \in 1..(d + 1) : Contents'[n] = entries[At(tail, n)].parameter
    BY <1>2, <1>3, ContentsNext
<1>6. pushing \in Word  BY <1>1 DEF Word
<1>7. Contents' = Append(Contents, pushing)
  <2> DEFINE q == Append(Contents, pushing)
  <2>1. q \in Seq(Word) /\ Len(q) = d + 1 /\ q[d + 1] = pushing
        /\ \A n \in 1..d : q[n] = Contents[n]
      BY <1>3, <1>4, <1>6
  <2>2. \A n \in 1..(d + 1) : n \in 1..d \/ n = d + 1  BY <1>3
  <2>3. \A n \in 1..(d + 1) : Contents'[n] = q[n]
      BY <1>1, <1>3, <1>4, <1>5, <2>1, <2>2
  <2>4. Contents' = q
    <3> HIDE DEF q
    <3> QED  BY <1>5, <2>1, <2>3, SameSeq
  <2> QED  BY <2>4
<1> QED
    BY <1>1, <1>3, <1>4, <1>7 DEF Fifo!Push, PushPublish, consumerVars

(* Moving the tail n slots on leaves what follows the first n changes. *)
LEMMA TailDrops ==
    ASSUME TypeOK, TypeOK', UNCHANGED <<entries, head>>,
           NEW n \in Nat, n <= Distance(tail, head), Distance(tail, tail') = n
    PROVE  /\ Contents' = SubSeq(Contents, n + 1, Len(Contents))
           /\ n \in 0..Len(Contents)
<1> DEFINE d == Distance(tail, head)
           q == SubSeq(Contents, n + 1, Len(Contents))
<1>1. tail \in Slots /\ tail' \in Slots /\ head \in Slots  BY DEF TypeOK
<1>2. d \in Nat /\ d < Capacity  BY <1>1, DistanceBound
<1>3. Distance(tail', head') = d - n
    BY <1>1, TailDistance
<1>4. /\ Contents \in Seq(Word) /\ Len(Contents) = d
      /\ \A k \in 1..d : Contents[k] = entries[At(tail, k)].parameter
    BY ContentsAre
<1>5. /\ Contents' \in Seq(Word) /\ Len(Contents') = d - n
      /\ \A k \in 1..(d - n) : Contents'[k] = entries[At(tail', k)].parameter
    BY <1>3, ContentsNext
<1>6. \A k \in 1..(d - n) : At(tail', k) = At(tail, n + k)
    BY <1>1, <1>3, TailDistance
<1>7. q \in Seq(Word) /\ Len(q) = d - n /\ \A k \in 1..(d - n) : q[k] = Contents[n + k]
    BY <1>2, <1>4
<1>8. \A k \in 1..(d - n) : n + k \in 1..d  BY <1>2
<1>9. \A k \in 1..(d - n) : Contents'[k] = q[k]
    BY <1>4, <1>5, <1>6, <1>7, <1>8
<1>10. Contents' = q
  <2> HIDE DEF q
  <2> QED  BY <1>5, <1>7, <1>9, SameSeq
<1> QED  BY <1>2, <1>4, <1>10

LEMMA AdvancePops == ASSUME IInv, TypeOK', PopAdvance PROVE Fifo!Pop
<1>1. tail \in Slots /\ head \in Slots /\ head # tail /\ tail' = Increment(tail)
    BY DEF IInv, TypeOK, Busy, PopAdvance
<1>2. Distance(tail, tail') = 1 /\ 1 <= Distance(tail, head)
    BY <1>1, IncrementWraps, CapacityAssumption DEF Distance, Slots
<1>3. Contents' = SubSeq(Contents, 2, Len(Contents))
    BY <1>2, TailDrops DEF IInv, PopAdvance
<1>4. /\ Contents \in Seq(Word) /\ Len(Contents) >= 1
      /\ Contents[1] = entries[tail].parameter
  <2>1. At(tail, 1) = tail  BY <1>1, CapacityAssumption DEF At, Slots
  <2>2. Distance(tail, head) \in Nat  BY <1>1, DistanceBound
  <2> QED  BY <1>2, <2>1, <2>2, ContentsAre DEF IInv
<1>5. Contents # <<>> /\ Head(Contents) = Contents[1]
      /\ Tail(Contents) = SubSeq(Contents, 2, Len(Contents))
    BY <1>4
<1>6. popped'.parameter = entries[tail].parameter
    BY DEF PopAdvance, IInv, ReadIntact
<1> QED  BY <1>3, <1>4, <1>5, <1>6 DEF Fifo!Pop, PopAdvance, producerVars

LEMMA StoreForgets == ASSUME IInv, TypeOK', ResetStore PROVE Fifo!Reset
<1>1. tail \in Slots /\ resetTo \in Slots /\ tail' = resetTo
    BY DEF IInv, TypeOK, ResetStore
<1>2. Distance(tail, resetTo) \in Nat /\ Distance(tail, resetTo) <= Distance(tail, head)
    BY <1>1, DistanceBound DEF IInv, Window, ResetStore
<1>3. \E n \in 0..Len(Contents) : Contents' = SubSeq(Contents, n + 1, Len(Contents))
    BY <1>1, <1>2, TailDrops DEF IInv, ResetStore
<1> QED  BY <1>3 DEF Fifo!Reset, ResetStore, producerVars

LEMMA FullRefuses == ASSUME IInv, PushFull PROVE Fifo!Refuse
<1>1. Distance(tail, head) = Capacity - 1
    BY IncrementWraps, CapacityAssumption
    DEF IInv, TypeOK, PushFull, Distance, Slots
<1>2. Len(Contents) = Capacity - 1  BY <1>1, ContentsAre DEF IInv
<1>3. Contents' = Contents  BY SameContents DEF PushFull
<1> QED  BY <1>2, <1>3 DEF Fifo!Refuse, PushFull, consumerVars

(* The ring is a bounded FIFO of one change less than its capacity: none   *)
(* accepted is lost, duplicated or reordered, one is refused only when it  *)
(* is full, and a reset forgets the oldest ones only.                      *)
THEOREM RingIsFifo == Spec => ImplementsFifo
<1>1. Init => Fifo!Init
  <2> SUFFICES ASSUME Init PROVE Contents = <<>> /\ popped.parameter = NoChange
      BY DEF Init, Fifo!Init
  <2>1. Distance(tail, head) = 0  BY DEF Init, Distance
  <2> QED  BY <2>1 DEF Init, Contents, Whole
<1>2. IInv /\ [Next]_vars => [Fifo!Next]_Fifo!vars
  <2> SUFFICES ASSUME IInv, [Next]_vars PROVE [Fifo!Next]_Fifo!vars
      OBVIOUS
  <2>1. TypeOK'  BY NextTypeOK DEF IInv
  <2>2. CASE PushFull  BY <2>2, FullRefuses DEF Fifo!Next
  <2>3. CASE (\E c \in Change : PushBegin(c)) \/ PopBegin \/ ReadParameter
             \/ ReadValue \/ ResetLoad \/ UNCHANGED vars
    <3>1. UNCHANGED <<entries, head, tail, accepted, popped>>
        BY <2>3 DEF PushBegin, PopBegin, ReadParameter, ReadValue, ResetLoad, vars,
                    producerVars, consumerVars
    <3> QED  BY <3>1, SameContents DEF Fifo!vars
  <2>4. CASE WriteParameter \/ WriteValue
      BY <2>1, <2>4, WriteKeepsContents
      DEF WriteParameter, WriteValue, consumerVars, Fifo!vars
  <2>5. CASE PushPublish  BY <2>1, <2>5, PublishAppends DEF Fifo!Next
  <2>6. CASE PopAdvance  BY <2>1, <2>6, AdvancePops DEF Fifo!Next
  <2>7. CASE ResetStore  BY <2>1, <2>7, StoreForgets DEF Fifo!Next
  <2> QED  BY <2>2, <2>3, <2>4, <2>5, <2>6, <2>7 DEF Next, Push, Pop, Reset
<1> QED  BY <1>1, <1>2, Inductive, PTL DEF Spec, ImplementsFifo, Fifo!Spec
=============================================================================
