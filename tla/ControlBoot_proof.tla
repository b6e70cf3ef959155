------------------------- MODULE ControlBoot_proof -------------------------
(***************************************************************************)
(* The start-up of control plane and engine, for every registry, every     *)
(* size of the ring and any number of SETs: with the control task as the   *)
(* only producer, no change that was acknowledged after seeding is lost.   *)
(***************************************************************************)
EXTENDS ControlBoot, WellFoundedInduction, TLAPS

(* Where the indices of the ring are, and what a push has loaded.  In a     *)
(* mode without changes of its own the coordinator never pushes, so the     *)
(* slot of the control task is still the head, and still has room.          *)
TypeOK ==
    /\ entries \in [Slots -> Change] /\ head \in Slots /\ tail \in Slots
    /\ mode \in Modes
    /\ control \in {"idle", "set", "seed", "seed_store"}
    /\ coordinator \in {"delay", "init", "mode", "mode_store", "running",
                       "failed", "stopped"}
    /\ pushing \in [Task -> [change : Change, slot : Slots]]
    /\ values \in [Param -> Value] /\ early \subseteq Param
    /\ sets \in Nat /\ seeded \in BOOLEAN /\ allAccepted \in BOOLEAN
    /\ seedNext \in Nat \ {0} /\ modeNext \in Nat \ {0} /\ ready \in BOOLEAN

OneProducer ==
    /\ coordinator # "mode_store"
    /\ control \in {"set", "seed_store"} =>
            pushing["control"].slot = head /\ ~Full

(* The engine is initialized before it is ready, and ready before seeding   *)
(* begins: what is queued from then on is never reset.                      *)
Order ==
    /\ ready => coordinator \notin {"delay", "init"}
    /\ seeded => ready
    /\ control \in {"seed", "seed_store"} => ready /\ ~seeded
    /\ control = "seed_store" =>
        /\ seedNext \in 1..Len(Registry)
        /\ pushing["control"].change =
                [parameter |-> Registry[seedNext], value |-> Default[Registry[seedNext]]]

(* What the engine will have of a parameter once the ring has been drained. *)
Effective(p) == Applied(Queued)[p]

DefaultsUnlessEarly == ~seeded => \A p \in Param \ early : values[p] = Default[p]

(* In an attempt without a refusal, every default so far is on its way.     *)
SeedOnItsWay ==
    control \in {"seed", "seed_store"} /\ allAccepted =>
        \A i \in 1..Len(Registry) :
            i < seedNext => Effective(Registry[i]) = Default[Registry[i]]

Coherent == seeded => \A p \in Param \ early : Effective(p) = values[p]

IInv ==
    /\ TypeOK
    /\ mode = <<>> =>
        OneProducer /\ Order /\ DefaultsUnlessEarly /\ SeedOnItsWay /\ Coherent

-----------------------------------------------------------------------------
(* The ring *)

Count(h, t) == (h - t) % Capacity

LEMMA RemainderBelow ==
    ASSUME NEW C \in Nat, C > 1, NEW x \in Int, -C < x, x < 0
    PROVE  x % C = x + C
BY SMTT(30)

LEMMA RemainderWithin ==
    ASSUME NEW C \in Nat, C > 1, NEW x \in Int, 0 <= x, x < C
    PROVE  x % C = x
OBVIOUS

LEMMA RemainderAbove ==
    ASSUME NEW C \in Nat, C > 1, NEW x \in Int, C <= x, x < 2 * C
    PROVE  x % C = x - C
OBVIOUS

LEMMA SlotOf ==
    ASSUME NEW t \in Slots, NEW n \in 0..Capacity
    PROVE  (t + n) % Capacity = IF t + n >= Capacity THEN t + n - Capacity ELSE t + n
<1>1. /\ Capacity \in Nat /\ Capacity > 1 /\ t + n \in Int
      /\ 0 <= t + n /\ t + n < 2 * Capacity /\ t \in Nat /\ n \in Nat
    BY BootAssumption DEF Slots
<1>2. PICK x \in Int : x = t + n
    BY <1>1
<1>3. x % Capacity = IF x >= Capacity THEN x - Capacity ELSE x
    <2>1. 0 <= x /\ x < 2 * Capacity
        BY <1>1, <1>2
    <2>2. CASE x >= Capacity
        BY ONLY <1>1, <2>1, <2>2, x \in Int, RemainderAbove
    <2>3. CASE x < Capacity
        BY ONLY <1>1, <2>1, <2>3, x \in Int, RemainderWithin
    <2> QED BY <1>1, <2>1, <2>2, <2>3
<1>4. (t + n) % Capacity = x % Capacity
    BY <1>2
<1> QED BY ONLY <1>1, <1>2, <1>3, <1>4, x \in Int

LEMMA IncrementWraps ==
    ASSUME NEW i \in Slots
    PROVE  /\ Increment(i) \in Slots
           /\ Increment(i) = IF i + 1 = Capacity THEN 0 ELSE i + 1
<1>1. 1 \in 0..Capacity /\ i \in 0..(Capacity - 1) /\ Capacity \in Nat
    BY BootAssumption DEF Slots
<1>2. Increment(i) = IF i + 1 >= Capacity THEN i + 1 - Capacity ELSE i + 1
    BY <1>1, SlotOf DEF Increment
<1> QED BY <1>1, <1>2 DEF Slots

LEMMA CountCases ==
    ASSUME NEW h \in Slots, NEW t \in Slots
    PROVE  /\ Count(h, t) \in Slots
           /\ Count(h, t) = IF h >= t THEN h - t ELSE h - t + Capacity
<1>1. /\ Capacity \in Nat /\ Capacity > 1 /\ h - t \in Int
      /\ -Capacity < h - t /\ h - t < Capacity /\ h \in Int /\ t \in Int
    BY BootAssumption DEF Slots
<1>2. CASE h >= t
    BY <1>1, <1>2, RemainderWithin DEF Slots, Count
<1>3. CASE h < t
    BY <1>1, <1>3, RemainderBelow DEF Slots, Count
<1> QED BY <1>1, <1>2, <1>3

QueuedOf(ring, h, t) ==
    [n \in 1..((h - t) % Capacity) |-> ring[(t + n - 1) % Capacity]]

LEMMA QueuedOfIs ==
    ASSUME NEW ring \in [Slots -> Change], NEW h \in Slots, NEW t \in Slots
    PROVE  /\ Len(QueuedOf(ring, h, t)) = Count(h, t) /\ Count(h, t) \in Slots
           /\ \A n \in 1..Count(h, t) :
                /\ QueuedOf(ring, h, t)[n] = ring[(t + (n - 1)) % Capacity]
                /\ QueuedOf(ring, h, t)[n] \in Change
<1> DEFINE k == Count(h, t)
<1>0. k \in Slots
    BY CountCases
<1>1. k \in 0..(Capacity - 1) /\ k \in Nat /\ Capacity \in Nat
    BY <1>0, BootAssumption DEF Slots
<1>2. QueuedOf(ring, h, t) = [n \in 1..k |-> ring[(t + n - 1) % Capacity]]
    BY DEF QueuedOf, Count
<1>3. ASSUME NEW n \in 1..k
      PROVE  /\ (t + n - 1) % Capacity = (t + (n - 1)) % Capacity
             /\ ring[(t + (n - 1)) % Capacity] \in Change
    <2>1. n - 1 \in 0..Capacity /\ t \in 0..(Capacity - 1)
        BY <1>1 DEF Slots
    <2>2. t + n - 1 = t + (n - 1)
        BY <1>1, <2>1
    <2>3. (t + (n - 1)) % Capacity \in Slots
        BY <1>1, <2>1, SlotOf DEF Slots
    <2> QED BY <2>2, <2>3
<1> HIDE DEF k
<1>4. QueuedOf(ring, h, t) \in [1..k -> Change]
    BY <1>2, <1>3
<1>5. QueuedOf(ring, h, t) \in Seq(Change) /\ Len(QueuedOf(ring, h, t)) = k
    BY <1>1, <1>4
<1> QED BY <1>0, <1>2, <1>3, <1>4, <1>5 DEF k

LEMMA QueuedIs ==
    ASSUME entries \in [Slots -> Change], head \in Slots, tail \in Slots
    PROVE  /\ Len(Queued) = Count(head, tail) /\ Count(head, tail) \in Slots
           /\ \A n \in 1..Count(head, tail) :
                /\ Queued[n] = entries[(tail + (n - 1)) % Capacity]
                /\ Queued[n] \in Change
<1>1. Queued = QueuedOf(entries, head, tail)
    BY DEF Queued, QueuedOf
<1> QED BY <1>1, QueuedOfIs

(* The last of several changes counts; a new one is the last.               *)
LEMMA MaxIs ==
    ASSUME NEW S, NEW x \in S, S \subseteq Int, \A y \in S : y <= x
    PROVE  Max(S) = x
<1>1. \A y \in S : x >= y
    OBVIOUS
<1>2. ASSUME NEW z \in S, \A y \in S : z >= y PROVE z = x
    BY <1>2
<1> QED BY <1>1, <1>2 DEF Max

LEMMA MaxIn ==
    ASSUME NEW k \in Nat, NEW S, S \subseteq 1..k, S # {}
    PROVE  Max(S) \in S /\ \A y \in S : Max(S) >= y
<1> DEFINE D == {k - x : x \in S}
<1>1. D # {} /\ D \subseteq Nat
    <2>1. \A x \in S : k - x \in Nat
        OBVIOUS
    <2> QED BY <2>1
<1>2. PICK d \in D : \A e \in D : ~(<<e, d>> \in OpToRel(<, Nat))
    BY <1>1, NatLessThanWellFounded, WFMin
<1>3. PICK x \in S : d = k - x
    BY <1>2
<1>4. \A y \in S : x >= y
    <2>1. SUFFICES ASSUME NEW y \in S PROVE x >= y
        OBVIOUS
    <2>2. k - y \in D
        OBVIOUS
    <2> HIDE DEF D
    <2>3. x \in Int /\ y \in Int
        BY <1>3
    <2>4. k - y \in D /\ k - y \in Nat /\ d \in Nat
        BY <1>1, <1>2, <2>2
    <2>5. ~(k - y < d)
        BY <1>2, <2>4 DEF OpToRel
    <2> QED BY <1>3, <2>3, <2>4, <2>5
<1> QED BY <1>4 DEF Max

(* Storing a change at the head adds it to what the engine will have.       *)
LEMMA StoreAdds ==
    ASSUME entries \in [Slots -> Change], head \in Slots, tail \in Slots, ~Full,
           NEW change \in Change,
           entries' = [entries EXCEPT ![head] = change], head' = Increment(head),
           tail' = tail, targets' = targets
    PROVE  \A p \in Param :
              Effective(p)' = IF p = change.parameter THEN change.value ELSE Effective(p)
<1> DEFINE k == Count(head, tail)
<1>0. k \in Slots /\ k = IF head >= tail THEN head - tail ELSE head - tail + Capacity
    BY CountCases
<1>a. /\ Capacity \in Nat /\ Capacity > 1 /\ k \in 0..(Capacity - 1)
      /\ head \in 0..(Capacity - 1) /\ tail \in 0..(Capacity - 1)
    BY <1>0, BootAssumption DEF Slots
<1>b. /\ head' \in Slots /\ head' # tail
      /\ head' = IF head + 1 = Capacity THEN 0 ELSE head + 1
    BY IncrementWraps DEF Full
<1>c. Count(head', tail') = IF head' >= tail THEN head' - tail ELSE head' - tail + Capacity
    <2>1. Count(head', tail) = IF head' >= tail THEN head' - tail ELSE head' - tail + Capacity
        BY <1>b, CountCases
    <2> QED BY <2>1
<1> HIDE DEF k
<1>1. /\ head' \in Slots /\ entries' \in [Slots -> Change] /\ tail' \in Slots
      /\ Count(head', tail') = k + 1 /\ k \in Nat
    BY <1>0, <1>a, <1>b, <1>c
<1>2. /\ Len(Queued) = k
      /\ \A n \in 1..k : /\ Queued[n] = entries[(tail + (n - 1)) % Capacity]
                         /\ Queued[n] \in Change
    BY QueuedIs DEF k
<1>3. /\ Len(Queued') = k + 1
      /\ \A n \in 1..(k + 1) : Queued'[n] = entries'[(tail + (n - 1)) % Capacity]
    <2>1. QueuedOf(entries', head', tail') = Queued'
        BY DEF Queued, QueuedOf
    <2>2. ASSUME NEW ring \in [Slots -> Change], NEW h \in Slots, NEW t \in Slots
          PROVE  /\ Len(QueuedOf(ring, h, t)) = Count(h, t)
                 /\ \A n \in 1..Count(h, t) :
                        QueuedOf(ring, h, t)[n] = ring[(t + (n - 1)) % Capacity]
        BY QueuedOfIs
    <2>3. /\ Len(QueuedOf(entries', head', tail')) = Count(head', tail')
          /\ \A n \in 1..Count(head', tail') :
                QueuedOf(entries', head', tail')[n] = entries'[(tail' + (n - 1)) % Capacity]
        BY ONLY <1>1, <2>2, Zenon
    <2> QED BY <1>1, <2>1, <2>3
<1>4. ASSUME NEW n \in 1..k
      PROVE  (tail + (n - 1)) % Capacity \in Slots \ {head}
    <2>1. n - 1 \in 0..Capacity
        BY <1>a
    <2>2. (tail + (n - 1)) % Capacity =
            IF tail + (n - 1) >= Capacity THEN tail + (n - 1) - Capacity ELSE tail + (n - 1)
        BY <2>1, SlotOf
    <2> QED BY <1>0, <1>a, <2>2 DEF Slots
<1>5. (tail + ((k + 1) - 1)) % Capacity = head
    <2>1. k \in 0..Capacity /\ (k + 1) - 1 = k
        BY <1>a
    <2>2. (tail + k) % Capacity =
            IF tail + k >= Capacity THEN tail + k - Capacity ELSE tail + k
        BY <2>1, SlotOf
    <2> QED BY <1>0, <1>a, <2>1, <2>2
<1>6. \A n \in 1..k : Queued'[n] = Queued[n]
    BY <1>1, <1>2, <1>3, <1>4
<1>7. Queued'[k + 1] = change
    BY <1>1, <1>3, <1>5
<1> SUFFICES ASSUME NEW p \in Param
             PROVE  Applied(Queued)'[p] = IF p = change.parameter THEN change.value
                                          ELSE Applied(Queued)[p]
    BY DEF Effective
<1> DEFINE Own == {n \in 1..Len(Queued) : Queued[n].parameter = p}
           Own2 == {n \in 1..Len(Queued') : Queued'[n].parameter = p}
<1>8. /\ Applied(Queued)[p] = IF Own = {} THEN targets[p] ELSE Queued[Max(Own)].value
      /\ Applied(Queued)'[p] =
            IF Own2 = {} THEN targets[p] ELSE Queued'[Max(Own2)].value
    BY DEF Applied
<1> HIDE DEF Own, Own2
<1>9. CASE p = change.parameter
    <2>1. k + 1 \in Own2 /\ Own2 \subseteq Int /\ \A y \in Own2 : y <= k + 1
        BY <1>1, <1>3, <1>7, <1>9 DEF Own2
    <2>2. Max(Own2) = k + 1
        BY <2>1, MaxIs
    <2> QED BY <1>7, <1>8, <1>9, <2>1, <2>2
<1>10. CASE p # change.parameter
    <2>1. Own2 = Own
        BY <1>1, <1>2, <1>3, <1>6, <1>7, <1>10 DEF Own, Own2
    <2>2. Own # {} => Max(Own) \in 1..k
        BY <1>1, <1>2, MaxIn DEF Own
    <2> QED BY <1>6, <1>8, <1>10, <2>1, <2>2
<1> QED BY <1>9, <1>10

LEMMA EmptyRing ==
    ASSUME NEW ring \in [Slots -> Change], NEW h \in Slots
    PROVE  Len(QueuedOf(ring, h, h)) = 0
<1>1. h \in Int
    BY DEF Slots
<1>2. Count(h, h) = 0
    BY <1>1, CountCases
<1> QED BY <1>2, QueuedOfIs

LEMMA RoomIfEmpty ==
    ASSUME NEW h \in Slots
    PROVE  Increment(h) # h
BY IncrementWraps, BootAssumption DEF Slots

LEMMA EffectiveKept ==
    ASSUME UNCHANGED <<queueVars, targets>>
    PROVE  /\ \A p \in Param : Effective(p)' = Effective(p)
           /\ Full' = Full
BY DEF queueVars, Effective, Applied, Queued, Full, Increment

LEMMA ParamFacts ==
    /\ \A i \in 1..Len(Registry) : Registry[i] \in Param
    /\ \A p \in Param : Default[p] \in Value /\ Config[p] \in Value
    /\ \A p \in Param : \E i \in 1..Len(Registry) : p = Registry[i]
    /\ Len(Registry) \in Nat \ {0}
    /\ NoChange \in Change
<1>1. Len(Registry) \in Nat \ {0}
    BY BootAssumption
<1>2. /\ \A i \in 1..Len(Registry) : Registry[i] \in Param
      /\ \A p \in Param : \E i \in 1..Len(Registry) : p = Registry[i]
    BY DEF Param
<1>3. \A p \in Param : Default[p] \in Value /\ Config[p] \in Value
    BY BootAssumption
<1>4. Registry[1] \in Param
    BY <1>1, <1>2
<1>5. NoChange \in Change
    BY <1>3, <1>4 DEF NoChange, Change
<1> QED BY <1>1, <1>2, <1>3, <1>5

-----------------------------------------------------------------------------
LEMMA InitIInv == Init => IInv
<1> SUFFICES ASSUME Init PROVE IInv
    OBVIOUS
<1>1. 0 \in Slots
    BY BootAssumption DEF Slots
<1>2. TypeOK
    <2>1. values \in [Param -> Value] /\ early \subseteq Param
        BY BootAssumption DEF Init
    <2>2. entries \in [Slots -> Change] /\ head \in Slots /\ tail \in Slots
        BY <1>1, ParamFacts DEF Init
    <2>3. pushing \in [Task -> [change : Change, slot : Slots]]
        BY <1>1, ParamFacts DEF Init
    <2>4. sets \in Nat /\ seedNext \in Nat \ {0} /\ modeNext \in Nat \ {0}
        BY DEF Init
    <2> QED BY <2>1, <2>2, <2>3, <2>4 DEF Init, TypeOK
<1>3. OneProducer /\ Order /\ DefaultsUnlessEarly /\ SeedOnItsWay /\ Coherent
    BY DEF Init, OneProducer, Order, DefaultsUnlessEarly, SeedOnItsWay, Coherent
<1> QED BY <1>2, <1>3 DEF IInv

LEMMA LoadTyped ==
    ASSUME TypeOK, NEW task \in Task, NEW change \in Change, PushLoad(task, change)
    PROVE  /\ entries' \in [Slots -> Change] /\ head' \in Slots /\ tail' \in Slots
           /\ pushing' \in [Task -> [change : Change, slot : Slots]]
BY DEF TypeOK, PushLoad, queueVars

LEMMA StoreTyped ==
    ASSUME TypeOK, NEW task \in Task, PushStore(task)
    PROVE  /\ entries' \in [Slots -> Change] /\ head' \in Slots /\ tail' \in Slots
           /\ pushing' \in [Task -> [change : Change, slot : Slots]]
<1>1. pushing[task].change \in Change /\ pushing[task].slot \in Slots
    BY DEF TypeOK
<1> QED BY <1>1, IncrementWraps DEF TypeOK, PushStore

(* The types are kept by every step: what is pushed is a registered        *)
(* parameter with one of its values, and an index stays within the ring.   *)
LEMMA NextTyped ==
    ASSUME TypeOK, Next
    PROVE  TypeOK'
<1> USE DEF Task
<1>1. CASE SetRejected
    BY <1>1 DEF SetRejected, TypeOK, queueVars, coordinatorVars
<1>2. ASSUME NEW change \in Change, SetBegin(change) PROVE TypeOK'
    <2>1. PushLoad("control", change)
        BY <1>2 DEF SetBegin
    <2> QED BY <1>2, <2>1, LoadTyped DEF SetBegin, TypeOK, coordinatorVars
<1>3. CASE SetEnd
    <2>1. PushStore("control") /\ pushing["control"].change \in Change
        BY <1>3 DEF SetEnd, TypeOK
    <2>2. /\ pushing["control"].change.parameter \in Param
          /\ pushing["control"].change.value \in Value
        BY <2>1 DEF Change
    <2>3. values' \in [Param -> Value] /\ early' \subseteq Param
        BY <1>3, <2>2 DEF SetEnd, TypeOK
    <2>4. /\ entries' \in [Slots -> Change] /\ head' \in Slots /\ tail' \in Slots
          /\ pushing' \in [Task -> [change : Change, slot : Slots]]
        BY <2>1, StoreTyped
    <2>5. /\ control' = "idle"
          /\ UNCHANGED <<mode, coordinator, modeNext, ready, sets, seeded,
                         allAccepted, seedNext>>
        BY <1>3 DEF SetEnd, coordinatorVars
    <2> QED BY <2>3, <2>4, <2>5 DEF TypeOK
<1>4. CASE SeedBegin
    BY <1>4 DEF SeedBegin, TypeOK, queueVars, coordinatorVars
<1>5. CASE SeedRefused
    <2>1. seedNext' = seedNext + 1 /\ seedNext \in Nat \ {0} /\ allAccepted' = FALSE
        BY <1>5 DEF SeedRefused, TypeOK
    <2>2. allAccepted' \in BOOLEAN
        BY <2>1
    <2>3. seedNext' \in Nat \ {0}
        BY <2>1
    <2>4. UNCHANGED <<entries, head, tail, mode, control, coordinator, pushing,
                      values, early, sets, seeded, modeNext, ready>>
        BY <1>5 DEF SeedRefused, queueVars, coordinatorVars
    <2> QED BY <2>2, <2>3, <2>4 DEF TypeOK
<1>6. CASE SeedLoad
    <2> DEFINE change == [parameter |-> Registry[seedNext],
                          value |-> Default[Registry[seedNext]]]
    <2>1. seedNext \in 1..Len(Registry)
        BY <1>6, ParamFacts DEF SeedLoad, TypeOK
    <2>2. change \in Change
        BY <2>1, ParamFacts DEF Change
    <2>3. PushLoad("control", change)
        BY <1>6 DEF SeedLoad
    <2> HIDE DEF change
    <2>4. /\ entries' \in [Slots -> Change] /\ head' \in Slots /\ tail' \in Slots
          /\ pushing' \in [Task -> [change : Change, slot : Slots]]
        BY <2>2, <2>3, LoadTyped
    <2>5. /\ control' = "seed_store"
          /\ UNCHANGED <<mode, coordinator, modeNext, ready, values, early, sets,
                         seeded, allAccepted, seedNext>>
        BY <1>6 DEF SeedLoad, coordinatorVars
    <2> QED BY <2>4, <2>5 DEF TypeOK
<1>7. CASE SeedStore
    <2>1. PushStore("control")
        BY <1>7 DEF SeedStore
    <2> QED BY <1>7, <2>1, StoreTyped DEF SeedStore, TypeOK, coordinatorVars
<1>8. CASE SeedEnd
    BY <1>8 DEF SeedEnd, TypeOK, queueVars, coordinatorVars
<1>9. CASE InitReset
    BY <1>9 DEF InitReset, TypeOK, controlVars
<1>10. CASE InitReady
    BY <1>10 DEF InitReady, TypeOK, queueVars, controlVars
<1>11. CASE ModeRefused
    BY <1>11 DEF ModeRefused, TypeOK, queueVars, controlVars
<1>12. CASE ModeLoad
    <2>1. mode[modeNext] \in Change
        <3>1. mode \in Seq(Change) /\ modeNext \in 1..Len(mode)
            BY <1>12, BootAssumption DEF ModeLoad, TypeOK
        <3> QED BY <3>1
    <2>2. PushLoad("coordinator", mode[modeNext])
        BY <1>12 DEF ModeLoad
    <2> QED BY <1>12, <2>1, <2>2, LoadTyped DEF ModeLoad, TypeOK, controlVars
<1>13. CASE ModeStore
    <2>1. PushStore("coordinator")
        BY <1>13 DEF ModeStore
    <2> QED BY <1>13, <2>1, StoreTyped DEF ModeStore, TypeOK, controlVars
<1>14. CASE StartPipeline
    BY <1>14 DEF StartPipeline, TypeOK, queueVars, controlVars
<1>15. CASE Drain
    BY <1>15 DEF Drain, TypeOK, controlVars, coordinatorVars
<1>16. CASE CoordinatorEnds
    BY <1>16 DEF CoordinatorEnds, InitFails, PipelineFails, StopPipeline, TypeOK,
                 queueVars, controlVars
<1> QED BY <1>1, <1>2, <1>3, <1>4, <1>5, <1>6, <1>7, <1>8, <1>9, <1>10, <1>11,
           <1>12, <1>13, <1>14, <1>15, <1>16 DEF Next, ClientSet, Control, Coordinator

(* Every step keeps what the control task relies on.                        *)
SeedInv == OneProducer /\ Order /\ DefaultsUnlessEarly /\ SeedOnItsWay /\ Coherent

LEMMA ControlStoreAdds ==
    ASSUME TypeOK, SeedInv, control \in {"set", "seed_store"}, PushStore("control"),
           targets' = targets
    PROVE  LET change == pushing["control"].change
           IN  /\ change \in Change
               /\ \A p \in Param : Effective(p)' =
                    IF p = change.parameter THEN change.value ELSE Effective(p)
<1>1. /\ pushing["control"].slot = head /\ ~Full
      /\ pushing["control"].change \in Change
    BY DEF SeedInv, OneProducer, TypeOK, Task
<1> QED BY <1>1, StoreAdds DEF PushStore, TypeOK

LEMMA NextSeeds ==
    ASSUME TypeOK, mode = <<>>, SeedInv, Next
    PROVE  SeedInv'
<1> USE DEF SeedInv
<1>1. CASE SetRejected
    <2>1. UNCHANGED <<queueVars, targets>>
        BY <1>1 DEF SetRejected
    <2> QED BY <1>1, <2>1, EffectiveKept, ParamFacts
            DEF SetRejected, queueVars, coordinatorVars, OneProducer, Order,
                DefaultsUnlessEarly, SeedOnItsWay, Coherent
<1>2. ASSUME NEW change \in Change, SetBegin(change) PROVE SeedInv'
    <2>1. UNCHANGED <<queueVars, targets>>
        BY <1>2 DEF SetBegin, PushLoad
    <2>2. ~Full /\ pushing'["control"].slot = head
        BY <1>2 DEF SetBegin, PushLoad, TypeOK, Task
    <2> QED BY <1>2, <2>1, <2>2, EffectiveKept
            DEF SetBegin, queueVars, coordinatorVars, OneProducer, Order,
                DefaultsUnlessEarly, SeedOnItsWay, Coherent
<1>3. CASE SetEnd
    <2> DEFINE change == pushing["control"].change
    <2>1. /\ change \in Change
          /\ \A p \in Param : Effective(p)' =
                IF p = change.parameter THEN change.value ELSE Effective(p)
        BY <1>3, ControlStoreAdds DEF SetEnd
    <2>2. /\ control' = "idle" /\ seeded' = seeded /\ ready' = ready
          /\ coordinator' = coordinator
          /\ values' = [values EXCEPT ![change.parameter] = change.value]
          /\ early' = IF seeded THEN early \ {change.parameter}
                      ELSE early \union {change.parameter}
        BY <1>3 DEF SetEnd, coordinatorVars
    <2>3. change.parameter \in Param
        BY <2>1 DEF Change
    <2> HIDE DEF change
    <2>4. OneProducer' /\ Order' /\ SeedOnItsWay'
        BY <2>2 DEF OneProducer, Order, SeedOnItsWay
    <2>5. DefaultsUnlessEarly'
        BY <2>2, <2>3 DEF DefaultsUnlessEarly, TypeOK
    <2>6. Coherent'
        BY <2>1, <2>2, <2>3 DEF Coherent, TypeOK
    <2> QED BY <2>4, <2>5, <2>6
<1>4. CASE SeedBegin
    <2>1. UNCHANGED <<queueVars, targets>>
        BY <1>4 DEF SeedBegin
    <2> QED BY <1>4, <2>1, EffectiveKept
            DEF SeedBegin, queueVars, coordinatorVars, OneProducer, Order,
                DefaultsUnlessEarly, SeedOnItsWay, Coherent
<1>5. CASE SeedRefused
    <2>1. UNCHANGED <<queueVars, targets>>
        BY <1>5 DEF SeedRefused
    <2> QED BY <1>5, <2>1, EffectiveKept
            DEF SeedRefused, queueVars, coordinatorVars, OneProducer, Order,
                DefaultsUnlessEarly, SeedOnItsWay, Coherent
<1>6. CASE SeedLoad
    <2>1. UNCHANGED <<queueVars, targets>>
        BY <1>6 DEF SeedLoad, PushLoad
    <2>2. /\ ~Full /\ pushing'["control"].slot = head
          /\ pushing'["control"].change = [parameter |-> Registry[seedNext],
                                           value |-> Default[Registry[seedNext]]]
        BY <1>6 DEF SeedLoad, PushLoad, TypeOK, Task
    <2>3. /\ control = "seed" /\ control' = "seed_store"
          /\ seedNext \in 1..Len(Registry)
          /\ UNCHANGED <<values, early, seeded, allAccepted, seedNext, coordinator,
                         ready, head>>
        BY <1>6, ParamFacts DEF SeedLoad, PushLoad, TypeOK, queueVars, coordinatorVars
    <2>4. OneProducer' /\ Order'
        BY <2>1, <2>2, <2>3, EffectiveKept DEF OneProducer, Order
    <2>5. DefaultsUnlessEarly' /\ Coherent'
        BY <2>1, <2>3, EffectiveKept DEF DefaultsUnlessEarly, Coherent
    <2>6. SeedOnItsWay'
        BY <2>1, <2>3, EffectiveKept, ParamFacts DEF SeedOnItsWay
    <2> QED BY <2>4, <2>5, <2>6
<1>7. CASE SeedStore
    <2>1. /\ control = "seed_store" /\ control' = "seed" /\ seedNext' = seedNext + 1
          /\ UNCHANGED <<values, early, seeded, allAccepted, coordinator, ready>>
        BY <1>7 DEF SeedStore, coordinatorVars
    <2>2. /\ seedNext \in 1..Len(Registry) /\ ready /\ ~seeded
          /\ pushing["control"].change = [parameter |-> Registry[seedNext],
                                          value |-> Default[Registry[seedNext]]]
        BY <2>1 DEF Order
    <2>3. \A p \in Param : Effective(p)' =
                IF p = Registry[seedNext] THEN Default[Registry[seedNext]]
                ELSE Effective(p)
        BY <1>7, <2>1, <2>2, ControlStoreAdds DEF SeedStore
    <2>4. OneProducer' /\ Order' /\ DefaultsUnlessEarly' /\ Coherent'
        BY <2>1, <2>2 DEF OneProducer, Order, DefaultsUnlessEarly, Coherent
    <2>5. SeedOnItsWay'
        <3>1. SUFFICES ASSUME allAccepted, NEW i \in 1..Len(Registry), i < seedNext + 1
                       PROVE  Effective(Registry[i])' = Default[Registry[i]]
            BY <2>1 DEF SeedOnItsWay
        <3>2. CASE i = seedNext
            BY <2>3, <3>2, ParamFacts
        <3>3. CASE i # seedNext
            <4>1. i < seedNext
                BY <2>2, <3>1, <3>3
            <4>2. Effective(Registry[i]) = Default[Registry[i]]
                BY <2>1, <3>1, <4>1 DEF SeedOnItsWay
            <4> QED BY <2>3, <4>2, ParamFacts
        <3> QED BY <3>2, <3>3
    <2> QED BY <2>4, <2>5
<1>8. CASE SeedEnd
    <2>1. UNCHANGED <<queueVars, targets>>
        BY <1>8 DEF SeedEnd
    <2>2. /\ control = "seed" /\ seedNext > Len(Registry)
          /\ control' = "idle" /\ seeded' = allAccepted
          /\ UNCHANGED <<values, early, coordinator, ready>>
        BY <1>8 DEF SeedEnd, coordinatorVars
    <2>3. OneProducer' /\ Order' /\ SeedOnItsWay' /\ DefaultsUnlessEarly'
        BY <2>2 DEF OneProducer, Order, SeedOnItsWay, DefaultsUnlessEarly
    <2>4. ASSUME allAccepted, NEW p \in Param \ early
          PROVE  Effective(p) = values[p]
        <3>1. PICK i \in 1..Len(Registry) : p = Registry[i]
            BY ParamFacts
        <3>2. i < seedNext
            BY <2>2, ParamFacts DEF TypeOK
        <3>3. Effective(p) = Default[p]
            BY <2>2, <2>4, <3>1, <3>2 DEF SeedOnItsWay
        <3> QED BY <2>2, <2>4, <3>3 DEF DefaultsUnlessEarly, Order
    <2>5. Coherent'
        BY <2>1, <2>2, <2>4, EffectiveKept DEF Coherent
    <2> QED BY <2>3, <2>5
<1>9. CASE InitReset
    <2>1. /\ control' = control /\ seeded' = seeded /\ ready' = ready
          /\ UNCHANGED <<values, early, seeded, head, pushing>>
          /\ tail' = head /\ coordinator = "delay" /\ coordinator' = "init"
        BY <1>9 DEF InitReset, controlVars
    <2>2. ~ready /\ ~seeded /\ control \notin {"seed", "seed_store"}
        BY <2>1 DEF Order
    <2>3. ~Full'
        BY <2>1, RoomIfEmpty DEF Full, TypeOK, Increment
    <2> QED BY <2>1, <2>2, <2>3
            DEF OneProducer, Order, DefaultsUnlessEarly, SeedOnItsWay, Coherent
<1>10. CASE InitReady
    <2>1. UNCHANGED <<queueVars, targets>>
        BY <1>10 DEF InitReady
    <2> QED BY <1>10, <2>1, EffectiveKept, ParamFacts
            DEF InitReady, queueVars, controlVars, OneProducer, Order,
                DefaultsUnlessEarly, SeedOnItsWay, Coherent
<1>11. ~ModeRefused /\ ~ModeLoad
    <2>1. Len(mode) = 0
        OBVIOUS
    <2> QED BY <2>1 DEF ModeRefused, ModeLoad, TypeOK
<1>12. ~ModeStore
    BY DEF ModeStore, OneProducer
<1>13. CASE StartPipeline
    <2>1. UNCHANGED <<queueVars, targets>>
        BY <1>13 DEF StartPipeline
    <2> QED BY <1>13, <2>1, EffectiveKept, ParamFacts
            DEF StartPipeline, queueVars, controlVars, OneProducer, Order,
                DefaultsUnlessEarly, SeedOnItsWay, Coherent
<1>14. CASE Drain
    <2>1. /\ targets' = Applied(Queued) /\ tail' = head
          /\ UNCHANGED <<entries, head, pushing, control, values, early, seeded,
                         allAccepted, seedNext, coordinator, ready>>
        BY <1>14 DEF Drain, controlVars, coordinatorVars
    <2>2. \A p \in Param : Effective(p)' = Effective(p)
        <3>1. Queued' = QueuedOf(entries, head, head)
            BY <2>1 DEF Queued, QueuedOf
        <3>2. Len(Queued') = 0
            BY <3>1, EmptyRing DEF TypeOK
        <3>3. ASSUME NEW p \in Param
              PROVE  {n \in 1..Len(Queued') : Queued'[n].parameter = p} = {}
            BY <3>2
        <3>4. \A p \in Param : Effective(p)' = targets'[p]
            BY <3>3 DEF Effective, Applied
        <3> QED BY <2>1, <3>4 DEF Effective
    <2>3. ~Full'
        BY <2>1, RoomIfEmpty DEF Full, TypeOK, Increment
    <2> QED BY <2>1, <2>2, <2>3, ParamFacts
            DEF OneProducer, Order, DefaultsUnlessEarly, SeedOnItsWay, Coherent
<1>15. CASE CoordinatorEnds
    <2>1. /\ UNCHANGED <<queueVars, controlVars, targets, ready, pushing>>
          /\ coordinator' \in {"failed", "stopped"}
        BY <1>15 DEF CoordinatorEnds, InitFails, PipelineFails, StopPipeline
    <2>2. OneProducer' /\ DefaultsUnlessEarly' /\ SeedOnItsWay' /\ Coherent'
        BY <2>1, EffectiveKept, ParamFacts
           DEF queueVars, controlVars, OneProducer, DefaultsUnlessEarly,
               SeedOnItsWay, Coherent
    <2>3. Order'
        BY <2>1 DEF queueVars, controlVars, Order
    <2> QED BY <2>2, <2>3
<1> QED BY <1>1, <1>2, <1>3, <1>4, <1>5, <1>6, <1>7, <1>8, <1>9, <1>10, <1>11,
           <1>12, <1>13, <1>14, <1>15 DEF Next, ClientSet, Control, Coordinator

LEMMA NextIInv == IInv /\ [Next]_vars => IInv'
<1> SUFFICES ASSUME IInv, [Next]_vars PROVE IInv'
    OBVIOUS
<1>1. CASE Next
    <2>1. mode' = mode
        BY <1>1 DEF Next, ClientSet, Control, Coordinator, SetRejected, SetBegin,
                    SetEnd, SeedBegin, SeedRefused, SeedLoad, SeedStore, SeedEnd,
                    InitReset, InitReady, ModeRefused, ModeLoad, ModeStore,
                    StartPipeline, CoordinatorEnds, InitFails, PipelineFails,
                    StopPipeline, Drain, coordinatorVars
    <2> QED BY <1>1, <2>1, NextTyped, NextSeeds DEF IInv, SeedInv
<1>2. CASE UNCHANGED vars
    <2>1. /\ UNCHANGED <<entries, head, tail, mode, control, coordinator, pushing,
                         values, early, sets, seeded, allAccepted, seedNext,
                         modeNext, ready, targets>>
          /\ UNCHANGED <<queueVars, targets>>
        BY <1>2 DEF vars, queueVars, controlVars, coordinatorVars
    <2>2. TypeOK' = TypeOK
        BY <2>1 DEF TypeOK
    <2>3. (OneProducer /\ Order /\ DefaultsUnlessEarly)' =
            (OneProducer /\ Order /\ DefaultsUnlessEarly)
        BY <2>1, EffectiveKept DEF OneProducer, Order, DefaultsUnlessEarly
    <2>4. SeedInv => SeedOnItsWay' /\ Coherent'
        BY <2>1, EffectiveKept, ParamFacts DEF SeedInv, SeedOnItsWay, Coherent
    <2> QED BY <2>1, <2>2, <2>3, <2>4 DEF IInv, SeedInv
<1> QED BY <1>1, <1>2 DEF vars

-----------------------------------------------------------------------------
(* The inductive invariant holds in every reachable state.                  *)
THEOREM Inductive == Spec => []IInv
BY InitIInv, NextIInv, PTL DEF Spec

(* The types of the state: the ring holds registered parameters with their  *)
(* values, and its indices stay within it.                                  *)
THEOREM TypeCorrect == Spec => []TypeOK
<1>1. IInv => TypeOK
    BY DEF IInv
<1> QED BY <1>1, Inductive, PTL

(* With the control task as the only producer, a SET acknowledged after     *)
(* seeding is never lost: its value is in the engine or on its way there,   *)
(* and no default of the seeding overtakes it.                              *)
THEOREM SetsArrive == Spec => []AcceptedSetsArrive
<1>1. IInv => AcceptedSetsArrive
    BY DEF IInv, Coherent, Effective, AcceptedSetsArrive
<1> QED BY <1>1, Inductive, PTL
=============================================================================
