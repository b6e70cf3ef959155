--------------------------- MODULE PitchPath_proof ---------------------------
(***************************************************************************)
(* The gate of the pitch path, the feed behind it, and the two together,   *)
(* for every capacity, window, hop and finite set of tasks.                *)
(***************************************************************************)
EXTENDS PitchPath, FiniteSetTheorems, TLAPS

-----------------------------------------------------------------------------
(***************************************************************************)
(* That a reset has the pitch analysis to itself, for every finite set of  *)
(* tasks.  The argument: the count is exact, bit 31 is set exactly while   *)
(* a reset is on, and a swap that succeeds proves the bit was clear at     *)
(* that very moment, whenever the expected word was loaded.                *)
(***************************************************************************)

FlagExact == resetting <=> resetter # "idle"

(* ResetIsAlone is not inductive by itself: that the reset found a count   *)
(* of zero means nothing unless the count is exact, and that nobody enters *)
(* later needs the flag.                                                   *)
IInv == TypeOK /\ CountExact /\ FlagExact /\ ResetIsAlone

LEMMA InsideFinite == IsFiniteSet(Inside)
BY UserAssumption, FS_Subset DEF Inside

(* The count follows one task that enters, ...                             *)
LEMMA InsideGrows ==
    ASSUME TypeOK, NEW u \in User, user[u] # "in",
           user' = [user EXCEPT ![u] = "in"]
    PROVE  Cardinality(Inside') = Cardinality(Inside) + 1
<1>1. Inside' = Inside \union {u} /\ u \notin Inside  BY DEF Inside, TypeOK
<1> QED  BY <1>1, InsideFinite, FS_AddElement

(* ... and one that leaves.                                                *)
LEMMA InsideShrinks ==
    ASSUME TypeOK, NEW u \in User, user[u] = "in",
           user' = [user EXCEPT ![u] = "out"]
    PROVE  Cardinality(Inside') = Cardinality(Inside) - 1
<1>1. Inside' = Inside \ {u} /\ u \in Inside  BY DEF Inside, TypeOK
<1> QED  BY <1>1, InsideFinite, FS_RemoveElement

LEMMA InsideKept ==
    ASSUME TypeOK, NEW u \in User, NEW place \in {"out", "enter"},
           user[u] # "in", user' = [user EXCEPT ![u] = place]
    PROVE  Inside' = Inside
BY DEF Inside, TypeOK

LEMMA InitIInv == Init => IInv
<1> SUFFICES ASSUME Init PROVE IInv
    OBVIOUS
<1>1. TypeOK  BY DEF Init, TypeOK, Word, PitchUsers
<1>2. Inside = {}  BY DEF Init, Inside
<1>3. CountExact  BY <1>2, FS_EmptySet DEF Init, CountExact
<1> QED  BY <1>1, <1>2, <1>3 DEF Init, IInv, FlagExact, ResetIsAlone, Alone

LEMMA TaskIInv ==
    ASSUME IInv, NEW u \in User, Task(u)
    PROVE  IInv'
<1> USE DEF IInv, FlagExact, ResetIsAlone, CountExact, Alone
<1>1. CASE Try(u)
  <2>1. TypeOK'  BY <1>1 DEF Try, TypeOK, Word, PitchUsers
  <2>2. Inside' = Inside  BY <1>1, InsideKept DEF Try
  <2> QED  BY <1>1, <2>1, <2>2 DEF Try
<1>2. CASE Refused(u)
  <2>1. TypeOK'  BY <1>2 DEF Refused, TypeOK
  <2>2. Inside' = Inside  BY <1>2, InsideKept DEF Refused
  <2> QED  BY <1>2, <2>1, <2>2 DEF Refused
<1>3. CASE Enter(u)
  <2>1. TypeOK'  BY <1>3 DEF Enter, TypeOK
  <2>2. resetting = FALSE  BY <1>3 DEF Enter, PitchUsers
  <2>3. Cardinality(Inside') = Cardinality(Inside) + 1
        BY <1>3, InsideGrows DEF Enter
  <2> QED  BY <1>3, <2>1, <2>2, <2>3 DEF Enter
<1>4. CASE EnterFails(u)
  <2>1. TypeOK'  BY <1>4 DEF EnterFails, TypeOK, Word, PitchUsers
  <2>2. Inside' = Inside  BY <1>4 DEF EnterFails, Inside
  <2> QED  BY <1>4, <2>1, <2>2 DEF EnterFails
<1>5. CASE Leave(u)
  <2>1. Cardinality(Inside') = Cardinality(Inside) - 1
        BY <1>5, InsideShrinks DEF Leave
  <2>2. Cardinality(Inside) \in Nat /\ Cardinality(Inside) # 0
        BY <1>5, InsideFinite, FS_CardinalityType, FS_EmptySet DEF Leave, Inside
  <2>3. TypeOK'  BY <1>5, <2>2 DEF Leave, TypeOK
  <2>4. ~Alone  BY <1>5 DEF Leave, Inside
  <2> QED  BY <1>5, <2>1, <2>3, <2>4 DEF Leave
<1> QED  BY <1>1, <1>2, <1>3, <1>4, <1>5 DEF Task

LEMMA ResetterIInv ==
    ASSUME IInv, Resetter
    PROVE  IInv'
<1> USE DEF IInv, FlagExact, ResetIsAlone, CountExact, Alone
<1>0. Inside' = Inside
      BY DEF Inside, Resetter, Shut, ResetAlone, InitAlone, InitDone, Reopen
<1>1. ASSUME NEW then \in {"wait_reset", "wait_init"}, Shut(then)
      PROVE  IInv'
  <2>1. TypeOK'  BY <1>1 DEF Shut, TypeOK
  <2> QED  BY <1>0, <1>1, <2>1 DEF Shut
<1>2. users = 0 => Inside = {}  BY InsideFinite, FS_EmptySet
<1>3. CASE ResetAlone
  <2>1. TypeOK'  BY <1>3 DEF ResetAlone, TypeOK
  <2> QED  BY <1>0, <1>2, <1>3, <2>1 DEF ResetAlone
<1>4. CASE InitAlone
  <2>1. TypeOK'  BY <1>4 DEF InitAlone, TypeOK
  <2> QED  BY <1>0, <1>2, <1>4, <2>1 DEF InitAlone
<1>5. CASE InitDone
  <2>1. TypeOK'  BY <1>5 DEF InitDone, TypeOK
  <2> QED  BY <1>0, <1>5, <2>1 DEF InitDone
<1>6. CASE Reopen
  <2>1. TypeOK'  BY <1>6 DEF Reopen, TypeOK
  <2>2. Cardinality(Inside') = 0  BY <1>0, <1>6, FS_EmptySet DEF Reopen
  <2> QED  BY <1>6, <2>1, <2>2 DEF Reopen
<1> QED  BY <1>1, <1>3, <1>4, <1>5, <1>6 DEF Resetter

(* Every step of the gate preserves the inductive invariant.               *)
THEOREM Inductive == Spec => []IInv
<1>1. IInv /\ [Next]_vars => IInv'
  <2> SUFFICES ASSUME IInv, [Next]_vars PROVE IInv'
      OBVIOUS
  <2>1. CASE Resetter  BY <2>1, ResetterIInv
  <2>2. ASSUME NEW u \in User, Task(u) PROVE IInv'  BY <2>2, TaskIInv
  <2>3. CASE UNCHANGED vars
        BY <2>3 DEF vars, IInv, TypeOK, CountExact, FlagExact, ResetIsAlone,
                    Alone, Inside
  <2> QED  BY <2>1, <2>2, <2>3 DEF Next
<1> QED  BY InitIInv, <1>1, PTL DEF Spec

(* The word, the tasks and the coordinator keep their types; the count in  *)
(* particular never falls below 0.                                         *)
THEOREM TypeCorrect == Spec => []TypeOK
BY Inductive, PTL DEF IInv

(* The word counts exactly the tasks inside the gate: neither a failed     *)
(* swap nor the reset's store of 0 ever loses one.                         *)
THEOREM Counted == Spec => []CountExact
BY Inductive, PTL DEF IInv

(* While the coordinator resets or initializes the analysis, neither the   *)
(* audio task nor the pitch worker is inside it.                           *)
THEOREM ResetExcludes == Spec => []ResetIsAlone
BY Inductive, PTL DEF IInv

-----------------------------------------------------------------------------
(***************************************************************************)
(* What the analysis takes out of the FIFO and what it keeps of it, for    *)
(* every capacity, window and hop.  The actions alone: who takes them when *)
(* is PitchPath, and so are the theorems.                                  *)
(***************************************************************************)

FeedTypes ==
    /\ data \in [Index -> Nat] /\ head \in Index /\ tail \in Index
    /\ input \in Nat /\ sample \in Nat /\ previous \in Nat
    /\ tap \in {"idle", "store", "publish"}
    /\ worker \in {"idle", "copy", "advance", "take"}

-----------------------------------------------------------------------------
(* The FIFO *)

(* How far an index lies ahead of another, around the ring. *)
Ahead(i, from) == IF i >= from THEN i - from ELSE i - from + Capacity
Live(i) == Ahead(i, tail) < Ahead(head, tail)

(* Entries are in order, newer than what was taken, and no newer than the  *)
(* input; one that is being pushed is newer than all of them.              *)
EntriesOrdered ==
    \A i, j \in Index :
        Live(i) /\ Live(j) /\ Ahead(i, tail) < Ahead(j, tail) => data[i] < data[j]
EntriesNew ==
    \A i \in Index : Live(i) =>
        /\ previous < data[i] /\ data[i] <= input
        /\ tap # "idle" => data[i] < input
        /\ worker = "take" => sample < data[i]
Pushing ==
    /\ tap # "idle" => HasRoom /\ previous < input
    /\ tap = "publish" => data[head] = input
    /\ tap # "idle" /\ worker = "take" => sample < input

(* The entry that is being popped stays what it was copied as. *)
Popping ==
    /\ worker \in {"copy", "advance"} => head # tail
    /\ worker = "advance" => sample = data[tail]
    /\ worker = "take" => previous < sample /\ sample <= input
    /\ previous <= input

FifoInv == FeedTypes /\ EntriesOrdered /\ EntriesNew /\ Pushing /\ Popping

LEMMA FollowingIs ==
    \A i \in Index : Following(i) = IF i = Capacity - 1 THEN 0 ELSE i + 1
BY FeedAssumption DEF Index, Following

LEMMA FollowingIndex == \A i \in Index : Following(i) \in Index
BY FollowingIs, FeedAssumption DEF Index

LEMMA AheadOf ==
    ASSUME NEW i \in Index, NEW t \in Index
    PROVE  /\ Ahead(i, t) \in 0..(Capacity - 1)
           /\ Ahead(i, t) = 0 <=> i = t
           /\ i # t => Ahead(i, Following(t)) = Ahead(i, t) - 1
           /\ Ahead(t, Following(t)) = Capacity - 1
           /\ Following(i) # t => Ahead(Following(i), t) = Ahead(i, t) + 1
BY FollowingIs, FeedAssumption DEF Index, Ahead

LEMMA AheadApart ==
    ASSUME NEW i \in Index, NEW j \in Index, NEW t \in Index, Ahead(i, t) = Ahead(j, t)
    PROVE  i = j
BY FeedAssumption DEF Index, Ahead

LEMMA InitFifo == FeedInit => FifoInv
<1> SUFFICES ASSUME FeedInit PROVE FifoInv
    OBVIOUS
<1>1. 0 \in Index  BY FeedAssumption DEF Index
<1>2. FeedTypes  BY <1>1 DEF FeedInit, FeedTypes
<1>3. \A i \in Index : ~Live(i)
    BY FeedAssumption DEF FeedInit, Live, Ahead, Index
<1> QED  BY <1>2, <1>3 DEF FifoInv, FeedInit, EntriesOrdered, EntriesNew, Pushing, Popping

LEMMA PushBeginFifo == ASSUME FifoInv, PushBegin PROVE FifoInv'
<1> USE DEF FifoInv, FeedTypes, PushBegin, fifoVars, windowVars
<1>1. FeedTypes'  OBVIOUS
<1>2. \A i \in Index : Live(i)' <=> Live(i)  BY DEF Live, Ahead
<1>3. EntriesOrdered'  BY <1>2 DEF EntriesOrdered, Ahead
<1>4. EntriesNew'  BY <1>2 DEF EntriesNew
<1>5. Pushing' /\ Popping'  BY DEF Pushing, Popping, HasRoom
<1> QED  BY <1>1, <1>3, <1>4, <1>5

LEMMA PushStoreFifo == ASSUME FifoInv, PushStore PROVE FifoInv'
<1> USE DEF FifoInv, FeedTypes, PushStore, windowVars
<1>1. FeedTypes'  OBVIOUS
<1>2. \A i \in Index : Live(i)' <=> Live(i)  BY DEF Live, Ahead
<1>3. ~Live(head)  BY AheadOf DEF Live
<1>4. \A i \in Index : Live(i) => data'[i] = data[i]  BY <1>3
<1>5. EntriesOrdered'  BY <1>2, <1>4 DEF EntriesOrdered, Ahead
<1>6. EntriesNew'  BY <1>2, <1>4 DEF EntriesNew
<1>7. Pushing' /\ Popping'  BY DEF Pushing, Popping, HasRoom
<1> QED  BY <1>1, <1>5, <1>6, <1>7

(* The index that was head becomes the newest entry. *)
LEMMA PushPublishFifo == ASSUME FifoInv, PushPublish PROVE FifoInv'
<1> USE DEF FifoInv, FeedTypes, PushPublish, windowVars
<1>1. FeedTypes'  BY FollowingIndex
<1>2. Ahead(head', tail') = Ahead(head, tail) + 1
    BY AheadOf DEF Pushing, HasRoom
<1>3. \A i \in Index : Live(i)' => Live(i) \/ i = head
  <2> TAKE i \in Index
  <2>1. Ahead(i, tail) \in Nat /\ Ahead(head, tail) \in Nat  BY AheadOf
  <2>2. Ahead(i, tail)' = Ahead(i, tail)  BY DEF Ahead
  <2> QED  BY <1>2, <2>1, <2>2, AheadApart DEF Live
<1>4. data[head] = input /\ data' = data /\ input' = input  BY DEF Pushing
<1>5. \A i \in Index : Live(i) => data[i] < input  BY DEF EntriesNew
<1>6. EntriesOrdered'
  <2> SUFFICES ASSUME NEW i \in Index, NEW j \in Index, Live(i)', Live(j)',
                      Ahead(i, tail)' < Ahead(j, tail)'
               PROVE  data[i] < data[j]
      BY <1>4 DEF EntriesOrdered
  <2>1. Ahead(i, tail) < Ahead(j, tail)  BY DEF Ahead
  <2>2. CASE i = head
    <3>1. Ahead(j, tail) < Ahead(head, tail) + 1  BY <1>2 DEF Live, Ahead
    <3>2. Ahead(j, tail) \in Nat /\ Ahead(head, tail) \in Nat  BY AheadOf
    <3> QED  BY <2>1, <2>2, <3>1, <3>2
  <2>3. CASE i # head /\ j = head  BY <1>3, <1>4, <1>5, <2>3
  <2>4. CASE i # head /\ j # head  BY <1>3, <2>1, <2>4 DEF EntriesOrdered
  <2> QED  BY <2>2, <2>3, <2>4
<1>7. EntriesNew'  BY <1>3, <1>4 DEF EntriesNew, Pushing
<1>8. Pushing'  BY DEF Pushing
<1>9. Popping'
    BY FollowingIndex DEF Popping, Pushing, HasRoom
<1> QED  BY <1>1, <1>6, <1>7, <1>8, <1>9

LEMMA PopFifo == ASSUME FifoInv, PopBegin \/ PopCopy PROVE FifoInv'
<1> USE DEF FifoInv, FeedTypes, PopBegin, PopCopy, fifoVars, windowVars
<1>1. FeedTypes'  OBVIOUS
<1>2. \A i \in Index : Live(i)' <=> Live(i)  BY DEF Live, Ahead
<1>3. EntriesOrdered'  BY <1>2 DEF EntriesOrdered, Ahead
<1>4. EntriesNew'  BY <1>2 DEF EntriesNew
<1>5. Pushing' /\ Popping'  BY DEF Pushing, Popping, HasRoom
<1> QED  BY <1>1, <1>3, <1>4, <1>5

(* What is popped is older than every entry that stays. *)
LEMMA PopAdvanceFifo == ASSUME FifoInv, PopAdvance PROVE FifoInv'
<1> USE DEF FifoInv, FeedTypes, PopAdvance, windowVars
<1>1. FeedTypes'  BY FollowingIndex
<1>2. head # tail /\ sample = data[tail]  BY DEF Popping
<1>3. Ahead(head, tail') = Ahead(head, tail) - 1  BY <1>2, AheadOf
<1>4. \A i \in Index : Live(i)' =>
          Live(i) /\ i # tail /\ Ahead(i, tail') = Ahead(i, tail) - 1
  <2> SUFFICES ASSUME NEW i \in Index, Live(i)'
               PROVE  Live(i) /\ i # tail /\ Ahead(i, tail') = Ahead(i, tail) - 1
      OBVIOUS
  <2>1. Ahead(i, tail') < Ahead(head, tail) - 1  BY <1>3 DEF Live, Ahead
  <2>2. Ahead(i, tail) \in Nat /\ Ahead(head, tail) \in 0..(Capacity - 1)  BY AheadOf
  <2>3. i # tail
    <3> SUFFICES ASSUME i = tail PROVE FALSE
        OBVIOUS
    <3>1. Ahead(tail, Following(tail)) = Capacity - 1  BY AheadOf
    <3> QED  BY <2>1, <2>2, <3>1, FeedAssumption
  <2>4. Ahead(i, tail') = Ahead(i, tail) - 1  BY <2>3, AheadOf
  <2> QED  BY <2>1, <2>2, <2>3, <2>4 DEF Live
<1>5. Live(tail) /\ Ahead(tail, tail) = 0
  <2>1. Ahead(tail, tail) = 0 /\ Ahead(head, tail) # 0 /\ Ahead(head, tail) \in Nat
      BY <1>2, AheadOf
  <2> QED  BY <2>1 DEF Live
<1>6. \A i \in Index : Live(i)' => sample < data[i]
  <2> SUFFICES ASSUME NEW i \in Index, Live(i)' PROVE data[tail] < data[i]
      BY <1>2
  <2>1. Live(i) /\ i # tail  BY <1>4
  <2>2. Ahead(i, tail) # 0 /\ Ahead(i, tail) \in Nat  BY <2>1, AheadOf
  <2> QED  BY <1>5, <2>1, <2>2 DEF EntriesOrdered
<1>7. EntriesOrdered'
  <2> SUFFICES ASSUME NEW i \in Index, NEW j \in Index, Live(i)', Live(j)',
                      Ahead(i, tail') < Ahead(j, tail')
               PROVE  data[i] < data[j]
      BY DEF EntriesOrdered, Ahead
  <2>1. Live(i) /\ Live(j)  BY <1>4
  <2>2. Ahead(i, tail) < Ahead(j, tail)
    <3>1. Ahead(i, tail) \in Nat /\ Ahead(j, tail) \in Nat  BY AheadOf
    <3> QED  BY <1>4, <3>1
  <2> QED  BY <2>1, <2>2 DEF EntriesOrdered
<1>8. EntriesNew'  BY <1>4, <1>6 DEF EntriesNew
<1>9. previous < sample /\ sample <= input /\ (tap # "idle" => sample < input)
    BY <1>2, <1>5 DEF EntriesNew
<1>10. Popping'  BY <1>9 DEF Popping
<1>11. Pushing'
    BY <1>2, <1>9, FollowingIs DEF Pushing, HasRoom, Index
<1> QED  BY <1>1, <1>7, <1>8, <1>10, <1>11

LEMMA TakeFifo == ASSUME FifoInv, Take \/ TakeHop PROVE FifoInv'
<1> USE DEF FifoInv, FeedTypes
<1>0. /\ UNCHANGED <<data, head, tail, input, tap, sample>>
      /\ worker = "take" /\ worker' = "idle" /\ previous' = sample
    BY DEF Take, TakeHop, TakeSample, fifoVars
<1>1. FeedTypes'  BY <1>0
<1>2. \A i \in Index : Live(i)' <=> Live(i)  BY <1>0 DEF Live, Ahead
<1>3. EntriesOrdered'  BY <1>0, <1>2 DEF EntriesOrdered, Ahead
<1>4. EntriesNew'  BY <1>0, <1>2 DEF EntriesNew
<1>5. Pushing' /\ Popping'  BY <1>0 DEF Pushing, Popping, HasRoom
<1> QED  BY <1>1, <1>3, <1>4, <1>5

LEMMA ResetFifo ==
    ASSUME FifoInv, ResetFeed, tap = "idle", worker = "idle" PROVE FifoInv'
<1> USE DEF FifoInv, FeedTypes, ResetFeed
<1>1. FeedTypes'  OBVIOUS
<1>2. \A i \in Index : ~Live(i)'
  <2> TAKE i \in Index
  <2>1. Ahead(i, head) \in Nat /\ Ahead(head, head) = 0  BY AheadOf
  <2> QED  BY <2>1 DEF Live, Ahead
<1>3. EntriesOrdered' /\ EntriesNew'  BY <1>2 DEF EntriesOrdered, EntriesNew
<1>4. Pushing' /\ Popping'  BY DEF Pushing, Popping
<1> QED  BY <1>1, <1>3, <1>4

-----------------------------------------------------------------------------
(* The window *)

(* How many samples ago a place was written. *)
Age(p, write) == IF p < write THEN write - 1 - p ELSE write - 1 - p + Window

(* The window holds the last samples, one after the other, as many as are  *)
(* counted; and the hop began no later than it is counted from.            *)
Rolling ==
    /\ rolling \in [Place -> Nat] /\ rollingWrite \in Place
    /\ rollingCount \in 0..Window /\ rollingCount <= previous
    /\ \A p \in Place : Age(p, rollingWrite) < rollingCount =>
           rolling[p] = previous - Age(p, rollingWrite)
HopCounted ==
    /\ sinceHop \in Nat /\ analysed \in Nat
    /\ analysed # 0 => previous >= analysed + sinceHop

WindowInv == FifoInv /\ Rolling /\ HopCounted /\ WindowContiguous

LEMMA InitWindow == FeedInit => WindowInv
<1> SUFFICES ASSUME FeedInit PROVE WindowInv
    OBVIOUS
<1>1. 0 \in Place  BY FeedAssumption DEF Place
<1>2. Rolling  BY <1>1, FeedAssumption DEF FeedInit, Rolling, Age, Place
<1> QED  BY <1>2, InitFifo DEF FeedInit, WindowInv, HopCounted, WindowContiguous

LEMMA NextPlace ==
    \A p \in Place : (p + 1) % Window = IF p = Window - 1 THEN 0 ELSE p + 1
BY FeedAssumption DEF Place

LEMMA AgeOf ==
    ASSUME NEW p \in Place, NEW w \in Place
    PROVE  /\ Age(p, w) \in 0..(Window - 1)
           /\ Age(w, (w + 1) % Window) = 0
           /\ p # w => Age(p, (w + 1) % Window) = Age(p, w) + 1
BY NextPlace, FeedAssumption DEF Place, Age

(* A sample after a gap is alone in the window; another follows the one    *)
(* before it.                                                              *)
LEMMA TakeRolling ==
    ASSUME WindowInv, worker = "take", TakeSample
    PROVE  /\ Rolling'
           /\ Kept.hop \in Nat
           /\ analysed # 0 => sample >= analysed + Kept.hop + 1
<1>1. /\ rolling \in [Place -> Nat] /\ rollingWrite \in Place
      /\ rollingCount \in 0..Window /\ rollingCount <= previous
      /\ sample \in Nat /\ previous \in Nat /\ previous < sample
    BY DEF WindowInv, Rolling, FifoInv, FeedTypes, Popping
<1>2. Kept.write \in Place /\ Kept.count \in 0..Window /\ Kept.hop \in Nat
    BY <1>1, FeedAssumption DEF Kept, Place, WindowInv, HopCounted
<1>3. \A p \in Place : Age(p, Kept.write) < Kept.count =>
          rolling[p] = sample - 1 - Age(p, Kept.write)
  <2>1. CASE Gap
    <3>1. Kept.count = 0  BY <2>1 DEF Kept
    <3> QED  BY <1>2, <3>1, AgeOf
  <2>2. CASE ~Gap /\ previous = 0
    <3>1. Kept.count = 0  BY <1>1, <2>2 DEF Kept
    <3> QED  BY <1>2, <3>1, AgeOf
  <2>3. CASE ~Gap /\ previous # 0
    <3>1. sample = previous + 1  BY <2>3 DEF Gap
    <3>2. Kept.write = rollingWrite /\ Kept.count = rollingCount  BY <2>3 DEF Kept
    <3>3. \A p \in Place : Age(p, rollingWrite) \in Nat  BY <1>1, AgeOf
    <3> QED  BY <1>1, <3>1, <3>2, <3>3 DEF WindowInv, Rolling
  <2> QED  BY <2>1, <2>2, <2>3
<1>4. Kept.count < sample
    BY <1>1 DEF Kept
<1>5. /\ rolling' = [rolling EXCEPT ![Kept.write] = sample]
      /\ rollingWrite' = (Kept.write + 1) % Window
      /\ rollingCount' = IF Kept.count < Window THEN Kept.count + 1 ELSE Window
      /\ previous' = sample
    BY DEF TakeSample
<1> DEFINE w == Kept.write
           n == Kept.count
<1>6. w \in Place /\ n \in 0..Window  BY <1>2
<1>7. rolling' = [rolling EXCEPT ![w] = sample]  BY <1>5
<1>8. rollingWrite' = (w + 1) % Window  BY <1>5
<1>9. rollingCount' = IF n < Window THEN n + 1 ELSE Window  BY <1>5
<1>10. n < sample  BY <1>4
<1>11. \A p \in Place : Age(p, w) < n => rolling[p] = sample - 1 - Age(p, w)  BY <1>3
<1> HIDE DEF w, n
<1>12. rolling' \in [Place -> Nat] /\ rollingWrite' \in Place
    BY <1>1, <1>6, <1>7, <1>8, NextPlace, FeedAssumption DEF Place
<1>13. rollingCount' \in 0..Window /\ rollingCount' <= previous'
    BY <1>1, <1>5, <1>6, <1>9, <1>10, FeedAssumption
<1>14. ASSUME NEW p \in Place, Age(p, rollingWrite') < rollingCount'
       PROVE  rolling'[p] = previous' - Age(p, rollingWrite')
  <2>1. CASE p = w
    <3>1. rolling'[p] = sample /\ Age(p, rollingWrite') = 0
        BY <1>1, <1>6, <1>7, <1>8, <2>1, AgeOf
    <3> QED  BY <1>1, <1>5, <3>1
  <2>2. CASE p # w
    <3>1. rolling'[p] = rolling[p] /\ Age(p, rollingWrite') = Age(p, w) + 1
        BY <1>1, <1>6, <1>7, <1>8, <2>2, AgeOf
    <3>2. Age(p, w) \in Nat  BY <1>6, AgeOf
    <3>3. Age(p, w) < n  BY <1>6, <1>9, <1>14, <3>1, <3>2, FeedAssumption
    <3> QED  BY <1>1, <1>5, <1>11, <3>1, <3>2, <3>3
  <2> QED  BY <2>1, <2>2
<1>15. Rolling'  BY <1>12, <1>13, <1>14 DEF Rolling
<1>16. analysed # 0 => sample >= analysed + Kept.hop + 1
    BY <1>1 DEF Kept, WindowInv, HopCounted
<1> QED  BY <1>2, <1>15, <1>16

LEMMA TakeWindow == ASSUME WindowInv, Take PROVE WindowInv'
<1>1. FifoInv'  BY TakeFifo DEF WindowInv
<1>2. worker = "take" /\ TakeSample /\ UNCHANGED <<linear, analysed>> /\ previous' = sample
    BY DEF Take, TakeSample
<1>3. sinceHop' \in {Kept.hop, Kept.hop + 1}  BY DEF Take
<1>4. Rolling' /\ Kept.hop \in Nat /\ (analysed # 0 => sample >= analysed + Kept.hop + 1)
    BY <1>2, TakeRolling
<1>5. sample \in Nat /\ analysed \in Nat
    BY DEF WindowInv, FifoInv, FeedTypes, HopCounted
<1> DEFINE hop == Kept.hop
<1>6. hop \in Nat /\ sinceHop' \in {hop, hop + 1}
      /\ (analysed # 0 => sample >= analysed + hop + 1)
    BY <1>3, <1>4
<1> HIDE DEF hop
<1>7. HopCounted'
  <2>1. sinceHop' \in Nat /\ analysed' \in Nat  BY <1>2, <1>5, <1>6
  <2>2. ASSUME analysed # 0 PROVE sample >= analysed + sinceHop'
    <3>1. sample >= analysed + hop + 1  BY <1>6, <2>2
    <3>2. CASE sinceHop' = hop  BY <1>5, <1>6, <3>1, <3>2
    <3>3. CASE sinceHop' = hop + 1  BY <1>5, <1>6, <3>1, <3>3
    <3> QED  BY <1>6, <3>2, <3>3
  <2> QED  BY <1>2, <2>1, <2>2 DEF HopCounted
<1>8. WindowContiguous'  BY <1>2 DEF WindowInv, WindowContiguous
<1> QED  BY <1>1, <1>4, <1>7, <1>8 DEF WindowInv

(* A full window, read from its oldest place on, is the last samples. *)
LEMMA HopWindow ==
    ASSUME WindowInv, TakeHop
    PROVE  WindowInv' /\ (analysed = 0 \/ sample >= analysed + Hop)
<1>1. FifoInv'  BY TakeFifo DEF WindowInv
<1>2. /\ worker = "take" /\ TakeSample /\ rollingCount' = Window
      /\ sinceHop' = 0 /\ previous' = sample /\ analysed' = sample
      /\ linear' = [i \in Place |-> rolling'[(rollingWrite' + i) % Window]]
    BY DEF TakeHop, TakeSample
<1>3. Rolling' /\ Kept.hop \in Nat /\ (analysed # 0 => sample >= analysed + Kept.hop + 1)
    BY <1>2, TakeRolling
<1>4. sample \in Nat /\ analysed \in Nat
    BY DEF WindowInv, FifoInv, FeedTypes, HopCounted
<1>5. HopCounted'  BY <1>2, <1>4 DEF HopCounted
<1>6. WindowContiguous'
  <2> DEFINE w == rollingWrite'
  <2> SUFFICES ASSUME NEW i \in Place
               PROVE  linear'[i] = sample - Window + 1 + i
      BY <1>2 DEF WindowContiguous
  <2>1. w \in Place  BY <1>3 DEF Rolling
  <2>2. linear'[i] = rolling'[(w + i) % Window]  BY <1>2
  <2> HIDE DEF w
  <2>3. (w + i) % Window = IF w + i < Window THEN w + i ELSE w + i - Window
      BY <2>1, FeedAssumption DEF Place
  <2>4. (w + i) % Window \in Place /\ Age((w + i) % Window, w) = Window - 1 - i
      BY <2>1, <2>3, FeedAssumption DEF Place, Age
  <2>5. \A p \in Place : Age(p, w) < Window => rolling'[p] = sample - Age(p, w)
      BY <1>2, <1>3 DEF Rolling, w
  <2>6. Window - 1 - i < Window  BY FeedAssumption DEF Place
  <2>7. rolling'[(w + i) % Window] = sample - (Window - 1 - i)
      BY <2>4, <2>5, <2>6
  <2> QED  BY <1>4, <2>2, <2>7, FeedAssumption DEF Place
<1>7. analysed = 0 \/ sample >= analysed + Hop
  <2> DEFINE hop == Kept.hop
  <2>1. hop \in Nat /\ hop + 1 >= Hop /\ (analysed # 0 => sample >= analysed + hop + 1)
      BY <1>3 DEF TakeHop
  <2> HIDE DEF hop
  <2> QED  BY <1>4, <2>1, FeedAssumption
<1> QED  BY <1>1, <1>3, <1>5, <1>6, <1>7 DEF WindowInv

(* The steps of the FIFO leave the window alone. *)
LEMMA SameWindow ==
    ASSUME WindowInv, FifoInv', UNCHANGED windowVars
    PROVE  WindowInv'
BY DEF WindowInv, windowVars, Rolling, HopCounted, WindowContiguous, Age

LEMMA PushWindow == ASSUME WindowInv, Push PROVE WindowInv'
<1>1. FifoInv'
    BY PushBeginFifo, PushStoreFifo, PushPublishFifo DEF Push, WindowInv
<1> QED  BY <1>1, SameWindow DEF Push, PushBegin, PushStore, PushPublish

LEMMA RunWindow == ASSUME WindowInv, Run PROVE WindowInv'
<1>1. CASE PopBegin \/ PopCopy \/ PopAdvance
  <2>1. FifoInv'  BY <1>1, PopFifo, PopAdvanceFifo DEF WindowInv
  <2> QED  BY <1>1, <2>1, SameWindow DEF PopBegin, PopCopy, PopAdvance
<1> QED  BY <1>1, TakeWindow, HopWindow DEF Run

LEMMA ResetWindow ==
    ASSUME WindowInv, ResetFeed, tap = "idle", worker = "idle" PROVE WindowInv'
<1>1. FifoInv'  BY ResetFifo DEF WindowInv
<1>2. 0 \in Place  BY FeedAssumption DEF Place
<1>3. Rolling'
    BY <1>2, FeedAssumption DEF ResetFeed, Rolling, Age, Place
<1> QED  BY <1>1, <1>3 DEF WindowInv, ResetFeed, HopCounted, WindowContiguous

LEMMA StutterWindow == ASSUME WindowInv, UNCHANGED feedVars PROVE WindowInv'
<1> USE DEF feedVars, fifoVars, windowVars
<1>1. \A i \in Index : Live(i)' <=> Live(i)  BY DEF Live, Ahead
<1>2. FeedTypes'  BY DEF WindowInv, FifoInv, FeedTypes
<1>3. EntriesOrdered'  BY <1>1 DEF WindowInv, FifoInv, EntriesOrdered, Ahead
<1>4. EntriesNew'  BY <1>1 DEF WindowInv, FifoInv, EntriesNew
<1>5. Pushing' /\ Popping'
    BY DEF WindowInv, FifoInv, Pushing, Popping, HasRoom
<1> QED  BY <1>2, <1>3, <1>4, <1>5, SameWindow DEF FifoInv

-----------------------------------------------------------------------------
(***************************************************************************)
(* The pitch path uses the gate as PitchGate says: what is proved of the    *)
(* gate holds of it, whatever the samples do; and what was shown above of   *)
(* the actions of the feed holds of every run.                             *)
(***************************************************************************)

(* Every step of the audio task, the worker and the coordinator is a step  *)
(* of the gate, or leaves it alone.                                        *)
LEMMA PathStep == PathNext => [Next]_vars
<1> USE PathAssumption
<1>1. ASSUME AudioTask PROVE [Next]_vars
  BY <1>1 DEF AudioTask, Next, Task
<1>2. ASSUME WorkerTask PROVE [Next]_vars
  BY <1>2 DEF WorkerTask, Next, Task
<1>3. ASSUME Coordinator PROVE [Next]_vars
  BY <1>3 DEF Coordinator, Next, Resetter
<1>4. QED
  BY <1>1, <1>2, <1>3 DEF PathNext

(* enter_pitch_path and leave_pitch_path around tap and run, and the two    *)
(* that shut the gate, follow the protocol of the gate.                    *)
THEOREM PathImplementsGate == PathSpec => Spec
<1>1. PathInit => Init
  BY DEF PathInit
<1>2. [PathNext]_pathVars => [Next]_vars
  <2>1. UNCHANGED pathVars => UNCHANGED vars
    BY DEF pathVars
  <2>2. QED
    BY <2>1, PathStep
<1>3. QED
  BY <1>1, <1>2, PTL DEF PathSpec, Spec

(* A reset has the analysis, with its FIFO and its window, to itself: no   *)
(* tap and no run is under way.                                            *)
THEOREM ResetExcludesPath == PathSpec => []ResetIsAlone
  BY PathImplementsGate, ResetExcludes, PTL

-----------------------------------------------------------------------------
(* A push or a pop is under way only inside the gate; and a refusal comes  *)
(* while the reset is on, or before any sample is tapped after it: a task  *)
(* that still holds a word from during the reset has not been inside since. *)
TapIsInside == tap # "idle" => user[Audio] = "in"
RunIsInside == worker # "idle" => user[Worker] = "in"
LateRefusal ==
    user[Audio] = "enter" /\ expected[Audio].resetting
        => resetter # "idle" \/ input = 0
PathInv == TapIsInside /\ RunIsInside /\ LateRefusal

LEMMA PathInitInv == PathInit => PathInv
BY DEF PathInit, Init, FeedInit, PathInv, TapIsInside, RunIsInside, LateRefusal

LEMMA AudioInv == IInv /\ PathInv /\ AudioTask => PathInv'
<1> SUFFICES ASSUME IInv, PathInv, AudioTask PROVE PathInv'
    OBVIOUS
<1> USE PathAssumption DEF PathInv, TapIsInside, RunIsInside, LateRefusal, IInv, TypeOK
<1>1. ASSUME Try(Audio), UNCHANGED feedVars PROVE PathInv'
  BY <1>1 DEF Try, feedVars, FlagExact, PitchUsers, fifoVars, windowVars
<1>2. ASSUME Enter(Audio) \/ Refused(Audio), UNCHANGED feedVars PROVE PathInv'
  BY <1>2 DEF Enter, Refused, feedVars
<1>3. ASSUME EnterFails(Audio), UNCHANGED feedVars PROVE PathInv'
  BY <1>3 DEF EnterFails, feedVars, FlagExact, PitchUsers
<1>4. ASSUME user[Audio] = "in", Push, UNCHANGED vars PROVE PathInv'
  BY <1>4 DEF Push, PushBegin, PushStore, PushPublish, vars
<1>5. ASSUME tap = "idle", Leave(Audio), UNCHANGED feedVars PROVE PathInv'
  BY <1>5 DEF Leave, feedVars
<1>6. QED
  BY <1>1, <1>2, <1>3, <1>4, <1>5 DEF AudioTask

LEMMA WorkerInv == IInv /\ PathInv /\ WorkerTask => PathInv'
<1> SUFFICES ASSUME IInv, PathInv, WorkerTask PROVE PathInv'
    OBVIOUS
<1> USE PathAssumption DEF PathInv, TapIsInside, RunIsInside, LateRefusal, IInv, TypeOK
<1>1. ASSUME Try(Worker) \/ Enter(Worker) \/ EnterFails(Worker) \/ Refused(Worker),
             UNCHANGED feedVars
      PROVE  PathInv'
  BY <1>1 DEF Try, Enter, EnterFails, Refused, feedVars
<1>2. ASSUME user[Worker] = "in", Run, UNCHANGED vars PROVE PathInv'
  BY <1>2 DEF Run, PopBegin, PopCopy, PopAdvance, Take, TakeHop, vars
<1>3. ASSUME worker = "idle", Leave(Worker), UNCHANGED feedVars PROVE PathInv'
  BY <1>3 DEF Leave, feedVars
<1>4. QED
  BY <1>1, <1>2, <1>3 DEF WorkerTask

LEMMA CoordinatorInv == IInv /\ PathInv /\ Coordinator => PathInv'
<1> SUFFICES ASSUME IInv, PathInv, Coordinator PROVE PathInv'
    OBVIOUS
<1> USE DEF PathInv, TapIsInside, RunIsInside, LateRefusal
<1>1. ASSUME NEW then \in {"wait_reset", "wait_init"}, Shut(then), UNCHANGED feedVars
      PROVE  PathInv'
  BY <1>1 DEF Shut, feedVars
<1>2. ASSUME ResetAlone \/ InitAlone \/ InitDone, UNCHANGED feedVars PROVE PathInv'
  BY <1>2 DEF ResetAlone, InitAlone, InitDone, feedVars
<1>3. ASSUME Reopen, ResetFeed PROVE PathInv'
  BY <1>3 DEF Reopen, ResetFeed
<1>4. QED
  BY <1>1, <1>2, <1>3 DEF Coordinator

LEMMA PathInductive == PathSpec => [](IInv /\ PathInv)
<1>1. IInv /\ PathInv /\ [PathNext]_pathVars => PathInv'
  <2> SUFFICES ASSUME IInv, PathInv, [PathNext]_pathVars PROVE PathInv'
      OBVIOUS
  <2>1. CASE PathNext
    BY <2>1, AudioInv, WorkerInv, CoordinatorInv DEF PathNext
  <2>2. CASE UNCHANGED pathVars
    BY <2>2 DEF pathVars, vars, feedVars, PathInv, TapIsInside, RunIsInside, LateRefusal
  <2>3. QED
    BY <2>1, <2>2
<1>2. PathSpec => []IInv
  BY PathImplementsGate, Inductive, PTL
<1>3. QED
  BY PathInitInv, <1>1, <1>2, PTL DEF PathSpec

(* A reset finds the FIFO and the window at rest: no tap has a sample half  *)
(* pushed, and no run one half popped.                                     *)
AtRest == tap = "idle" /\ worker = "idle"
THEOREM ResetFindsRest == PathSpec => [](Alone => AtRest)
<1>1. IInv /\ PathInv => (Alone => AtRest)
  BY PathAssumption DEF IInv, PathInv, ResetIsAlone, Inside, TapIsInside, RunIsInside, AtRest
<1>2. QED
  BY PathInductive, <1>1, PTL

(* A block is refused, and its samples lost, only on the far side of a     *)
(* reset, which begins the positions anew.                                 *)
THEOREM NoHole == PathSpec => RefusalLeavesNoHole
<1>1. IInv /\ PathInv => [Refused(Audio) => resetter # "idle" \/ input = 0]_pathVars
  BY DEF PathInv, LateRefusal, Refused
<1>2. QED
  BY PathInductive, <1>1, PTL DEF RefusalLeavesNoHole

-----------------------------------------------------------------------------
(* The samples: behind the gate, every step of the path is one of the feed, *)
(* and a reset finds the feed at rest.                                      *)
LEMMA PathFeed ==
    ASSUME IInv, PathInv, [PathNext]_pathVars
    PROVE  \/ UNCHANGED feedVars
           \/ Push \/ Run
           \/ ResetFeed /\ tap = "idle" /\ worker = "idle"
<1>1. CASE AudioTask  BY <1>1 DEF AudioTask
<1>2. CASE WorkerTask  BY <1>2 DEF WorkerTask
<1>3. CASE Coordinator
  <2>1. Alone => tap = "idle" /\ worker = "idle"
      BY PathAssumption DEF IInv, PathInv, ResetIsAlone, Inside, TapIsInside, RunIsInside
  <2>2. Reopen => Alone  BY DEF Reopen, Alone
  <2> QED  BY <1>3, <2>1, <2>2 DEF Coordinator
<1>4. CASE UNCHANGED pathVars  BY <1>4 DEF pathVars
<1> QED  BY <1>1, <1>2, <1>3, <1>4 DEF PathNext

LEMMA PathWindow ==
    ASSUME IInv, PathInv, WindowInv, [PathNext]_pathVars PROVE WindowInv'
BY PathFeed, StutterWindow, PushWindow, RunWindow, ResetWindow

LEMMA FeedInductive == PathSpec => [](IInv /\ PathInv /\ WindowInv)
<1>1. PathInit => WindowInv  BY InitWindow DEF PathInit
<1>2. IInv /\ PathInv /\ WindowInv /\ [PathNext]_pathVars => WindowInv'
    BY PathWindow
<1> QED  BY PathInductive, <1>1, <1>2, PTL DEF PathSpec

(* Whatever an overload drops, no window that is analysed spans a hole in  *)
(* the input, for every capacity of the FIFO, window and hop.              *)
THEOREM WindowsContiguous == PathSpec => []WindowContiguous
<1>1. WindowInv => WindowContiguous  BY DEF WindowInv
<1> QED  BY FeedInductive, <1>1, PTL

(* No sample comes out of the FIFO before an older one, or twice.          *)
THEOREM InOrder == PathSpec => SamplesInOrder
<1>1. WindowInv => [Take \/ TakeHop => sample > previous]_feedVars
  <2>1. WindowInv /\ (Take \/ TakeHop) => sample > previous
      BY DEF WindowInv, FifoInv, FeedTypes, Popping, Take, TakeHop
  <2> QED  BY <2>1
<1> QED  BY FeedInductive, <1>1, PTL DEF SamplesInOrder

(* Two analyses are at least a hop apart, also around a hole.              *)
THEOREM HopsKeepApart == PathSpec => HopsApart
<1>1. WindowInv => [TakeHop => analysed = 0 \/ sample >= analysed + Hop]_feedVars
    BY HopWindow
<1> QED  BY FeedInductive, <1>1, PTL DEF HopsApart
=============================================================================
