--------------------------- MODULE PitchTrack_proof ---------------------------
(***************************************************************************)
(* The mark tracker for every set of periods and hops a detector may have. *)
(* Everything rests on one relation between the search and the hop: the    *)
(* search reaches less far than a period, and less far than a hop.         *)
(***************************************************************************)
EXTENDS PitchTrack, TLAPS

(* The mark to go on from is the newest one, however the track was lost    *)
(* and found in between, ...                                               *)
FromNewest == previous # NoMark => newest = previous

(* ... and it lies behind the boundary when a hop has just been measured:  *)
(* a search may have put it after the boundary of the hop before, but not  *)
(* by as much as a hop.                                                    *)
NewestBehind ==
    /\ phase = "track" => newest < 0
    /\ phase # "track" => \A step \in HopStep : newest < step

(* What the phase of a hop says of the rest. *)
Tracking ==
    /\ phase \in {"track", "search"} => period \in Period
    /\ phase = "coast" => state = "Coasting"
Searching == phase = "search" => coasting = 0 /\ previous # NoMark

(* While a track is locked, the count of failures is the true one. *)
LockedCounts == state = "Locked" => failures = misses /\ misses <= 2

IInv ==
    /\ TypeOK /\ LockedIsEarned
    /\ FromNewest /\ NewestBehind /\ Tracking /\ Searching /\ LockedCounts

LEMMA RadiusRange ==
    ASSUME NEW p \in Period
    PROVE  /\ Radius(p) \in Nat
           /\ Radius(p) < p /\ Radius(p) < Far
           /\ p \in Nat \ {0} /\ p \div 2 \in Nat
           /\ \A step \in HopStep : Radius(p) < step
<1>1. p \in Nat \ {0}  BY TrackAssumption
<1>2. p \div 5 \in Nat /\ p \div 2 \in Nat  BY <1>1
<1>3. Radius(p) \in Nat  BY <1>2 DEF Radius
<1> QED  BY <1>1, <1>2, <1>3, RangeAssumption

LEMMA SaturatedRange ==
    ASSUME NEW n \in 0..Byte
    PROVE  Saturated(n) \in 0..Byte /\ Saturated(n) >= 1 /\ (n >= 2 => Saturated(n) >= 3)
           /\ (n + 1 <= Byte => Saturated(n) = n + 1)
BY TrackAssumption DEF Saturated

LEMMA BehindRange ==
    ASSUME NEW position \in Position, NEW step \in HopStep
    PROVE  /\ Behind(position, step) \in Position
           /\ Behind(NoMark, step) = NoMark
           /\ Behind(position, step) # NoMark
           /\ Far > 0 /\ position < step => Behind(position, step) < 0
           /\ position <= 0 \/ position < step => Behind(position, step) <= 0
BY TrackAssumption DEF Behind, Position, NoMark

LEMMA InitIInv == Init => IInv
<1> SUFFICES ASSUME Init PROVE IInv
    OBVIOUS
<1>1. -Far \in Position /\ 0 \in 0..Byte /\ 0 \in 0..MaxCoastHops
      BY TrackAssumption DEF Position
<1>2. TypeOK  BY <1>1 DEF Init, TypeOK
<1>3. LockedIsEarned  BY DEF Init, LockedIsEarned
<1>4. FromNewest /\ NewestBehind  BY TrackAssumption DEF Init, FromNewest, NewestBehind
<1> QED  BY <1>2, <1>3, <1>4 DEF Init, IInv, Tracking, Searching, LockedCounts

(* Comparisons decide. *)
LEMMA Decided ==
    ASSUME NEW decision, NEW n \in Int, NEW limit \in Int,
           decision = (n >= limit) \/ decision = (n < limit)
    PROVE  decision \in BOOLEAN
<1>1. CASE decision = (n >= limit)  BY <1>1, SMT
<1>2. CASE decision = (n < limit)  BY <1>2, SMT
<1> QED  BY <1>1, <1>2, Zenon

(* The voicing decision keeps its counts in their type. *)
LEMMA VoicingTypes ==
    ASSUME TypeOK, NEW m \in Measurement, Unvoiced(m) \/ Voiced(m)
    PROVE  voiced' \in BOOLEAN /\ good' \in 0..Byte /\ bad' \in 0..Byte
<1>1. Saturated(good) \in 0..Byte /\ Saturated(bad) \in 0..Byte /\ 0 \in 0..Byte
      BY SaturatedRange, TrackAssumption DEF TypeOK
<1>2. CASE Unvoiced(m)
  <2>1. good' \in 0..Byte /\ bad' \in 0..Byte  BY <1>1, <1>2 DEF Unvoiced
  <2>2. voiced' = FALSE \/ voiced' = (good' >= Attack)  BY <1>2, Zenon DEF Unvoiced
  <2>3. good' \in Int /\ Attack \in Int  BY <2>1, TrackAssumption
  <2> QED  BY <2>1, <2>2, <2>3, Decided, Zenon
<1>3. CASE Voiced(m)
  <2>1. good' \in 0..Byte /\ bad' \in 0..Byte  BY <1>1, <1>3 DEF Voiced
  <2>2. \/ voiced' = TRUE
        \/ \E limit \in {2, Release} : voiced' = (bad' < limit)
        BY <1>3, Zenon DEF Voiced
  <2>3. bad' \in Int /\ 2 \in Int /\ Release \in Int  BY <2>1, TrackAssumption
  <2> QED  BY <2>1, <2>2, <2>3, Decided, Zenon
<1> QED  BY <1>2, <1>3

LEMMA MeasureIInv == IInv /\ Measure => IInv'
<1> SUFFICES ASSUME IInv, Measure PROVE IInv'
    OBVIOUS
<1> USE DEF IInv
<1>1. PICK m \in Measurement, p \in Period \union {0}, step \in HopStep, l \in Lag :
          /\ phase = "measure"
          /\ Unvoiced(m) \/ Voiced(m)
          /\ voiced' => p # 0
          /\ period' = p /\ lag' = l
          /\ previous' = Behind(previous, step)
          /\ newest' = Behind(newest, step)
          /\ phase' = IF voiced' THEN "track" ELSE "lose"
          /\ UNCHANGED <<coasts, coherent, failures, coasting, state, misses>>
      BY DEF Measure
<1>2. voiced' \in BOOLEAN /\ good' \in 0..Byte /\ bad' \in 0..Byte
      BY <1>1, VoicingTypes
<1>3. newest' \in Position  BY <1>1, BehindRange DEF TypeOK
<1>4. previous' \in Position \union {NoMark} /\ (previous' = NoMark <=> previous = NoMark)
      BY <1>1, BehindRange DEF TypeOK
<1>5. TypeOK'  BY <1>1, <1>2, <1>3, <1>4 DEF TypeOK
<1>6. LockedIsEarned'  BY <1>1, <1>4 DEF LockedIsEarned
<1>7. FromNewest'  BY <1>1, <1>4 DEF FromNewest
<1>8. Tracking' /\ Searching'  BY <1>1, <1>2 DEF Tracking, Searching
<1>9. newest < step  BY <1>1 DEF NewestBehind
<1>10. ASSUME phase' = "track" PROVE newest' < 0
  <2>1. p \in Period  BY <1>1, <1>10
  <2>2. Far > 0  BY <2>1, RadiusRange, TrackAssumption
  <2> QED  BY <1>1, <1>9, <2>2, BehindRange DEF TypeOK
<1>11. ASSUME NEW s \in HopStep PROVE newest' < s
  <2>1. newest' <= 0  BY <1>1, <1>9, BehindRange DEF TypeOK
  <2> QED  BY <2>1, <1>3, TrackAssumption DEF Position
<1>12. NewestBehind'  BY <1>10, <1>11 DEF NewestBehind
<1>13. LockedCounts'  BY <1>1 DEF LockedCounts
<1> QED  BY <1>5, <1>6, <1>7, <1>8, <1>12, <1>13

(* The hops without a voice. *)
LEMMA LoseIInv == IInv /\ (Coast \/ Lose \/ PredictMark \/ CoastEnd) => IInv'
<1> SUFFICES ASSUME IInv, Coast \/ Lose \/ PredictMark \/ CoastEnd PROVE IInv'
    OBVIOUS
<1> USE DEF IInv
<1>1. CASE Coast
  <2>1. TypeOK'  BY <1>1, TrackAssumption DEF Coast, CanCoast, TypeOK, hop
  <2>2. LockedIsEarned'  BY <1>1 DEF Coast, CanCoast, LockedIsEarned
  <2>3. FromNewest' /\ NewestBehind'  BY <1>1 DEF Coast, FromNewest, NewestBehind
  <2> QED  BY <1>1, <2>1, <2>2, <2>3 DEF Coast, Tracking, Searching, LockedCounts
<1>2. CASE Lose
  <2>1. TypeOK'  BY <1>2, TrackAssumption DEF Lose, TypeOK, hop
  <2>2. LockedIsEarned'  BY <1>2 DEF Lose, LockedIsEarned
  <2>3. FromNewest' /\ NewestBehind'  BY <1>2 DEF Lose, FromNewest, NewestBehind
  <2> QED  BY <1>2, <2>1, <2>2, <2>3 DEF Lose, Tracking, Searching, LockedCounts
<1>3. CASE PredictMark
  <2>1. previous \in Position /\ period \in Nat \ {0} /\ previous + period <= 0
        BY <1>3, TrackAssumption DEF PredictMark, MorePredicted, TypeOK
  <2>2. previous' \in Position /\ newest' = previous' /\ previous' # NoMark /\ previous' <= 0
        BY <1>3, <2>1, TrackAssumption DEF PredictMark, Position, NoMark
  <2>3. TypeOK'  BY <1>3, <2>2, TrackAssumption DEF PredictMark, TypeOK, hop
  <2>4. LockedIsEarned'
        BY <1>3, <2>2 DEF PredictMark, MorePredicted, LockedIsEarned
  <2>5. NewestBehind'
        BY <1>3, <2>2, TrackAssumption DEF PredictMark, NewestBehind, Position
  <2>6. LockedCounts'
        BY <1>3 DEF PredictMark, LockedCounts, Tracking
  <2> QED  BY <1>3, <2>2, <2>3, <2>4, <2>5, <2>6
           DEF PredictMark, FromNewest, Tracking, Searching
<1>4. CASE CoastEnd
  BY <1>4 DEF CoastEnd, TypeOK, hop, LockedIsEarned, FromNewest, NewestBehind,
              Tracking, Searching, LockedCounts
<1> QED  BY <1>1, <1>2, <1>3, <1>4

(* The first mark of a hop with a voice. *)
LEMMA AnchorIInv == IInv /\ (Anchor \/ MarkTimeout \/ Follow) => IInv'
<1> SUFFICES ASSUME IInv, Anchor \/ MarkTimeout \/ Follow PROVE IInv'
    OBVIOUS
<1> USE DEF IInv
<1>1. 0 \in Position /\ 0 # NoMark /\ 0 \in 0..Byte /\ 1 \in 0..Byte
      /\ 0 \in 0..MaxCoastHops
      BY TrackAssumption DEF Position, NoMark
<1>2. CASE Anchor \/ MarkTimeout
  <2>1. /\ AnchorMark /\ coasting' = 0 /\ phase = "track" /\ phase' = "search"
        /\ failures' \in {failures, 0} /\ UNCHANGED hop
        BY <1>2 DEF Anchor, MarkTimeout
  <2>2. TypeOK'  BY <1>1, <2>1 DEF AnchorMark, TypeOK, hop
  <2>3. LockedIsEarned' /\ FromNewest' /\ LockedCounts'
        BY <1>1, <2>1 DEF AnchorMark, LockedIsEarned, FromNewest, LockedCounts, NoMark
  <2>4. NewestBehind'  BY <2>1, TrackAssumption DEF AnchorMark, NewestBehind
  <2>5. Tracking' /\ Searching'
        BY <1>1, <2>1 DEF AnchorMark, Tracking, Searching, hop, NoMark
  <2> QED  BY <2>2, <2>3, <2>4, <2>5
<1>3. CASE Follow
  <2>1. TypeOK'  BY <1>1, <1>3 DEF Follow, TypeOK, hop
  <2>2. NewestBehind'
        BY <1>3, TrackAssumption DEF Follow, NewestBehind, TypeOK, Position
  <2> QED  BY <1>3, <2>1, <2>2
           DEF Follow, LockedIsEarned, FromNewest, Tracking, Searching, LockedCounts, hop
<1> QED  BY <1>2, <1>3

(* Where an accepted search puts the mark: past the one before, and not a  *)
(* hop past the boundary.                                                  *)
LEMMA AcceptedAhead ==
    ASSUME IInv, Accept
    PROVE  /\ previous' \in Position /\ previous' # NoMark
           /\ newest' = previous' /\ newest' > newest
           /\ \A step \in HopStep : newest' < step
<1> USE DEF IInv
<1>1. phase = "search" /\ previous \in Position /\ newest = previous /\ period \in Period
      BY DEF Accept, Tracking, Searching, FromNewest, TypeOK
<1>2. PICK offset \in -Radius(period)..Radius(period) : previous' = Predicted + offset
      BY DEF Accept
<1>3. /\ Radius(period) \in Nat /\ Radius(period) < period /\ Radius(period) < Far
      /\ period \in Nat /\ \A step \in HopStep : Radius(period) < step
      BY <1>1, RadiusRange
<1>4. previous + period <= 0  BY DEF Accept, Searchable, Predicted
<1>5. previous' = previous + period + offset /\ offset \in Int
      /\ offset <= Radius(period) /\ offset >= -Radius(period)
      BY <1>2, <1>3 DEF Predicted
<1>6. previous' > previous /\ previous' <= Radius(period) /\ previous' \in Int
      BY <1>1, <1>3, <1>4, <1>5 DEF Position
<1>7. previous' \in Position /\ previous' # NoMark
      BY <1>1, <1>3, <1>6, TrackAssumption DEF Position, NoMark
<1>8. \A step \in HopStep : previous' < step
      BY <1>3, <1>6, TrackAssumption
<1> QED  BY <1>1, <1>6, <1>7, <1>8 DEF Accept

LEMMA SearchIInv ==
    IInv /\ (Accept \/ Reject \/ RejectCoast \/ RejectUnlock \/ SearchEnd) => IInv'
<1> SUFFICES ASSUME IInv, Accept \/ Reject \/ RejectCoast \/ RejectUnlock \/ SearchEnd
             PROVE  IInv'
    OBVIOUS
<1> USE DEF IInv
<1>1. /\ Saturated(coherent) \in 0..Byte /\ Saturated(misses) \in 0..Byte
      /\ coherent >= 3 => Saturated(coherent) >= 3
      /\ Failures \in 0..Byte /\ 0 \in 0..Byte /\ 0 \in 0..MaxCoastHops
  <2>1. Failures \in 0..Byte
        BY TrackAssumption DEF Failures, TypeOK
  <2> QED  BY <2>1, SaturatedRange, TrackAssumption DEF TypeOK
<1>2. CASE Accept
  <2>1. /\ previous' \in Position /\ previous' # NoMark /\ newest' = previous'
        /\ \A step \in HopStep : newest' < step
        BY <1>2, AcceptedAhead
  <2>2. TypeOK'  BY <1>1, <1>2, <2>1 DEF Accept, TypeOK, hop
  <2>3. state # "Unlocked"
        BY <1>2 DEF Accept, Searching, LockedIsEarned
  <2>4. LockedIsEarned'
        BY <1>1, <1>2, <2>1, <2>3 DEF Accept, LockedIsEarned, NoMark
  <2>5. LockedCounts'  BY <1>2 DEF Accept, LockedCounts
  <2> QED  BY <1>2, <2>1, <2>2, <2>4, <2>5
           DEF Accept, FromNewest, NewestBehind, Tracking, Searching, hop, NoMark
<1>3. CASE Reject
  <2>1. TypeOK'  BY <1>1, <1>3 DEF Reject, TypeOK, hop
  <2>2. state = "Locked" => failures' = misses' /\ misses' <= 2
    <3> SUFFICES ASSUME state = "Locked" PROVE failures' = misses' /\ misses' <= 2
        OBVIOUS
    <3>1. failures = misses /\ misses \in Nat /\ misses <= 2
          BY TrackAssumption DEF LockedCounts, TypeOK
    <3>2. Failures = misses + 1 /\ Saturated(misses) = misses + 1
          BY <3>1, TrackAssumption DEF Failures, Saturated
    <3> QED  BY <1>3, <3>1, <3>2 DEF Reject
  <2>3. LockedCounts'  BY <1>3, <2>2 DEF Reject, LockedCounts
  <2> QED  BY <1>3, <2>1, <2>3
           DEF Reject, LockedIsEarned, FromNewest, NewestBehind, Tracking, Searching
<1>4. CASE RejectCoast
  <2>1. TypeOK'  BY <1>1, <1>4, TrackAssumption DEF RejectCoast, CanCoast, TypeOK, hop
  <2>2. LockedIsEarned'  BY <1>4 DEF RejectCoast, CanCoast, LockedIsEarned
  <2> QED  BY <1>4, <2>1, <2>2
           DEF RejectCoast, FromNewest, NewestBehind, Tracking, Searching, LockedCounts
<1>5. CASE RejectUnlock
  <2>1. TypeOK'  BY <1>1, <1>5 DEF RejectUnlock, TypeOK, hop
  <2>2. LockedIsEarned'  BY <1>5 DEF RejectUnlock, LockedIsEarned
  <2> QED  BY <1>5, <2>1, <2>2
           DEF RejectUnlock, FromNewest, NewestBehind, Tracking, Searching, LockedCounts
<1>6. CASE SearchEnd
  BY <1>6 DEF SearchEnd, TypeOK, hop, LockedIsEarned, FromNewest, NewestBehind,
              Tracking, Searching, LockedCounts
<1> QED  BY <1>2, <1>3, <1>4, <1>5, <1>6

LEMMA NextIInv == IInv /\ [Next]_vars => IInv'
<1>1. IInv /\ UNCHANGED vars => IInv'
      BY DEF IInv, vars, TypeOK, LockedIsEarned, FromNewest, NewestBehind,
             Tracking, Searching, LockedCounts
<1> QED  BY <1>1, MeasureIInv, LoseIInv, AnchorIInv, SearchIInv DEF Next

LEMMA Invariance == Spec => []IInv
BY InitIInv, NextIInv, PTL DEF Spec

(* Counters stay in the width of their type, and the bounded positions     *)
(* within their bounds.                                                    *)
THEOREM TypeCorrect == Spec => []TypeOK
<1>1. IInv => TypeOK  BY DEF IInv
<1> QED  BY <1>1, Invariance, PTL

(* What the audio task is told of a track is backed by marks: it is locked *)
(* or coasting only with three coherent marks.                             *)
THEOREM LockEarned == Spec => []LockedIsEarned
<1>1. IInv => LockedIsEarned  BY DEF IInv
<1> QED  BY <1>1, Invariance, PTL

(* Marks reach the ring in order of position, also across the loss of a    *)
(* track and a new anchor.                                                 *)
THEOREM MarksInOrder == Spec => MarksIncrease
<1>1. ASSUME IInv, [Next]_vars PROVE [Marked => newest' > newest]_vars
  <2> SUFFICES ASSUME Marked PROVE newest' > newest
      OBVIOUS
  <2> USE <1>1 DEF IInv
  <2>1. CASE PredictMark
    <3>1. previous \in Int /\ period \in Nat \ {0} /\ newest = previous
          BY <2>1, TrackAssumption DEF PredictMark, MorePredicted, TypeOK, Position, FromNewest
    <3> QED  BY <2>1, <3>1 DEF PredictMark
  <2>2. CASE Anchor \/ MarkTimeout
        BY <2>2 DEF Anchor, MarkTimeout, AnchorMark, NewestBehind
  <2>3. CASE Accept  BY <2>3, AcceptedAhead
  <2> QED  BY <2>1, <2>2, <2>3 DEF Marked
<1> QED  BY <1>1, Invariance, PTL DEF Spec, MarksIncrease

(* A locked track is given up at the third failed search in a row, never   *)
(* before: whatever count an earlier track left behind was cleared on the  *)
(* way to the lock.                                                        *)
THEOREM LockHolds == Spec => LockedSurvivesTwo
<1>1. ASSUME IInv, [Next]_vars
      PROVE  [RejectUnlock /\ state = "Locked" => misses = 2]_vars
  <2> SUFFICES ASSUME RejectUnlock, state = "Locked" PROVE misses = 2
      OBVIOUS
  <2>1. failures = misses /\ misses \in Nat /\ misses <= 2
        BY <1>1, TrackAssumption DEF IInv, LockedCounts, TypeOK
  <2>2. Failures = misses + 1  BY <2>1, TrackAssumption DEF Failures
  <2>3. Failures >= 3  BY DEF RejectUnlock
  <2> QED  BY <2>1, <2>2, <2>3
<1> QED  BY <1>1, Invariance, PTL DEF Spec, LockedSurvivesTwo
=============================================================================
