------------------------------ MODULE PitchTrack ------------------------------
(***************************************************************************)
(* components/vocal_fx/pitch/pitch_analysis.cpp: what PitchAnalysis::run    *)
(* does with the measurement of each hop.  The voicing decision is         *)
(* debounced; while the input is voiced, update_marks follows its periods: *)
(* it anchors a mark at the analysis timestamp (the boundary), predicts the *)
(* next one a period later, and lets a correlation search accept it at a   *)
(* small offset or reject it.  All of it is the pitch worker's alone.      *)
(*                                                                         *)
(* Positions are relative to the boundary, which moves on with each hop,   *)
(* and positions Far or more behind it are not told apart.  A measurement  *)
(* is what the voicing decision makes of it; the detector and the          *)
(* correlation are choices.  Voicing is stateful, as the product sets it.  *)
(***************************************************************************)
EXTENDS Integers

CONSTANTS
    Period,         \* smoothed periods, in input samples
    HopStep,        \* samples from one boundary to the next: a hop, or more
                    \* after a gap in the samples
    Lag,            \* how far the input may be ahead of the boundary
    History,        \* kAudioHistory
    Far,
    Attack,         \* voiced_attack_frames
    Release,        \* voiced_release_frames
    MaxCoastHops,   \* max_coast_hops
    Byte            \* the largest value of an uint8_t

NoMark == Far + 1

(* radius and half a period, as the search computes them *)
Radius(p) == IF p \div 5 > 2 THEN p \div 5 ELSE 2

ASSUME TrackAssumption ==
    /\ Period \subseteq Nat \ {0} /\ HopStep \subseteq Nat \ {0}
    /\ Lag \subseteq Nat /\ History \in Nat /\ Far \in Nat
    /\ Attack \in Nat \ {0} /\ Release \in Nat \ {0}
    /\ MaxCoastHops \in Nat \ {0} /\ Byte \in Nat /\ Byte >= 4

(* A detector range of 65 to 1000 Hz at 48 kHz: the search reaches 147     *)
(* samples at most, a hop is 240.                                          *)
ASSUME RangeAssumption ==
    \A p \in Period : /\ Radius(p) < p
                      /\ Radius(p) < Far
                      /\ \A s \in HopStep : Radius(p) < s

VARIABLES
    coasts,         \* whether the continuity policy has coasting
    phase,          \* where run() stands in the hop
    voiced,         \* voiced_
    good, bad,      \* good_frames_, bad_frames_
    period,         \* p.period_samples, 0 if there is none
    lag,            \* audio_end() - boundary
    previous,       \* previous_mark_ - boundary, or NoMark
    newest,         \* position of the newest mark in the ring
    coherent,       \* coherent_marks_
    failures,       \* mark_failures_
    coasting,       \* coasting_hops_
    state,          \* mark_state_
    misses          \* failed searches since a mark was last added

vars == <<coasts, phase, voiced, good, bad, period, lag, previous, newest,
          coherent, failures, coasting, state, misses>>
voicing == <<voiced, good, bad>>
hop == <<coasts, voiced, good, bad, period, lag>>

Measurement == {"silence", "bad", "fair", "strong"}

Behind(position, step) ==
    IF position = NoMark THEN NoMark
    ELSE IF position - step < -Far THEN -Far ELSE position - step

\* Bug: the count is not clamped to its type.
BugSaturated(n) == n + 1

Saturated(n) == IF n + 1 > Byte THEN Byte ELSE n + 1

Init ==
    /\ coasts \in BOOLEAN
    /\ phase = "measure"
    /\ voiced = FALSE /\ good = 0 /\ bad = 0
    /\ period = 0 /\ lag = 0
    /\ previous = NoMark /\ newest = -Far
    /\ coherent = 0 /\ failures = 0 /\ coasting = 0
    /\ state = "Unlocked" /\ misses = 0

-----------------------------------------------------------------------------
(* The voicing decision: a strong hop may begin a voiced stretch, a silent  *)
(* or bad one may end it, and each takes several in a row.                  *)

Unvoiced(m) ==
    /\ ~voiced
    /\ IF m = "strong"
       THEN good' = Saturated(good) /\ bad' = 0 /\ voiced' = (good' >= Attack)
       ELSE good' = 0 /\ bad' = Saturated(bad) /\ voiced' = FALSE

Voiced(m) ==
    /\ voiced
    /\ IF m \in {"fair", "strong"}
       THEN good' = Saturated(good) /\ bad' = 0 /\ voiced' = TRUE
       ELSE /\ good' = 0 /\ bad' = Saturated(bad)
            /\ voiced' = (bad' < IF m = "silence" THEN 2 ELSE Release)

(* A hop is measured: the boundary moves on by a step, the input never     *)
(* moves back.  A voiced hop has a period, an unvoiced one may have.       *)
Measure ==
    \E m \in Measurement, p \in Period \union {0}, step \in HopStep, l \in Lag :
        /\ phase = "measure"
        /\ Unvoiced(m) \/ Voiced(m)
        /\ voiced' => p # 0
        /\ l + step >= lag
        /\ period' = p /\ lag' = l
        /\ previous' = Behind(previous, step)
        /\ newest' = Behind(newest, step)
        /\ phase' = IF voiced' THEN "track" ELSE "lose"
        /\ UNCHANGED <<coasts, coherent, failures, coasting, state, misses>>

-----------------------------------------------------------------------------
(* update_marks, unvoiced: coast on predicted marks for a while, or unlock  *)

\* can_coast is taken when the hop begins.  A step that changes the state
\* before a failed search clears the failures too, or starts from no lock, so
\* that where it is used the state is still as good.
CanCoast == coasts /\ state \in {"Locked", "Coasting"} /\ coasting < MaxCoastHops

\* Bug: hops spent coasting are not counted.
BugCoast ==
    /\ phase = "lose"
    /\ CanCoast
    /\ state' = "Coasting"
    /\ phase' = "coast"
    /\ UNCHANGED <<hop, previous, newest, coherent, failures, coasting, misses>>

Coast ==
    /\ phase = "lose"
    /\ CanCoast
    /\ coasting' = coasting + 1
    /\ state' = "Coasting"
    /\ phase' = "coast"
    /\ UNCHANGED <<hop, previous, newest, coherent, failures, misses>>

(* mark_failures_ stays as it is. *)
Lose ==
    /\ phase = "lose"
    /\ ~CanCoast
    /\ previous' = NoMark
    /\ coherent' = 0 /\ coasting' = 0
    /\ state' = "Unlocked"
    /\ phase' = "measure"
    /\ UNCHANGED <<hop, newest, failures, misses>>

MorePredicted == previous # NoMark /\ period # 0 /\ previous + period <= 0

PredictMark ==
    /\ phase = "coast"
    /\ MorePredicted
    /\ previous' = previous + period
    /\ newest' = previous'
    /\ misses' = 0
    /\ UNCHANGED <<hop, phase, coherent, failures, coasting, state>>

CoastEnd ==
    /\ phase = "coast"
    /\ ~MorePredicted
    /\ phase' = "measure"
    /\ UNCHANGED <<hop, previous, newest, coherent, failures, coasting, state, misses>>

-----------------------------------------------------------------------------
(* update_marks, voiced: anchor a first mark, or a new one if the last is   *)
(* out of the audio history, ...                                           *)

\* Bug: the history is not taken into account.
BugTimedOut == FALSE

TimedOut == previous # NoMark /\ previous + period + History <= lag

\* Bug: a track that timed out keeps its state.
BugAnchorMark ==
    /\ previous' = 0 /\ newest' = 0
    /\ coherent' = 1
    /\ misses' = 0
    /\ state' = IF state = "Unlocked" THEN "Acquiring" ELSE state

AnchorMark ==
    /\ previous' = 0 /\ newest' = 0
    /\ coherent' = 1
    /\ misses' = 0
    /\ state' = "Acquiring"

(* mark_failures_ stays as it is. *)
Anchor ==
    /\ phase = "track"
    /\ previous = NoMark
    /\ AnchorMark
    /\ coasting' = 0
    /\ phase' = "search"
    /\ UNCHANGED <<hop, failures>>

MarkTimeout ==
    /\ phase = "track"
    /\ TimedOut
    /\ AnchorMark
    /\ coasting' = 0 /\ failures' = 0
    /\ phase' = "search"
    /\ UNCHANGED hop

Follow ==
    /\ phase = "track"
    /\ previous # NoMark /\ ~TimedOut
    /\ coasting' = 0
    /\ phase' = "search"
    /\ UNCHANGED <<hop, previous, newest, coherent, failures, state, misses>>

(* ... then search for one mark a period, as far as the boundary and the   *)
(* input go.                                                               *)
Predicted == previous + period
Searchable ==
    /\ previous # NoMark
    /\ Predicted <= 0
    /\ Predicted + period \div 2 < lag

\* Bug: the offset is taken from the mark before, not from the prediction.
BugAccept ==
    /\ phase = "search"
    /\ Searchable
    /\ \E offset \in -Radius(period)..Radius(period) : previous' = previous + offset
    /\ newest' = previous'
    /\ coherent' = Saturated(coherent)
    /\ failures' = 0 /\ misses' = 0
    /\ state' = IF coherent' >= 3 THEN "Locked" ELSE state
    /\ UNCHANGED <<hop, phase, coasting>>

\* Bug: a mark that is found does not clear the failures before it.
BugAcceptKeeps ==
    /\ phase = "search"
    /\ Searchable
    /\ \E offset \in -Radius(period)..Radius(period) : previous' = Predicted + offset
    /\ newest' = previous'
    /\ coherent' = Saturated(coherent)
    /\ misses' = 0
    /\ state' = IF coherent' >= 3 THEN "Locked" ELSE state
    /\ UNCHANGED <<hop, phase, coasting, failures>>

Accept ==
    /\ phase = "search"
    /\ Searchable
    /\ \E offset \in -Radius(period)..Radius(period) : previous' = Predicted + offset
    /\ newest' = previous'
    /\ coherent' = Saturated(coherent)
    /\ failures' = 0 /\ misses' = 0
    /\ state' = IF coherent' >= 3 THEN "Locked" ELSE state
    /\ UNCHANGED <<hop, phase, coasting>>

(* A failed search ends the hop; the third one in a row coasts or unlocks. *)
Failures == (failures + 1) % (Byte + 1)

Reject ==
    /\ phase = "search"
    /\ Searchable
    /\ Failures < 3
    /\ failures' = Failures
    /\ misses' = Saturated(misses)
    /\ phase' = "measure"
    /\ UNCHANGED <<hop, previous, newest, coherent, coasting, state>>

RejectCoast ==
    /\ phase = "search"
    /\ Searchable
    /\ Failures >= 3
    /\ CanCoast
    /\ failures' = Failures
    /\ misses' = Saturated(misses)
    /\ coasting' = coasting + 1
    /\ state' = "Coasting"
    /\ phase' = "measure"
    /\ UNCHANGED <<hop, previous, newest, coherent>>

RejectUnlock ==
    /\ phase = "search"
    /\ Searchable
    /\ Failures >= 3
    /\ ~CanCoast
    /\ previous' = NoMark
    /\ coherent' = 0 /\ failures' = 0 /\ coasting' = 0
    /\ misses' = Saturated(misses)
    /\ state' = "Unlocked"
    /\ phase' = "measure"
    /\ UNCHANGED <<hop, newest>>

SearchEnd ==
    /\ phase = "search"
    /\ ~Searchable
    /\ phase' = "measure"
    /\ UNCHANGED <<hop, previous, newest, coherent, failures, coasting, state, misses>>

Next ==
    \/ Measure
    \/ Coast \/ Lose \/ PredictMark \/ CoastEnd
    \/ Anchor \/ MarkTimeout \/ Follow
    \/ Accept \/ Reject \/ RejectCoast \/ RejectUnlock \/ SearchEnd

Spec == Init /\ [][Next]_vars

(* Hops follow as long as the audio task feeds samples to the worker. *)
FairSpec == Spec /\ WF_vars(Next)

-----------------------------------------------------------------------------
Position == -Far..Far

TypeOK ==
    /\ coasts \in BOOLEAN
    /\ phase \in {"measure", "lose", "coast", "track", "search"}
    /\ voiced \in BOOLEAN /\ good \in 0..Byte /\ bad \in 0..Byte
    /\ period \in Period \union {0} /\ lag \in Lag \union {0}
    /\ previous \in Position \union {NoMark} /\ newest \in Position
    /\ coherent \in 0..Byte /\ failures \in 0..Byte /\ misses \in 0..Byte
    /\ coasting \in 0..MaxCoastHops
    /\ state \in {"Unlocked", "Acquiring", "Locked", "Coasting"}

(* The state the audio task reads is never ahead of the marks: a track is  *)
(* locked, or coasting on an earlier lock, only with three coherent marks  *)
(* and a mark to go on from, and it is unlocked only without one.          *)
LockedIsEarned ==
    /\ state \in {"Locked", "Coasting"} => coherent >= 3
    /\ state = "Unlocked" <=> previous = NoMark

(* Marks go into the ring in order of position, also when a track was lost *)
(* or timed out and a new one is anchored: an anchor never lies behind the *)
(* marks of the old track, which a search may have placed after the        *)
(* boundary of its hop.                                                    *)
Marked == PredictMark \/ Anchor \/ MarkTimeout \/ Accept
MarksIncrease == [][Marked => newest' > newest]_vars

(* What pitch_analysis.md says: three failed searches unlock a track. *)
ThreeFailuresUnlock == [][RejectUnlock => misses >= 2]_vars

(* ... which is so for a track that was locked. *)
LockedSurvivesTwo == [][RejectUnlock /\ state = "Locked" => misses = 2]_vars

(* When the voice is gone for good, so is the track: coasting ends.        *)
SilenceUnlocks == <>[]~voiced => <>[](state = "Unlocked")

(* A voice that goes on without ever correlating does not coast for good:  *)
(* each voiced hop starts the count of coasting hops anew, and it is the   *)
(* age of the last mark that ends it.                                      *)
CoastingEnds == <>[]voiced => []<>(state # "Coasting")
=============================================================================
