-------------------------- MODULE PitchShare_proof --------------------------
(***************************************************************************)
(* What the audio task takes from the worker, for every size of the        *)
(* mailbox and of the ring of marks: first the mailbox, then the ring, and  *)
(* then the two together.                                                  *)
(***************************************************************************)
EXTENDS PitchShare, TLAPS

-----------------------------------------------------------------------------
(***************************************************************************)
(* That readers of the mailbox get whole and fresh publications, for every *)
(* number of publishers, readers and fields and every even counter width.  *)
(*                                                                         *)
(* The argument: while a read is on, the counter has moved away from the   *)
(* value the read began with by exactly the number of increments since     *)
(* (Lag), which is less than the modulus; so the two are equal only if     *)
(* there was none, and then every field was read from one publication.     *)
(***************************************************************************)

Writing == \E p \in Publisher : publisher[p] = "write"

(* The lock is what its holders make of it. *)
LockInv ==
    /\ locked <=> \E p \in Publisher : publisher[p] # "idle"
    /\ OnePublisher

(* The counter is odd exactly while a publication is under way. *)
CountInv ==
    /\ begun = IF Writing THEN completed + 1 ELSE completed
    /\ seq % 2 = begun - completed

(* A field holds the last complete publication, or the one under way.      *)
FieldInv ==
    /\ \A f \in Field : fields[f] \in {completed, begun}
    /\ \A p \in Publisher : publisher[p] = "write" =>
            \A f \in Field \ unwritten[p] : fields[f] = begun

Distance(s, t) == IF t >= s THEN t - s ELSE t - s + SeqModulus
Lag(r) == begun + completed - 2 * floor[r]

ReadInv ==
    \A r \in Reader : reader[r] = "read" =>
        /\ floor[r] <= completed /\ 2 * (begun - floor[r]) < SeqModulus
        /\ Distance(before[r], seq) = Lag(r)
        /\ \A f \in Field \ unread[r] :
              /\ floor[r] <= candidate[r][f] /\ candidate[r][f] <= begun
              /\ Lag(r) = 0 => candidate[r][f] = floor[r]

IInv ==
    /\ TypeOK
    /\ LockInv
    /\ CountInv
    /\ FieldInv
    /\ ReadInv
    /\ SnapshotsWhole

-----------------------------------------------------------------------------
(* fetch_add steps to the next value, wraps at the modulus, and turns an   *)
(* even counter odd and an odd one even.                                   *)
LEMMA IncrementWraps ==
    ASSUME NEW s \in SeqValue
    PROVE  /\ Increment(s) \in SeqValue
           /\ Increment(s) = IF s + 1 = SeqModulus THEN 0 ELSE s + 1
           /\ Increment(s) % 2 = 1 - (s % 2)
<1> DEFINE next == IF s + 1 = SeqModulus THEN 0 ELSE s + 1
<1>1. s \in Nat /\ s < SeqModulus /\ SeqModulus \in Nat /\ SeqModulus % 2 = 0
      BY MailboxAssumption DEF SeqValue
<1>2. Increment(s) = next  BY <1>1 DEF Increment
<1>3. next \in SeqValue  BY <1>1 DEF SeqValue
<1>4. next % 2 = 1 - (s % 2)  BY <1>1
<1> QED  BY <1>2, <1>3, <1>4

(* As long as the counter has not come round, an increment takes it one    *)
(* further from any earlier value.                                         *)
LEMMA IncrementDistance ==
    ASSUME NEW s \in SeqValue, NEW t \in SeqValue,
           Distance(s, t) + 1 < SeqModulus
    PROVE  Distance(s, Increment(t)) = Distance(s, t) + 1
<1>1. /\ s \in Nat /\ t \in Nat /\ s < SeqModulus /\ t < SeqModulus
      /\ SeqModulus \in Nat
      BY MailboxAssumption DEF SeqValue
<1>2. Increment(t) = IF t + 1 = SeqModulus THEN 0 ELSE t + 1
      BY IncrementWraps
<1>3. CASE t + 1 = SeqModulus
  <2>1. t >= s /\ Increment(t) = 0  BY <1>1, <1>2, <1>3
  <2>2. Distance(s, t) = t - s  BY <2>1 DEF Distance
  <2>3. s > 0  BY <1>1, <1>3, <2>2
  <2> QED  BY <1>1, <1>3, <2>1, <2>2, <2>3 DEF Distance
<1>4. CASE t + 1 # SeqModulus
  <2>1. Increment(t) = t + 1  BY <1>2, <1>4
  <2>2. s # t + 1  BY <1>1 DEF Distance
  <2> QED  BY <1>1, <2>1, <2>2 DEF Distance
<1> QED  BY <1>3, <1>4

LEMMA InitIInv == Init => IInv
<1> SUFFICES ASSUME Init PROVE IInv
    OBVIOUS
<1>0. 0 \in SeqValue  BY MailboxAssumption DEF SeqValue
<1>1. TypeOK  BY <1>0 DEF Init, TypeOK, Nothing
<1>2. LockInv  BY DEF Init, LockInv, OnePublisher
<1>3. CountInv  BY DEF Init, CountInv, Writing
<1>4. FieldInv  BY DEF Init, FieldInv, Nothing
<1>5. ReadInv  BY DEF Init, ReadInv
<1>6. SnapshotsWhole  BY DEF Init, SnapshotsWhole, Nothing
<1> QED  BY <1>1, <1>2, <1>3, <1>4, <1>5, <1>6 DEF IInv

-----------------------------------------------------------------------------
(* Publishing *)

LEMMA LockIInv ==
    ASSUME IInv, NEW p \in Publisher, Lock(p)
    PROVE  IInv'
<1> USE DEF IInv, Lock, readerVars
<1>1. TypeOK'  BY DEF TypeOK
<1>2. LockInv'  BY DEF TypeOK, LockInv, OnePublisher
<1>3. Writing' <=> Writing  BY DEF Writing, TypeOK
<1>4. CountInv'  BY <1>3 DEF CountInv
<1>5. FieldInv'  BY DEF FieldInv, TypeOK
<1>6. ReadInv'  BY DEF ReadInv, Lag
<1>7. SnapshotsWhole'  BY DEF SnapshotsWhole
<1> QED  BY <1>1, <1>2, <1>4, <1>5, <1>6, <1>7

LEMMA OpenIInv ==
    ASSUME IInv, NEW p \in Publisher, Open(p)
    PROVE  IInv'
<1> USE DEF IInv, Open, readerVars
<1>1. ~Writing  BY DEF Writing, LockInv, OnePublisher
<1>2. begun = completed /\ begun \in Nat /\ begun' = begun + 1
      BY <1>1 DEF CountInv, TypeOK
<1>3. TypeOK'  BY <1>2, IncrementWraps DEF TypeOK
<1>4. LockInv'  BY DEF TypeOK, LockInv, OnePublisher
<1>5. Writing'  BY DEF Writing, TypeOK
<1>6. CountInv'  BY <1>2, <1>5, IncrementWraps DEF CountInv, TypeOK
<1>7. FieldInv'
  <2>1. \A f \in Field : fields'[f] \in {completed', begun'}
        BY <1>2 DEF FieldInv
  <2>2. ASSUME NEW q \in Publisher, publisher'[q] = "write"
        PROVE  unwritten'[q] = Field
        BY <1>1, <2>2 DEF Writing, TypeOK
  <2> QED  BY <2>1, <2>2 DEF FieldInv
<1>8. ReadInv'
  <2> SUFFICES ASSUME NEW r \in Reader, reader[r] = "read"
               PROVE  /\ floor[r] <= completed
                      /\ 2 * (begun' - floor[r]) < SeqModulus
                      /\ Distance(before[r], seq') = Lag(r)'
                      /\ \A f \in Field \ unread[r] :
                           /\ floor[r] <= candidate[r][f]
                           /\ candidate[r][f] <= begun'
                           /\ Lag(r)' = 0 => candidate[r][f] = floor[r]
      BY DEF ReadInv
  <2>1. /\ floor[r] \in Nat /\ completed \in Nat /\ floor[r] <= completed
        /\ 2 * (begun' - floor[r]) < SeqModulus
        BY <1>2 DEF TypeOK, ReadInv, NoLap
  <2>2. Lag(r)' = Lag(r) + 1 /\ Lag(r) = 2 * (begun - floor[r])
        BY <1>2, <2>1 DEF Lag
  <2>3. Distance(before[r], seq) + 1 < SeqModulus
        BY <1>2, <2>1, <2>2, MailboxAssumption DEF ReadInv
  <2>4. Distance(before[r], seq') = Lag(r)'
        BY <2>2, <2>3, IncrementDistance DEF TypeOK, ReadInv
  <2>5. \A f \in Field \ unread[r] :
            candidate[r][f] \in Nat /\ floor[r] <= candidate[r][f]
            /\ candidate[r][f] <= begun
        BY DEF TypeOK, ReadInv
  <2> QED  BY <1>2, <2>1, <2>2, <2>4, <2>5
<1>9. SnapshotsWhole'  BY DEF SnapshotsWhole
<1> QED  BY <1>3, <1>4, <1>6, <1>7, <1>8, <1>9

LEMMA WriteIInv ==
    ASSUME IInv, NEW p \in Publisher, NEW f \in Field, Write(p, f)
    PROVE  IInv'
<1> USE DEF IInv, Write, readerVars
<1>1. TypeOK'  BY DEF TypeOK
<1>2. LockInv'  BY DEF LockInv, OnePublisher
<1>3. CountInv'  BY DEF CountInv, Writing
<1>4. FieldInv'
  <2>1. \A g \in Field : fields'[g] = IF g = f THEN begun ELSE fields[g]
        BY DEF TypeOK
  <2>2. \A q \in Publisher : publisher[q] = "write" => q = p
        BY DEF LockInv, OnePublisher
  <2>3. unwritten'[p] = unwritten[p] \ {f}  BY DEF TypeOK
  <2> QED  BY <2>1, <2>2, <2>3 DEF FieldInv
<1>5. ReadInv'  BY DEF ReadInv, Lag
<1>6. SnapshotsWhole'  BY DEF SnapshotsWhole
<1> QED  BY <1>1, <1>2, <1>3, <1>4, <1>5, <1>6

LEMMA CloseIInv ==
    ASSUME IInv, NEW p \in Publisher, Close(p)
    PROVE  IInv'
<1> USE DEF IInv, Close, readerVars
<1>1. begun = completed + 1 /\ completed \in Nat /\ completed' = begun
      BY DEF CountInv, Writing, TypeOK
<1>2. ~Writing'  BY DEF Writing, LockInv, OnePublisher, TypeOK
<1>3. TypeOK'  BY IncrementWraps DEF TypeOK
<1>4. LockInv'  BY DEF TypeOK, LockInv, OnePublisher
<1>5. CountInv'  BY <1>1, <1>2, IncrementWraps DEF CountInv, TypeOK
<1>6. FieldInv'
  <2>1. \A f \in Field : fields'[f] = begun  BY DEF FieldInv
  <2> QED  BY <1>1, <1>2, <2>1 DEF FieldInv, Writing
<1>7. ReadInv'
  <2> SUFFICES ASSUME NEW r \in Reader, reader[r] = "read"
               PROVE  /\ floor[r] <= completed'
                      /\ 2 * (begun - floor[r]) < SeqModulus
                      /\ Distance(before[r], seq') = Lag(r)'
                      /\ \A f \in Field \ unread[r] :
                           /\ floor[r] <= candidate[r][f]
                           /\ candidate[r][f] <= begun
                           /\ Lag(r)' = 0 => candidate[r][f] = floor[r]
      BY DEF ReadInv
  <2>1. /\ floor[r] \in Nat /\ floor[r] <= completed
        /\ 2 * (begun - floor[r]) < SeqModulus
        BY DEF TypeOK, ReadInv
  <2>2. Lag(r)' = Lag(r) + 1 /\ Lag(r)' = 2 * (begun - floor[r]) /\ Lag(r)' > 0
        BY <1>1, <2>1 DEF Lag
  <2>3. Distance(before[r], seq) + 1 < SeqModulus
        BY <1>1, <2>1, <2>2, MailboxAssumption DEF ReadInv, Lag
  <2>4. Distance(before[r], seq') = Lag(r)'
        BY <2>2, <2>3, IncrementDistance DEF TypeOK, ReadInv
  <2>5. \A f \in Field \ unread[r] :
            floor[r] <= candidate[r][f] /\ candidate[r][f] <= begun
        BY DEF ReadInv
  <2> QED  BY <1>1, <2>1, <2>2, <2>4, <2>5
<1>8. SnapshotsWhole'  BY DEF SnapshotsWhole
<1> QED  BY <1>3, <1>4, <1>5, <1>6, <1>7, <1>8

LEMMA UnlockIInv ==
    ASSUME IInv, NEW p \in Publisher, Unlock(p)
    PROVE  IInv'
<1> USE DEF IInv, Unlock, readerVars
<1>1. TypeOK'  BY DEF TypeOK
<1>2. LockInv'  BY DEF TypeOK, LockInv, OnePublisher
<1>3. Writing' <=> Writing  BY DEF Writing, TypeOK
<1>4. CountInv'  BY <1>3 DEF CountInv
<1>5. FieldInv'  BY DEF FieldInv, TypeOK
<1>6. ReadInv'  BY DEF ReadInv, Lag
<1>7. SnapshotsWhole'  BY DEF SnapshotsWhole
<1> QED  BY <1>1, <1>2, <1>4, <1>5, <1>6, <1>7

-----------------------------------------------------------------------------
(* Reading *)

LEMMA PublisherSideKept ==
    ASSUME LockInv, CountInv, FieldInv, UNCHANGED publisherVars
    PROVE  LockInv' /\ CountInv' /\ FieldInv'
BY DEF publisherVars, LockInv, OnePublisher, CountInv, Writing, FieldInv

LEMMA ReadBeginIInv ==
    ASSUME IInv, NEW r \in Reader, ReadBegin(r)
    PROVE  IInv'
<1> USE DEF IInv, ReadBegin
<1>1. begun = completed /\ completed \in Nat
      BY DEF CountInv, TypeOK
<1>2. TypeOK'  BY DEF TypeOK, publisherVars
<1>3. ReadInv'
  <2> SUFFICES ASSUME NEW q \in Reader, reader'[q] = "read"
               PROVE  /\ floor'[q] <= completed
                      /\ 2 * (begun - floor'[q]) < SeqModulus
                      /\ Distance(before'[q], seq) = Lag(q)'
                      /\ \A f \in Field \ unread'[q] :
                           /\ floor'[q] <= candidate[q][f]
                           /\ candidate[q][f] <= begun
                           /\ Lag(q)' = 0 => candidate[q][f] = floor'[q]
      BY DEF ReadInv, publisherVars
  <2>1. CASE q = r
    <3>1. floor'[q] = completed /\ before'[q] = seq /\ unread'[q] = Field
          BY <2>1 DEF TypeOK
    <3>2. Lag(q)' = 0  BY <1>1, <3>1 DEF Lag, publisherVars
    <3> QED  BY <1>1, <3>1, <3>2, MailboxAssumption DEF Distance, TypeOK, SeqValue
  <2>2. CASE q # r
    <3>1. /\ floor'[q] = floor[q] /\ before'[q] = before[q]
          /\ unread'[q] = unread[q] /\ reader[q] = "read"
          BY <2>2 DEF TypeOK
    <3>2. Lag(q)' = Lag(q)  BY <3>1 DEF Lag, publisherVars
    <3> QED  BY <3>1, <3>2 DEF ReadInv
  <2> QED  BY <2>1, <2>2
<1>4. SnapshotsWhole'  BY DEF SnapshotsWhole
<1> QED  BY <1>2, <1>3, <1>4, PublisherSideKept

LEMMA ReadFieldIInv ==
    ASSUME IInv, NEW r \in Reader, NEW g \in Field, ReadField(r, g)
    PROVE  IInv'
<1> USE DEF IInv, ReadField
<1>1. TypeOK'  BY DEF TypeOK, publisherVars
<1>2. ReadInv'
  <2> SUFFICES ASSUME NEW q \in Reader, reader[q] = "read"
               PROVE  /\ floor[q] <= completed
                      /\ 2 * (begun - floor[q]) < SeqModulus
                      /\ Distance(before[q], seq) = Lag(q)
                      /\ \A f \in Field \ unread'[q] :
                           /\ floor[q] <= candidate'[q][f]
                           /\ candidate'[q][f] <= begun
                           /\ Lag(q) = 0 => candidate'[q][f] = floor[q]
      BY DEF ReadInv, publisherVars, Lag
  <2>1. ASSUME NEW f \in Field \ unread'[q]
        PROVE  /\ floor[q] <= candidate'[q][f]
               /\ candidate'[q][f] <= begun
               /\ Lag(q) = 0 => candidate'[q][f] = floor[q]
    <3>1. CASE q = r /\ f = g
      <4>1. candidate'[q][f] = fields[f]  BY <3>1 DEF TypeOK
      <4>2. fields[f] \in {completed, begun}  BY DEF FieldInv
      <4>3. completed <= begun /\ completed \in Nat /\ begun \in Nat
            BY DEF CountInv, TypeOK
      <4>4. floor[q] <= completed /\ floor[q] \in Nat  BY DEF ReadInv, TypeOK
      <4> QED  BY <4>1, <4>2, <4>3, <4>4 DEF Lag
    <3>2. CASE q # r \/ f # g
      <4>1. candidate'[q][f] = candidate[q][f] /\ f \notin unread[q]
            BY <2>1, <3>2 DEF TypeOK
      <4> QED  BY <4>1 DEF ReadInv
    <3> QED  BY <3>1, <3>2
  <2> QED  BY <2>1 DEF ReadInv
<1>3. SnapshotsWhole'  BY DEF SnapshotsWhole
<1> QED  BY <1>1, <1>2, <1>3, PublisherSideKept

(* An accepted copy holds, in every field, the publication that was the    *)
(* last complete one when the read began, and still is.                    *)
LEMMA AcceptedCopy ==
    ASSUME IInv, NEW r \in Reader, ReadEnd(r), seq = before[r]
    PROVE  /\ floor[r] = completed
           /\ \A f \in Field : candidate[r][f] = completed
<1>1. Distance(before[r], seq) = Lag(r) /\ floor[r] <= completed
      BY DEF IInv, ReadInv, ReadEnd
<1>2. Lag(r) = 0  BY <1>1 DEF Distance, IInv, TypeOK, SeqValue
<1>3. completed <= begun /\ completed \in Nat /\ begun \in Nat /\ floor[r] \in Nat
      BY DEF IInv, CountInv, TypeOK
<1>4. floor[r] = completed
  <2>1. begun + completed - 2 * floor[r] = 0  BY <1>2 DEF Lag
  <2>2. \A b, c, f \in Nat : b + c - 2 * f = 0 /\ f <= c /\ c <= b => f = c
        OBVIOUS
  <2> QED  BY <1>1, <1>3, <2>1, <2>2
<1> QED  BY <1>2, <1>4 DEF IInv, ReadInv, ReadEnd

LEMMA ReadEndIInv ==
    ASSUME IInv, NEW r \in Reader, ReadEnd(r)
    PROVE  IInv'
<1> USE DEF IInv, ReadEnd
<1>1. TypeOK'
  <2>1. result' \in [Reader -> [Field -> Nat]]  BY DEF TypeOK
  <2> QED  BY <2>1 DEF TypeOK, publisherVars
<1>2. ReadInv'  BY DEF ReadInv, publisherVars, Lag, TypeOK
<1>3. SnapshotsWhole'
  <2>1. CASE seq = before[r]
        BY <2>1, AcceptedCopy DEF SnapshotsWhole, TypeOK
  <2>2. CASE seq # before[r]  BY <2>2 DEF SnapshotsWhole
  <2> QED  BY <2>1, <2>2
<1> QED  BY <1>1, <1>2, <1>3, PublisherSideKept

LEMMA NextIInv == IInv /\ [Next]_vars => IInv'
<1> SUFFICES ASSUME IInv, [Next]_vars PROVE IInv'
    OBVIOUS
<1>1. ASSUME NEW p \in Publisher, Publish(p) PROVE IInv'
      BY <1>1, LockIInv, OpenIInv, WriteIInv, CloseIInv, UnlockIInv DEF Publish
<1>2. ASSUME NEW r \in Reader, Read(r) PROVE IInv'
      BY <1>2, ReadBeginIInv, ReadFieldIInv, ReadEndIInv DEF Read
<1>3. CASE UNCHANGED vars
  <2>1. TypeOK'  BY <1>3 DEF IInv, TypeOK, vars
  <2>2. ReadInv'  BY <1>3 DEF IInv, ReadInv, Lag, vars
  <2>3. SnapshotsWhole'  BY <1>3 DEF IInv, SnapshotsWhole, vars
  <2> QED  BY <1>3, <2>1, <2>2, <2>3, PublisherSideKept
           DEF IInv, vars, publisherVars
<1> QED  BY <1>1, <1>2, <1>3 DEF Next

-----------------------------------------------------------------------------
(* The inductive invariant holds in every reachable state.                 *)
THEOREM Inductive == Spec => []IInv
BY InitIInv, NextIInv, PTL DEF Spec

(* The publisher lock keeps publications apart.                            *)
THEOREM PublishersExclusive == Spec => []OnePublisher
<1>1. IInv => OnePublisher  BY DEF IInv, LockInv
<1> QED  BY Inductive, <1>1, PTL

(* No accepted copy of the pitch is torn, whatever publishers and readers  *)
(* do at the same time and however often the counter wraps.                *)
THEOREM CopiesWhole == Spec => []SnapshotsWhole
<1>1. IInv => SnapshotsWhole  BY DEF IInv
<1> QED  BY Inductive, <1>1, PTL

(* No accepted copy is older than what was complete when its read began.   *)
THEOREM CopiesFresh == Spec => SnapshotsFresh
<1> DEFINE Fresh == \A r \in Reader : Accepted(r) =>
                        \A f \in Field : result'[r][f] \in floor[r]..completed
<1>1. IInv /\ [Next]_vars => [Fresh]_vars
  <2> SUFFICES ASSUME IInv, Next, NEW r \in Reader, Accepted(r), NEW f \in Field
               PROVE  result'[r][f] \in floor[r]..completed
      OBVIOUS
  <2>1. ASSUME NEW p \in Publisher, Publish(p) PROVE FALSE
        BY <2>1 DEF Publish, Lock, Open, Write, Close, Unlock, readerVars, Accepted
  <2>2. PICK q \in Reader : Read(q)  BY <2>1 DEF Next
  <2>3. q = r /\ ReadEnd(q)
        BY <2>2 DEF Read, ReadBegin, ReadField, ReadEnd, Accepted, IInv, TypeOK
  <2>4. seq = before[r] /\ result'[r] = candidate[r]
        BY <2>3 DEF ReadEnd, Accepted, IInv, TypeOK
  <2>5. completed \in Nat  BY DEF IInv, TypeOK
  <2> QED  BY <2>3, <2>4, <2>5, AcceptedCopy
<1> QED  BY Inductive, <1>1, PTL DEF Spec, SnapshotsFresh

-----------------------------------------------------------------------------
(***************************************************************************)
(* What the audio task copies of the marks, for every capacity of the ring, *)
(* every even counter width, and any number of marks and publications.     *)
(*                                                                         *)
(* The argument for the ring is that of the mailbox: the generation has    *)
(* moved away from the value a copy began with by exactly the number of     *)
(* its increments since, so an accepted copy was made while no mark was    *)
(* added.  A copy of a quiet ring is what the ring holds.                  *)
(***************************************************************************)

-----------------------------------------------------------------------------
(* Adding marks *)

(* The newest mark the metadata speaks of, and how many marks before it is *)
(* the one a slot holds.                                                   *)
Top == IF adder = "close" THEN entered ELSE added
Age(i, write) == IF i < write THEN write - 1 - i ELSE write - 1 - i + Capacity
Filling(i) == adder \in {"store", "metadata"} /\ i = writeIndex
Storing(i) == adder = "store" /\ i = writeIndex

RingTypes ==
    /\ generation \in Counter /\ writeIndex \in Slot /\ markCount \in 0..Capacity
    /\ sequence \in [Slot -> Counter] /\ parts \in [Slot -> [Part -> Nat]]
    /\ adder \in {"idle", "open", "store", "metadata", "close"}
    /\ unstored \subseteq Part
    /\ entered \in Nat /\ added \in Nat

CountsInv ==
    /\ entered = IF adder = "idle" THEN added ELSE added + 1
    /\ generation % 2 = entered - added
    /\ markCount = IF Top < Capacity THEN Top ELSE Capacity
    /\ \A i \in Slot : sequence[i] % 2 = IF Storing(i) THEN 1 ELSE 0

(* The slots hold the last marks, but for the one that is being filled. *)
HeldInv ==
    /\ \A i \in Slot : Age(i, writeIndex) < markCount /\ ~Filling(i) =>
          \A f \in Part : parts[i][f] = Top - Age(i, writeIndex)
    /\ \A i \in Slot : ~Storing(i) => \A f, g \in Part : parts[i][f] = parts[i][g]
    /\ adder = "store" => \A f \in Part \ unstored : parts[writeIndex][f] = entered
    /\ adder = "metadata" => \A f \in Part : parts[writeIndex][f] = entered

AddInv == RingTypes /\ CountsInv /\ HeldInv

-----------------------------------------------------------------------------
(* Copying them *)

CopierTypes ==
    /\ copier \in {"idle", "metadata", "slot", "load"}
    /\ limit \in Nat /\ addedBefore \in Nat
    /\ generationBefore \in Counter /\ slotBefore \in Counter
    /\ unloaded \subseteq Part /\ mark \in [Part -> Nat]
    /\ slots \in Seq(Slot) /\ copied \in Seq([Part -> Nat])
    /\ copier = "metadata" => copied = <<>>

Apart(s, t) == IF t >= s THEN t - s ELSE t - s + CounterModulus
Owed == IF adder = "open" THEN 2 ELSE IF adder = "store" THEN 1 ELSE 0

(* The generation counts what was begun and ended since the copy began, ... *)
RingLag ==
    copier # "idle" =>
        /\ addedBefore <= added
        /\ 2 * (entered - addedBefore) < CounterModulus
        /\ Apart(generationBefore, generation) = entered + added - 2 * addedBefore

(* ... and the counter of a slot at most that; where it has not moved, the *)
(* words are those of the slot.                                            *)
SlotLag ==
    copier = "load" =>
        /\ slots # <<>> /\ slotBefore % 2 = 0
        /\ Apart(slotBefore, sequence[slots[1]]) <= 2 * (entered - addedBefore) - Owed
        /\ sequence[slots[1]] = slotBefore =>
              \A f \in Part \ unloaded : mark[f] = parts[slots[1]][f]

(* If no mark was begun since, the copy is right so far: what is left are  *)
(* the newest slots, and what is copied are the marks before them.         *)
Quiet == entered = addedBefore
LastSeen == addedBefore - Len(slots)
UpTo == IF LastSeen < limit THEN LastSeen ELSE limit
RightSoFar ==
    copier \in {"slot", "load"} /\ Quiet =>
        /\ Len(slots) <= markCount
        /\ \A i \in 1..Len(slots) : Age(slots[i], writeIndex) = Len(slots) - i
        /\ Len(copied) = IF UpTo < Oldest THEN 0 ELSE UpTo - Oldest + 1
        /\ \A i \in 1..Len(copied) : copied[i] = [f \in Part |-> Oldest + i - 1]

CopyInv == CopierTypes /\ RingLag /\ SlotLag /\ RightSoFar /\ MarksWhole

MarkInv == AddInv /\ CopyInv

-----------------------------------------------------------------------------
(* Arithmetic of counters and slots *)

LEMMA BumpIs ==
    ASSUME NEW c \in Counter
    PROVE  /\ Bump(c) \in Counter
           /\ Bump(c) = IF c + 1 = CounterModulus THEN 0 ELSE c + 1
           /\ Bump(c) % 2 = 1 - (c % 2)
<1> DEFINE next == IF c + 1 = CounterModulus THEN 0 ELSE c + 1
<1>1. c \in Nat /\ c < CounterModulus /\ CounterModulus \in Nat /\ CounterModulus % 2 = 0
      BY RingAssumption DEF Counter
<1>2. Bump(c) = next  BY <1>1 DEF Bump
<1>3. next \in Counter  BY <1>1 DEF Counter
<1>4. next % 2 = 1 - (c % 2)  BY <1>1
<1> QED  BY <1>2, <1>3, <1>4

LEMMA BumpApart ==
    ASSUME NEW s \in Counter, NEW t \in Counter, Apart(s, t) + 1 < CounterModulus
    PROVE  Apart(s, Bump(t)) = Apart(s, t) + 1
<1>1. /\ s \in Nat /\ t \in Nat /\ s < CounterModulus /\ t < CounterModulus
      /\ CounterModulus \in Nat
      BY RingAssumption DEF Counter
<1>2. Bump(t) = IF t + 1 = CounterModulus THEN 0 ELSE t + 1  BY BumpIs
<1>3. CASE t + 1 = CounterModulus
  <2>1. t >= s /\ Bump(t) = 0  BY <1>1, <1>2, <1>3
  <2>2. Apart(s, t) = t - s  BY <2>1 DEF Apart
  <2>3. s > 0  BY <1>1, <1>3, <2>2
  <2> QED  BY <1>1, <1>3, <2>1, <2>2, <2>3 DEF Apart
<1>4. CASE t + 1 # CounterModulus
  <2>1. Bump(t) = t + 1  BY <1>2, <1>4
  <2>2. s # t + 1  BY <1>1 DEF Apart
  <2> QED  BY <1>1, <2>1, <2>2 DEF Apart
<1> QED  BY <1>3, <1>4

LEMMA ApartZero ==
    ASSUME NEW s \in Counter, NEW t \in Counter
    PROVE  Apart(s, t) \in Nat /\ (Apart(s, t) = 0 <=> s = t)
BY RingAssumption DEF Apart, Counter

LEMMA NextSlot ==
    ASSUME NEW w \in Slot
    PROVE  /\ (w + 1) % Capacity \in Slot
           /\ Age(w, (w + 1) % Capacity) = 0
           /\ \A i \in Slot : Age(i, w) \in 0..(Capacity - 1)
           /\ \A i \in Slot : i # w => Age(i, (w + 1) % Capacity) = Age(i, w) + 1
<1>1. (w + 1) % Capacity = IF w = Capacity - 1 THEN 0 ELSE w + 1
    BY RingAssumption DEF Slot
<1> QED  BY <1>1, RingAssumption DEF Slot, Age

(* The slots of the last n marks, oldest first. *)
LEMMA SlotOfMark ==
    ASSUME NEW w \in Slot, NEW n \in 0..Capacity, NEW i \in 1..n
    PROVE  /\ (w + Capacity - n + i - 1) % Capacity \in Slot
           /\ Age((w + Capacity - n + i - 1) % Capacity, w) = n - i
<1> DEFINE x == w + Capacity - n + i - 1
<1>1. x \in Nat /\ x < 2 * Capacity  BY RingAssumption DEF Slot
<1>2. x % Capacity = IF x < Capacity THEN x ELSE x - Capacity
  <2> HIDE DEF x
  <2> QED  BY <1>1, RingAssumption
<1> QED  BY <1>1, <1>2, RingAssumption DEF Slot, Age

-----------------------------------------------------------------------------
(* What an addition does to the ring ... *)

LEMMA OpenRingAdd == ASSUME AddInv, OpenRing PROVE AddInv'
<1> USE DEF AddInv, OpenRing, copierVars
<1>1. RingTypes'  BY BumpIs DEF RingTypes
<1>2. CountsInv'  BY BumpIs DEF RingTypes, CountsInv, Top, Storing
<1>3. HeldInv'  BY DEF RingTypes, HeldInv, Top, Filling, Storing
<1> QED  BY <1>1, <1>2, <1>3

LEMMA OpenSlotAdd == ASSUME AddInv, OpenSlot PROVE AddInv'
<1> USE DEF AddInv, OpenSlot, copierVars
<1>1. RingTypes'  BY BumpIs DEF RingTypes
<1>2. CountsInv'  BY BumpIs DEF RingTypes, CountsInv, Top, Storing
<1>3. HeldInv'  BY DEF RingTypes, HeldInv, Top, Filling, Storing
<1> QED  BY <1>1, <1>2, <1>3

LEMMA StorePartAdd == ASSUME AddInv, NEW f \in Part, StorePart(f) PROVE AddInv'
<1> USE DEF AddInv, StorePart, copierVars
<1>1. RingTypes'  BY DEF RingTypes
<1>2. CountsInv'  BY DEF RingTypes, CountsInv, Top, Storing
<1>3. \A i \in Slot : i # writeIndex => parts'[i] = parts[i]  BY DEF RingTypes
<1>4. \A g \in Part : parts'[writeIndex][g] = IF g = f THEN entered ELSE parts[writeIndex][g]
    BY DEF RingTypes
<1>5. HeldInv'  BY <1>3, <1>4 DEF HeldInv, Top, Filling, Storing
<1> QED  BY <1>1, <1>2, <1>5

LEMMA CloseSlotAdd == ASSUME AddInv, CloseSlot PROVE AddInv'
<1> USE DEF AddInv, CloseSlot, copierVars
<1>1. RingTypes'  BY BumpIs DEF RingTypes
<1>2. CountsInv'  BY BumpIs DEF RingTypes, CountsInv, Top, Storing
<1>3. HeldInv'  BY DEF RingTypes, HeldInv, Top, Filling, Storing
<1> QED  BY <1>1, <1>2, <1>3

LEMMA StoreMetadataAdd == ASSUME AddInv, StoreMetadata PROVE AddInv'
<1> USE DEF AddInv, StoreMetadata, copierVars
<1>1. RingTypes'  BY NextSlot, RingAssumption DEF RingTypes, NextCount
<1>2. Top' = Top + 1 /\ Top \in Nat /\ entered = Top'  BY DEF Top, CountsInv, RingTypes
<1>3. CountsInv'
    BY <1>2, RingAssumption DEF RingTypes, CountsInv, NextCount, Storing
<1>4. ASSUME NEW i \in Slot, Age(i, writeIndex') < markCount', NEW f \in Part
      PROVE  parts[i][f] = Top' - Age(i, writeIndex')
  <2>1. CASE i = writeIndex
    <3>1. Age(i, writeIndex') = 0  BY <2>1, NextSlot DEF RingTypes
    <3> QED  BY <1>2, <2>1, <3>1 DEF HeldInv, RingTypes
  <2>2. CASE i # writeIndex
    <3>1. Age(i, writeIndex') = Age(i, writeIndex) + 1
          /\ Age(i, writeIndex) \in 0..(Capacity - 1)
        BY <2>2, NextSlot DEF RingTypes
    <3>2. Age(i, writeIndex) < markCount
        BY <1>4, <3>1, RingAssumption DEF NextCount, RingTypes
    <3>3. parts[i][f] = Top - Age(i, writeIndex)
        BY <2>2, <3>2 DEF HeldInv, Filling
    <3> QED  BY <1>2, <3>1, <3>3
  <2> QED  BY <2>1, <2>2
<1>5. HeldInv'  BY <1>4 DEF HeldInv, Filling, Storing
<1> QED  BY <1>1, <1>3, <1>5

LEMMA CloseRingAdd == ASSUME AddInv, CloseRing PROVE AddInv'
<1> USE DEF AddInv, CloseRing, copierVars
<1>1. RingTypes'  BY BumpIs DEF RingTypes
<1>2. Top' = Top  BY DEF Top, CountsInv, RingTypes
<1>3. CountsInv'  BY <1>2, BumpIs DEF RingTypes, CountsInv, Storing
<1>4. HeldInv'  BY <1>2 DEF HeldInv, Filling, Storing
<1> QED  BY <1>1, <1>3, <1>4

(* ... and to a copy under way: the slot being written is not quiet, and   *)
(* nothing that the copy has seen is right any more once a mark is begun.  *)
LEMMA NotQuiet ==
    ASSUME MarkInv, copier # "idle", adder # "idle" PROVE ~Quiet
BY DEF MarkInv, AddInv, CopyInv, CopierTypes, RingTypes, CountsInv, RingLag, Quiet

LEMMA SlotTypes ==
    ASSUME MarkInv, copier = "load"
    PROVE  slots[1] \in Slot /\ sequence[slots[1]] \in Counter
BY DEF MarkInv, AddInv, RingTypes, CopyInv, CopierTypes, SlotLag

LEMMA OpenRingMark == ASSUME MarkInv, OpenRing PROVE MarkInv'
<1> USE DEF MarkInv, CopyInv
<1>1. AddInv'  BY OpenRingAdd
<1>2. CopierTypes' /\ MarksWhole'
    BY DEF OpenRing, copierVars, CopierTypes, MarksWhole
<1>3. entered = added /\ entered' = entered + 1 /\ added' = added
      /\ entered \in Nat /\ generation \in Counter
    BY DEF AddInv, RingTypes, CountsInv, OpenRing
<1>4. RingLag'
  <2> SUFFICES ASSUME copier # "idle"
               PROVE  /\ addedBefore <= added
                      /\ 2 * (entered' - addedBefore) < CounterModulus
                      /\ Apart(generationBefore, generation')
                            = entered' + added - 2 * addedBefore
      BY <1>3 DEF RingLag, OpenRing, copierVars
  <2>1. 2 * (entered + 1 - addedBefore) < CounterModulus /\ addedBefore \in Nat
      BY DEF OpenRing, NoCopyLap, CopierTypes
  <2>2. Apart(generationBefore, generation) + 1 < CounterModulus
      BY <1>3, <2>1, RingAssumption DEF RingLag
  <2>3. Apart(generationBefore, generation') = Apart(generationBefore, generation) + 1
      BY <1>3, <2>2, BumpApart DEF OpenRing, CopierTypes
  <2> QED  BY <1>3, <2>1, <2>3 DEF RingLag
<1>5. SlotLag'
    BY <1>3, SlotTypes, ApartZero DEF SlotLag, OpenRing, copierVars, Owed, CopierTypes
<1>6. RightSoFar'
    BY <1>3 DEF RightSoFar, RingLag, Quiet, OpenRing, copierVars, CopierTypes
<1> QED  BY <1>1, <1>2, <1>4, <1>5, <1>6

(* The steps between leave the generation and the counts alone. *)
LEMMA SameLag ==
    ASSUME MarkInv, UNCHANGED <<generation, entered, added, copierVars>>
    PROVE  CopierTypes' /\ RingLag' /\ MarksWhole'
BY DEF MarkInv, CopyInv, copierVars, CopierTypes, RingLag, MarksWhole

(* A slot's counter moves by one. *)
LEMMA BumpSlotLag ==
    ASSUME MarkInv, UNCHANGED <<entered, added, copierVars, parts>>,
           sequence' = [sequence EXCEPT ![writeIndex] = Bump(@)],
           Owed \in Nat \ {0}, Owed' = Owed - 1
    PROVE  SlotLag'
<1> SUFFICES ASSUME copier = "load"
             PROVE  /\ Apart(slotBefore, sequence'[slots[1]])
                           <= 2 * (entered - addedBefore) - Owed'
                    /\ sequence'[slots[1]] = slotBefore =>
                           \A f \in Part \ unloaded : mark[f] = parts[slots[1]][f]
    BY DEF MarkInv, CopyInv, SlotLag, copierVars
<1> DEFINE s == slots[1]
<1>1. s \in Slot /\ sequence[s] \in Counter /\ slotBefore \in Counter
    BY SlotTypes DEF MarkInv, CopyInv, CopierTypes
<1>2. /\ Apart(slotBefore, sequence[s]) <= 2 * (entered - addedBefore) - Owed
      /\ 2 * (entered - addedBefore) < CounterModulus
      /\ entered \in Nat /\ addedBefore \in Nat
      /\ sequence[s] = slotBefore => \A f \in Part \ unloaded : mark[f] = parts[s][f]
    BY DEF MarkInv, CopyInv, SlotLag, RingLag, AddInv, RingTypes, CopierTypes
<1>3. Apart(slotBefore, sequence[s]) \in Nat  BY <1>1, ApartZero
<1>4. sequence \in [Slot -> Counter] /\ writeIndex \in Slot
    BY DEF MarkInv, AddInv, RingTypes
<1>5. CASE s # writeIndex
  <2>1. sequence'[s] = sequence[s]  BY <1>1, <1>4, <1>5
  <2> QED  BY <1>2, <1>3, <2>1
<1>6. CASE s = writeIndex
  <2>1. sequence'[s] = Bump(sequence[s])  BY <1>4, <1>6
  <2>2. Apart(slotBefore, sequence[s]) + 1 < CounterModulus
      BY <1>2, <1>3, RingAssumption
  <2>3. Apart(slotBefore, sequence'[s]) = Apart(slotBefore, sequence[s]) + 1
      BY <1>1, <2>1, <2>2, BumpApart
  <2>4. sequence'[s] # slotBefore  BY <1>1, <1>3, <2>1, <2>3, BumpIs, ApartZero
  <2> QED  BY <1>2, <1>3, <2>3, <2>4
<1> QED  BY <1>5, <1>6

LEMMA SlotStepMark == ASSUME MarkInv, OpenSlot \/ CloseSlot PROVE MarkInv'
<1>1. AddInv'  BY OpenSlotAdd, CloseSlotAdd DEF MarkInv
<1>2. CopierTypes' /\ RingLag' /\ MarksWhole'
    BY SameLag DEF OpenSlot, CloseSlot
<1>3. SlotLag'  BY BumpSlotLag DEF OpenSlot, CloseSlot, Owed
<1>4. copier # "idle" => ~Quiet  BY NotQuiet DEF OpenSlot, CloseSlot
<1>5. RightSoFar'
    BY <1>4 DEF RightSoFar, Quiet, OpenSlot, CloseSlot, copierVars
<1> QED  BY <1>1, <1>2, <1>3, <1>5 DEF MarkInv, CopyInv

LEMMA StorePartMark ==
    ASSUME MarkInv, NEW f \in Part, StorePart(f) PROVE MarkInv'
<1>1. AddInv'  BY StorePartAdd DEF MarkInv
<1>2. CopierTypes' /\ RingLag' /\ MarksWhole'
    BY SameLag DEF StorePart
<1>3. SlotLag'
  <2>1. ASSUME copier = "load", sequence[slots[1]] = slotBefore
        PROVE  parts'[slots[1]] = parts[slots[1]]
    <3>1. slots[1] # writeIndex
        BY <2>1, SlotTypes
        DEF StorePart, MarkInv, AddInv, CountsInv, CopyInv, SlotLag, Storing
    <3> QED  BY <3>1, SlotTypes, <2>1 DEF StorePart, MarkInv, AddInv, RingTypes
  <2> QED  BY <2>1 DEF MarkInv, CopyInv, SlotLag, StorePart, copierVars, Owed
<1>4. copier # "idle" => ~Quiet  BY NotQuiet DEF StorePart
<1>5. RightSoFar'  BY <1>4 DEF RightSoFar, Quiet, StorePart, copierVars
<1> QED  BY <1>1, <1>2, <1>3, <1>5 DEF MarkInv, CopyInv

LEMMA StoreMetadataMark == ASSUME MarkInv, StoreMetadata PROVE MarkInv'
<1>1. AddInv'  BY StoreMetadataAdd DEF MarkInv
<1>2. CopierTypes' /\ RingLag' /\ MarksWhole'
    BY SameLag DEF StoreMetadata
<1>3. SlotLag'  BY DEF MarkInv, CopyInv, SlotLag, StoreMetadata, copierVars, Owed
<1>4. copier # "idle" => ~Quiet  BY NotQuiet DEF StoreMetadata
<1>5. RightSoFar'  BY <1>4 DEF RightSoFar, Quiet, StoreMetadata, copierVars
<1> QED  BY <1>1, <1>2, <1>3, <1>5 DEF MarkInv, CopyInv

LEMMA CloseRingMark == ASSUME MarkInv, CloseRing PROVE MarkInv'
<1> USE DEF MarkInv, CopyInv
<1>1. AddInv'  BY CloseRingAdd
<1>2. CopierTypes' /\ MarksWhole'
    BY DEF CloseRing, copierVars, CopierTypes, MarksWhole
<1>3. entered = added + 1 /\ entered' = entered /\ added' = added + 1
      /\ added \in Nat /\ generation \in Counter
    BY DEF AddInv, RingTypes, CountsInv, CloseRing
<1>4. RingLag'
  <2> SUFFICES ASSUME copier # "idle"
               PROVE  /\ addedBefore <= added'
                      /\ 2 * (entered' - addedBefore) < CounterModulus
                      /\ Apart(generationBefore, generation')
                            = entered' + added' - 2 * addedBefore
      BY DEF RingLag, CloseRing, copierVars
  <2>1. addedBefore \in Nat /\ addedBefore <= added
        /\ 2 * (entered - addedBefore) < CounterModulus
      BY DEF CopierTypes, RingLag
  <2>2. Apart(generationBefore, generation) + 1 < CounterModulus
      BY <1>3, <2>1, RingAssumption DEF RingLag
  <2>3. Apart(generationBefore, generation') = Apart(generationBefore, generation) + 1
      BY <1>3, <2>2, BumpApart DEF CloseRing, CopierTypes
  <2> QED  BY <1>3, <2>1, <2>3 DEF RingLag
<1>5. SlotLag'  BY DEF SlotLag, CloseRing, copierVars, Owed
<1>6. copier # "idle" => ~Quiet  BY NotQuiet DEF CloseRing
<1>7. RightSoFar'  BY <1>6 DEF RightSoFar, Quiet, CloseRing, copierVars
<1> QED  BY <1>1, <1>2, <1>4, <1>5, <1>7

LEMMA AddMarkInv == ASSUME MarkInv, AddMark PROVE MarkInv'
BY OpenRingMark, SlotStepMark, StorePartMark, StoreMetadataMark, CloseRingMark
   DEF AddMark

-----------------------------------------------------------------------------
(* What a step of the copy does: the ring stays as it is. *)

LEMMA SameRing == ASSUME MarkInv, UNCHANGED ringVars PROVE AddInv'
BY DEF MarkInv, AddInv, ringVars, RingTypes, CountsInv, HeldInv, Top, Filling, Storing

LEMMA CountsOrder ==
    ASSUME MarkInv, copier # "idle"
    PROVE  /\ addedBefore \in Nat /\ added \in Nat /\ entered \in Nat
           /\ addedBefore <= added /\ added <= entered
           /\ Quiet => added = addedBefore /\ adder = "idle"
BY DEF MarkInv, AddInv, RingTypes, CountsInv, CopyInv, CopierTypes, RingLag, Quiet

LEMMA QuietRing ==
    ASSUME MarkInv, copier # "idle", Quiet
    PROVE  /\ markCount = IF addedBefore < Capacity THEN addedBefore ELSE Capacity
           /\ \A i \in Slot : Age(i, writeIndex) < markCount =>
                 \A f \in Part : parts[i][f] = addedBefore - Age(i, writeIndex)
BY CountsOrder DEF MarkInv, AddInv, CountsInv, HeldInv, Top, Filling

LEMMA AttemptMark == ASSUME MarkInv, NEW end \in Nat, Attempt(end) PROVE MarkInv'
<1>1. AddInv'  BY SameRing DEF Attempt
<1>2. added = entered /\ added \in Nat /\ generation \in Counter
    BY DEF MarkInv, AddInv, RingTypes, CountsInv, Attempt
<1>3. CopierTypes'  BY <1>2 DEF MarkInv, CopyInv, CopierTypes, Attempt
<1>4. RingLag'
    BY <1>2, RingAssumption DEF RingLag, Attempt, ringVars, Apart, Counter
<1>5. SlotLag' /\ RightSoFar' /\ MarksWhole'
    BY DEF SlotLag, RightSoFar, MarksWhole, Attempt
<1> QED  BY <1>1, <1>3, <1>4, <1>5 DEF MarkInv, CopyInv

LEMMA LoadMetadataMark == ASSUME MarkInv, LoadMetadata PROVE MarkInv'
<1>1. AddInv'  BY SameRing DEF LoadMetadata
<1>2. writeIndex \in Slot /\ markCount \in 0..Capacity
    BY DEF MarkInv, AddInv, RingTypes
<1>3. \A i \in 1..markCount : slots'[i] \in Slot
                              /\ Age(slots'[i], writeIndex) = markCount - i
    BY <1>2, SlotOfMark DEF LoadMetadata
<1>4. slots' \in Seq(Slot) /\ Len(slots') = markCount
  <2>1. slots' \in [1..markCount -> Slot]  BY <1>3 DEF LoadMetadata
  <2>2. markCount \in Nat  BY <1>2, RingAssumption
  <2> QED  BY <2>1, <2>2
<1>5. CopierTypes'  BY <1>4 DEF MarkInv, CopyInv, CopierTypes, LoadMetadata
<1>6. RingLag' /\ SlotLag' /\ MarksWhole'
    BY DEF MarkInv, CopyInv, RingLag, SlotLag, MarksWhole, LoadMetadata, ringVars
<1>7. RightSoFar'
  <2> SUFFICES ASSUME Quiet PROVE
          /\ \A i \in 1..markCount : Age(slots'[i], writeIndex) = markCount - i
          /\ Len(copied) = IF UpTo' < Oldest THEN 0 ELSE UpTo' - Oldest + 1
          /\ \A i \in 1..Len(copied) : copied[i] = [f \in Part |-> Oldest + i - 1]
      BY <1>2, <1>4, RingAssumption
      DEF RightSoFar, LoadMetadata, ringVars, Quiet, Oldest
  <2>1. Len(copied) = 0  BY DEF MarkInv, CopyInv, CopierTypes, LoadMetadata
  <2>2. addedBefore \in Nat /\ limit \in Nat
        /\ markCount = IF addedBefore < Capacity THEN addedBefore ELSE Capacity
      BY QuietRing DEF MarkInv, CopyInv, CopierTypes, LoadMetadata
  <2>3. LastSeen' = addedBefore - markCount /\ limit' = limit
      BY <1>4 DEF LastSeen, LoadMetadata
  <2>4. LastSeen' < Oldest  BY <2>2, <2>3, RingAssumption DEF Oldest
  <2>5. UpTo' < Oldest  BY <2>2, <2>3, <2>4, RingAssumption DEF UpTo, Oldest
  <2> QED  BY <1>3, <2>1, <2>5
<1> QED  BY <1>1, <1>5, <1>6, <1>7 DEF MarkInv, CopyInv

LEMMA BeginSlotMark == ASSUME MarkInv, BeginSlot PROVE MarkInv'
<1>1. AddInv'  BY SameRing DEF BeginSlot
<1>2. slots \in Seq(Slot) /\ slots # <<>> /\ Head(slots) = slots[1] /\ slots[1] \in Slot
    BY DEF MarkInv, CopyInv, CopierTypes, BeginSlot
<1>3. sequence[slots[1]] \in Counter /\ slotBefore' = sequence[slots[1]]
      /\ sequence[slots[1]] % 2 = 0
    BY <1>2 DEF MarkInv, AddInv, RingTypes, BeginSlot
<1>4. CopierTypes' /\ RingLag' /\ MarksWhole'
    BY <1>3 DEF MarkInv, CopyInv, CopierTypes, RingLag, MarksWhole, BeginSlot, ringVars
<1>5. SlotLag'
  <2>1. Apart(slotBefore', sequence[slots[1]]) = 0  BY <1>3, ApartZero
  <2>2. Owed <= 2 * (entered - addedBefore) /\ Owed \in Nat
      BY CountsOrder DEF MarkInv, AddInv, CountsInv, Owed, BeginSlot
  <2>3. 2 * (entered - addedBefore) - Owed >= 0
      BY <2>2, CountsOrder DEF BeginSlot
  <2>4. Owed' = Owed  BY DEF Owed, BeginSlot, ringVars
  <2> QED  BY <1>2, <1>3, <2>1, <2>3, <2>4 DEF SlotLag, BeginSlot, ringVars
<1>6. RightSoFar'
    BY DEF MarkInv, CopyInv, RightSoFar, BeginSlot, ringVars, Quiet, UpTo, LastSeen, Oldest
<1> QED  BY <1>1, <1>4, <1>5, <1>6 DEF MarkInv, CopyInv

LEMMA LoadPartMark ==
    ASSUME MarkInv, NEW f \in Part, LoadPart(f) PROVE MarkInv'
<1>1. AddInv'  BY SameRing DEF LoadPart
<1>2. slots[1] \in Slot /\ Head(slots) = slots[1]
    BY SlotTypes DEF MarkInv, CopyInv, CopierTypes, SlotLag, LoadPart
<1>3. parts[slots[1]][f] \in Nat /\ mark \in [Part -> Nat] /\ unloaded \subseteq Part
    BY <1>2 DEF MarkInv, AddInv, RingTypes, CopyInv, CopierTypes
<1>4. CopierTypes' /\ RingLag' /\ MarksWhole'
    BY <1>2, <1>3
    DEF MarkInv, CopyInv, CopierTypes, RingLag, MarksWhole, LoadPart, ringVars
<1>5. SlotLag'
    BY <1>2, <1>3 DEF MarkInv, CopyInv, SlotLag, LoadPart, ringVars, Owed
<1>6. RightSoFar'
    BY DEF MarkInv, CopyInv, RightSoFar, LoadPart, ringVars, Quiet, UpTo, LastSeen, Oldest
<1> QED  BY <1>1, <1>4, <1>5, <1>6 DEF MarkInv, CopyInv

(* A slot whose counter did not move was not being written: its words are  *)
(* of one mark, and in a quiet ring it is the mark that comes next.        *)
LEMMA MarkRead ==
    ASSUME MarkInv, copier = "load", unloaded = {}, sequence[slots[1]] = slotBefore
    PROVE  /\ \A f, g \in Part : mark[f] = mark[g]
           /\ Quiet => mark = [f \in Part |-> LastSeen + 1]
<1>1. slots[1] \in Slot /\ slots \in Seq(Slot) /\ slots # <<>>
    BY SlotTypes DEF MarkInv, CopyInv, CopierTypes, SlotLag
<1>2. \A f \in Part : mark[f] = parts[slots[1]][f]
    BY DEF MarkInv, CopyInv, SlotLag
<1>3. ~Storing(slots[1])
    BY <1>1 DEF MarkInv, AddInv, CountsInv, CopyInv, SlotLag
<1>4. \A f, g \in Part : mark[f] = mark[g]
    BY <1>1, <1>2, <1>3 DEF MarkInv, AddInv, HeldInv
<1>5. ASSUME Quiet PROVE mark = [f \in Part |-> LastSeen + 1]
  <2>1. Len(slots) \in Nat /\ Len(slots) >= 1  BY <1>1
  <2>2. Len(slots) <= markCount /\ Age(slots[1], writeIndex) = Len(slots) - 1
      BY <1>5, <2>1 DEF MarkInv, CopyInv, RightSoFar
  <2>3. markCount \in Int  BY RingAssumption DEF MarkInv, AddInv, RingTypes
  <2>4. \A f \in Part : mark[f] = addedBefore - (Len(slots) - 1)
      BY <1>1, <1>2, <1>5, <2>1, <2>2, <2>3, QuietRing
  <2>5. addedBefore - (Len(slots) - 1) = LastSeen + 1
      BY <2>1, CountsOrder DEF LastSeen
  <2>6. mark \in [Part -> Nat]  BY DEF MarkInv, CopyInv, CopierTypes
  <2> QED  BY <2>4, <2>5, <2>6
<1> QED  BY <1>4, <1>5

LEMMA EndSlotMark == ASSUME MarkInv, EndSlot PROVE MarkInv'
<1> DEFINE m == LastSeen + 1
<1>1. AddInv'  BY SameRing DEF EndSlot
<1>2. /\ slots \in Seq(Slot) /\ slots # <<>> /\ Head(slots) = slots[1]
      /\ copied \in Seq([Part -> Nat]) /\ mark \in [Part -> Nat]
      /\ limit \in Nat
    BY DEF MarkInv, CopyInv, CopierTypes, SlotLag, EndSlot
<1>3. /\ \A f, g \in Part : mark[f] = mark[g]
      /\ Quiet => mark = [f \in Part |-> m]
    BY <1>2, MarkRead DEF EndSlot
<1>4. Tail(slots) \in Seq(Slot) /\ Len(Tail(slots)) = Len(slots) - 1
      /\ Len(slots) \in Nat /\ Len(slots) >= 1
      /\ \A i \in 1..Len(Tail(slots)) : Tail(slots)[i] = slots[i + 1]
    BY <1>2
<1>5. copied' \in Seq([Part -> Nat])  BY <1>2 DEF EndSlot
<1>6. CopierTypes'
    BY <1>4, <1>5, RingAssumption
    DEF MarkInv, CopyInv, CopierTypes, EndSlot, SlotLocals, NoMark, Counter
<1>7. RingLag' /\ SlotLag'
    BY DEF MarkInv, CopyInv, RingLag, SlotLag, EndSlot, ringVars
<1>8. MarksWhole'
    BY <1>2, <1>3 DEF MarkInv, CopyInv, MarksWhole, EndSlot
<1>9. RightSoFar'
  <2> SUFFICES ASSUME Quiet PROVE
          /\ Len(Tail(slots)) <= markCount
          /\ \A i \in 1..Len(Tail(slots)) :
                Age(Tail(slots)[i], writeIndex) = Len(Tail(slots)) - i
          /\ Len(copied') = IF UpTo' < Oldest THEN 0 ELSE UpTo' - Oldest + 1
          /\ \A i \in 1..Len(copied') : copied'[i] = [f \in Part |-> Oldest + i - 1]
      BY DEF RightSoFar, EndSlot, ringVars, Quiet, Oldest
  <2>1. /\ Len(slots) <= markCount
        /\ \A i \in 1..Len(slots) : Age(slots[i], writeIndex) = Len(slots) - i
        /\ Len(copied) = IF UpTo < Oldest THEN 0 ELSE UpTo - Oldest + 1
        /\ \A i \in 1..Len(copied) : copied[i] = [f \in Part |-> Oldest + i - 1]
      BY DEF MarkInv, CopyInv, RightSoFar, EndSlot
  <2>2. /\ addedBefore \in Nat
        /\ markCount = IF addedBefore < Capacity THEN addedBefore ELSE Capacity
      BY CountsOrder, QuietRing DEF EndSlot
  <2>3. m \in Int /\ Oldest \in Int /\ Oldest <= m /\ LastSeen = m - 1
      BY <1>4, <2>1, <2>2, RingAssumption DEF LastSeen, Oldest
  <2>4. LastSeen' = m /\ limit' = limit
      BY <1>4, <2>2 DEF LastSeen, EndSlot
  <2>5. UpTo = (IF m - 1 < limit THEN m - 1 ELSE limit)
        /\ UpTo' = (IF m < limit THEN m ELSE limit)
      BY <2>3, <2>4 DEF UpTo
  <2>6. InRange <=> m <= limit
      BY <1>3, <2>3, RingAssumption DEF InRange
  <2>9. /\ Len(Tail(slots)) <= markCount
        /\ \A i \in 1..Len(Tail(slots)) :
              Age(Tail(slots)[i], writeIndex) = Len(Tail(slots)) - i
      BY <1>4, <2>1, <2>2, RingAssumption
  <2>7. CASE m <= limit
    <3>1. copied' = Append(copied, mark) /\ Len(copied) = m - Oldest
        BY <1>2, <2>1, <2>3, <2>5, <2>6, <2>7 DEF EndSlot
    <3>2. Len(copied') = m - Oldest + 1 /\ copied'[m - Oldest + 1] = mark
          /\ \A i \in 1..Len(copied) : copied'[i] = copied[i]
        BY <1>2, <2>3, <3>1
    <3>3. mark = [f \in Part |-> Oldest + (m - Oldest + 1) - 1]
        BY <1>3, <2>3
    <3>4. ASSUME NEW i \in 1..Len(copied')
          PROVE  copied'[i] = [f \in Part |-> Oldest + i - 1]
      <4>1. CASE i = m - Oldest + 1  BY <3>2, <3>3, <4>1
      <4>2. CASE i # m - Oldest + 1
        <5>1. i \in 1..Len(copied)  BY <2>3, <3>1, <3>2, <4>2
        <5> QED  BY <2>1, <3>2, <5>1
      <4> QED  BY <4>1, <4>2
    <3>5. Len(copied') = IF UpTo' < Oldest THEN 0 ELSE UpTo' - Oldest + 1
        BY <1>2, <2>3, <2>5, <2>7, <3>2
    <3> QED  BY <2>9, <3>4, <3>5
  <2>8. CASE ~(m <= limit)
    <3>1. copied' = copied  BY <2>6, <2>8 DEF EndSlot
    <3>2. UpTo' = UpTo  BY <1>2, <2>3, <2>5, <2>8
    <3> QED  BY <2>1, <2>9, <3>1, <3>2
  <2> QED  BY <2>7, <2>8
<1> QED  BY <1>1, <1>6, <1>7, <1>8, <1>9 DEF MarkInv, CopyInv

LEMMA ReturnMark == ASSUME MarkInv, Return PROVE MarkInv'
<1>1. AddInv'  BY SameRing DEF Return
<1>2. CopierTypes'
    BY RingAssumption DEF CopierTypes, Return, SlotLocals, NoMark, Counter
<1>3. RingLag' /\ SlotLag' /\ RightSoFar' /\ MarksWhole'
    BY DEF RingLag, SlotLag, RightSoFar, MarksWhole, Return
<1> QED  BY <1>1, <1>2, <1>3 DEF MarkInv, CopyInv

(* An accepted copy was made in a quiet ring, and is what was asked for. *)
LEMMA AcceptedMarks ==
    ASSUME MarkInv, Accept PROVE copied = Expected /\ copied \in Seq([Part -> Nat])
<1>1. Quiet
  <2>1. Apart(generationBefore, generation) = 0
      BY ApartZero DEF MarkInv, AddInv, RingTypes, CopyInv, CopierTypes, Accept
  <2>2. entered + added - 2 * addedBefore = 0
      BY <2>1 DEF MarkInv, CopyInv, RingLag, Accept
  <2> QED  BY <2>2, CountsOrder DEF Quiet, Accept
<1>2. UpTo = Newest
    BY CountsOrder DEF UpTo, LastSeen, Newest, Accept
<1>3. /\ Len(copied) = IF Newest < Oldest THEN 0 ELSE Newest - Oldest + 1
      /\ \A i \in 1..Len(copied) : copied[i] = [f \in Part |-> Oldest + i - 1]
    BY <1>1, <1>2 DEF MarkInv, CopyInv, RightSoFar, Accept
<1>4. copied \in Seq([Part -> Nat])  BY DEF MarkInv, CopyInv, CopierTypes
<1>5. Newest \in Int /\ Oldest \in Int
    BY CountsOrder, RingAssumption
    DEF Newest, Oldest, Accept, MarkInv, CopyInv, CopierTypes
<1>6. 1..Len(copied) = 1..(Newest - Oldest + 1)  BY <1>3, <1>5
<1>7. copied = [i \in 1..Len(copied) |-> copied[i]]  BY <1>4
<1>8. copied = [i \in 1..(Newest - Oldest + 1) |-> [f \in Part |-> Oldest + i - 1]]
    BY <1>3, <1>6, <1>7
<1> QED  BY <1>4, <1>8 DEF Expected

LEMMA RingInitMark == RingInit => MarkInv
<1> SUFFICES ASSUME RingInit PROVE MarkInv
    OBVIOUS
<1>1. 0 \in Slot /\ 0 \in Counter /\ 0 \in 0..Capacity /\ Capacity > 0
    BY RingAssumption DEF Slot, Counter
<1>2. RingTypes  BY <1>1 DEF RingInit, RingTypes, NoMark
<1>3. CountsInv  BY <1>1 DEF RingInit, CountsInv, Top, Storing
<1>4. HeldInv
  <2>1. \A i \in Slot : ~(Age(i, writeIndex) < markCount)
      BY RingAssumption DEF RingInit, Slot, Age
  <2> QED  BY <2>1 DEF RingInit, HeldInv, NoMark, Filling, Storing
<1>5. CopierTypes  BY <1>1 DEF RingInit, CopierTypes, NoMark
<1>6. RingLag /\ SlotLag /\ RightSoFar /\ MarksWhole
    BY DEF RingInit, RingLag, SlotLag, RightSoFar, MarksWhole
<1> QED  BY <1>2, <1>3, <1>4, <1>5, <1>6 DEF MarkInv, AddInv, CopyInv

-----------------------------------------------------------------------------
(* The two channels together *)

(* A publication speaks of marks that are in the ring, and the audio task  *)
(* asks for no others.                                                     *)
PublishInv ==
    /\ marksOf \in [0..MaxPublications -> Nat]
    /\ begun <= MaxPublications
    /\ \A n \in 0..MaxPublications : marksOf[n] <= added
    /\ \A f \in Field : result[Audio][f] <= MaxPublications
AskInv == copier # "idle" => limit <= addedBefore

ShareInv == IInv /\ MarkInv /\ PublishInv /\ AskInv

LEMMA ShareInitInv == ShareInit => ShareInv
<1> SUFFICES ASSUME ShareInit PROVE ShareInv
    OBVIOUS
<1>1. IInv /\ MarkInv  BY InitIInv, RingInitMark DEF ShareInit
<1>2. PublishInv /\ AskInv
    BY ShareAssumption, MailboxAssumption
    DEF ShareInit, Init, RingInit, PublishInv, AskInv, Nothing
<1> QED  BY <1>1, <1>2 DEF ShareInv

LEMMA MarkUnchanged == ASSUME MarkInv, UNCHANGED markVars PROVE MarkInv'
<1>1. AddInv'  BY SameRing DEF markVars
<1>2. CopyInv'
    BY DEF MarkInv, CopyInv, markVars, ringVars, copierVars, CopierTypes, RingLag,
           SlotLag, RightSoFar, MarksWhole, Owed, Quiet, UpTo, LastSeen, Oldest
<1> QED  BY <1>1, <1>2 DEF MarkInv

LEMMA PublishShare ==
    ASSUME ShareInv, NEW p \in Publisher, PublishPitch(p) PROVE ShareInv'
<1>1. Publish(p)  BY DEF PublishPitch, Publish
<1>2. IInv'  BY <1>1, NextIInv DEF ShareInv, Next
<1>3. MarkInv' /\ AskInv'
    BY MarkUnchanged
    DEF ShareInv, AskInv, PublishPitch, markVars, ringVars, copierVars
<1>4. added' = added /\ result' = result
    BY DEF PublishPitch, markVars, ringVars, Lock, Open, Write, Close, Unlock, readerVars
<1>5. PublishInv'
  <2>1. CASE Open(p) /\ \E n \in MarksUpTo(p) : marksOf' = [marksOf EXCEPT ![begun'] = n]
    <3>1. begun \in Nat /\ begun' = begun + 1 /\ begun' <= MaxPublications
          /\ begun \in 0..MaxPublications
        BY <2>1, MailboxAssumption DEF Open, ShareInv, IInv, TypeOK
    <3>2. PICK n \in MarksUpTo(p) : marksOf' = [marksOf EXCEPT ![begun'] = n]
        BY <2>1
    <3>3. marksOf[begun] \in Nat /\ marksOf[begun] <= added /\ added \in Nat
        BY <3>1 DEF ShareInv, PublishInv, MarkInv, AddInv, RingTypes
    <3>4. n \in Nat /\ n <= added
        BY <3>2, <3>3 DEF MarksUpTo
    <3> QED  BY <1>4, <3>1, <3>2, <3>4 DEF ShareInv, PublishInv
  <2>2. CASE UNCHANGED <<marksOf, begun>>
      BY <1>4, <2>2 DEF ShareInv, PublishInv
  <2> QED  BY <2>1, <2>2 DEF PublishPitch, Lock, Write, Close, Unlock
<1> QED  BY <1>2, <1>3, <1>5 DEF ShareInv

LEMMA RunHopShare == ASSUME ShareInv, RunHop PROVE ShareInv'
<1>1. IInv'  BY NextIInv DEF ShareInv, RunHop
<1>2. MarkInv'  BY AddMarkInv DEF ShareInv, RunHop
<1>3. UNCHANGED copierVars /\ (added' = added \/ added' = added + 1)
    BY DEF RunHop, AddMark, OpenRing, OpenSlot, StorePart, CloseSlot, StoreMetadata,
           CloseRing
<1>4. added \in Nat  BY DEF ShareInv, MarkInv, AddInv, RingTypes
<1>5. PublishInv'
    BY <1>3, <1>4 DEF ShareInv, PublishInv, RunHop, vars
<1>6. AskInv'  BY <1>3 DEF ShareInv, AskInv, copierVars
<1> QED  BY <1>1, <1>2, <1>5, <1>6 DEF ShareInv

LEMMA TakePitchShare == ASSUME ShareInv, TakePitch PROVE ShareInv'
<1>1. Read(Audio) \/ UNCHANGED vars  BY DEF TakePitch, Read
<1>2. IInv'  BY <1>1, NextIInv, ShareAssumption DEF ShareInv, Next
<1>3. MarkInv' /\ AskInv' /\ UNCHANGED added
    BY MarkUnchanged
    DEF ShareInv, AskInv, TakePitch, markVars, ringVars, copierVars
<1>4. begun' = begun
    BY <1>1 DEF Read, ReadBegin, ReadField, ReadEnd, publisherVars, vars
<1>5. \A f \in Field : result'[Audio][f] <= MaxPublications
  <2>1. CASE ReadEnd(Audio) /\ seq = before[Audio]
    <3>1. \A f \in Field : candidate[Audio][f] = completed
        BY <2>1, AcceptedCopy, ShareAssumption DEF ShareInv
    <3>2. completed \in Nat /\ begun \in Nat /\ completed <= begun
        BY DEF ShareInv, IInv, TypeOK, CountInv
    <3>3. result'[Audio] = candidate[Audio]
        BY <2>1, ShareAssumption DEF ReadEnd, ShareInv, IInv, TypeOK
    <3> QED  BY <3>1, <3>2, <3>3, MailboxAssumption DEF ShareInv, PublishInv
  <2>2. CASE result' = result  BY <2>2 DEF ShareInv, PublishInv
  <2> QED  BY <1>1, <2>1, <2>2 DEF Read, ReadBegin, ReadField, ReadEnd, vars
<1>6. PublishInv'
    BY <1>3, <1>4, <1>5 DEF ShareInv, PublishInv, TakePitch
<1> QED  BY <1>2, <1>3, <1>6 DEF ShareInv

LEMMA TakeMarksShare == ASSUME ShareInv, TakeMarks PROVE ShareInv'
<1>1. IInv'  BY NextIInv DEF ShareInv, TakeMarks
<1>2. MarkEnd \in Nat /\ MarkEnd <= added
  <2>1. result[Audio][Timestamp] \in 0..MaxPublications
      BY ShareAssumption, MailboxAssumption DEF ShareInv, PublishInv, IInv, TypeOK
  <2> QED  BY <2>1 DEF ShareInv, PublishInv, MarkEnd
<1>3. CASE Attempt(MarkEnd)
  <2>1. MarkInv'  BY <1>2, <1>3, AttemptMark DEF ShareInv
  <2>2. AskInv' /\ UNCHANGED added  BY <1>2, <1>3 DEF AskInv, Attempt, ringVars
  <2> QED  BY <1>1, <2>1, <2>2 DEF ShareInv, PublishInv, TakeMarks, vars
<1>4. CASE LoadMetadata \/ BeginSlot \/ (\E f \in Part : LoadPart(f)) \/ EndSlot
  <2>1. MarkInv'
      BY <1>4, LoadMetadataMark, BeginSlotMark, LoadPartMark, EndSlotMark DEF ShareInv
  <2>2. AskInv' /\ UNCHANGED added
      BY <1>4 DEF ShareInv, AskInv, LoadMetadata, BeginSlot, LoadPart, EndSlot, ringVars
  <2> QED  BY <1>1, <2>1, <2>2 DEF ShareInv, PublishInv, TakeMarks, vars
<1>5. CASE Return
  <2>1. MarkInv'  BY <1>5, ReturnMark DEF ShareInv
  <2>2. AskInv' /\ UNCHANGED added  BY <1>5 DEF AskInv, Return, ringVars
  <2> QED  BY <1>1, <2>1, <2>2 DEF ShareInv, PublishInv, TakeMarks, vars
<1>6. CASE UNCHANGED markVars
  <2>1. MarkInv'  BY <1>6, MarkUnchanged DEF ShareInv
  <2>2. AskInv' /\ UNCHANGED added
      BY <1>6 DEF ShareInv, AskInv, markVars, ringVars, copierVars
  <2> QED  BY <1>1, <2>1, <2>2 DEF ShareInv, PublishInv, TakeMarks, vars
<1> QED
    BY <1>3, <1>4, <1>5, <1>6
    DEF TakeMarks, SlotBusy, SlotChanged, Accept, RingChanged, GiveUp

LEMMA ShareNextInv == ShareInv /\ [ShareNext]_shareVars => ShareInv'
<1> SUFFICES ASSUME ShareInv, [ShareNext]_shareVars PROVE ShareInv'
    OBVIOUS
<1>1. CASE UNCHANGED shareVars
  <2>1. IInv'  BY <1>1, NextIInv DEF ShareInv, shareVars
  <2>2. MarkInv'  BY <1>1, MarkUnchanged DEF ShareInv, shareVars
  <2>3. PublishInv' /\ AskInv'
      BY <1>1 DEF ShareInv, PublishInv, AskInv, shareVars, vars, markVars, ringVars,
                  copierVars
  <2> QED  BY <2>1, <2>2, <2>3 DEF ShareInv
<1> QED
    BY <1>1, PublishShare, RunHopShare, TakePitchShare, TakeMarksShare DEF ShareNext

(* The invariant of the two channels holds in every reachable state.       *)
THEOREM ShareInductive == ShareSpec => []ShareInv
BY ShareInitInv, ShareNextInv, PTL DEF ShareSpec

(* No mark that is copied is mixed of two, accepted or not.                *)
THEOREM MarksNotTorn == ShareSpec => []MarksWhole
<1>1. ShareInv => MarksWhole  BY DEF ShareInv, MarkInv, CopyInv
<1> QED  BY ShareInductive, <1>1, PTL

(* The copy that is handed over is the range of the ring as it was when    *)
(* the attempt began, although marks may have gone in meanwhile.           *)
THEOREM MarksOfOneMoment == ShareSpec => SnapshotExact
<1>1. ShareInv /\ [ShareNext]_shareVars => [Accept => snapshot' = Expected]_markVars
    BY AcceptedMarks DEF ShareInv, Accept
<1> QED  BY ShareInductive, <1>1, PTL DEF ShareSpec, SnapshotExact

(* The marks a block takes end with the last mark of the pitch it has, or   *)
(* are all newer, however late either channel is.                          *)
THEOREM MarksGoWithPitch == ShareSpec => MarksReachPitch
<1> DEFINE Reached == /\ snapshot' # <<>>
                      /\ snapshot'[Len(snapshot')] = [f \in Part |-> limit]
<1>1. ShareInv => (Accept /\ limit > 0 => limit < Oldest \/ Reached)
  <2> SUFFICES ASSUME ShareInv, Accept, ~(limit < Oldest) PROVE Reached
      OBVIOUS
  <2>1. copied = Expected /\ snapshot' = copied
      BY AcceptedMarks DEF ShareInv, Accept
  <2>2. /\ limit \in Nat /\ addedBefore \in Nat /\ limit <= addedBefore
        /\ Oldest \in Nat
      BY RingAssumption
      DEF ShareInv, MarkInv, CopyInv, CopierTypes, AskInv, Accept, Oldest
  <2>3. Newest = limit  BY <2>2 DEF Newest
  <2> DEFINE n == limit - Oldest + 1
  <2>4. n \in Nat /\ n >= 1 /\ Oldest + n - 1 = limit  BY <2>2
  <2>5. snapshot' = [i \in 1..n |-> [f \in Part |-> Oldest + i - 1]]
      BY <2>1, <2>3 DEF Expected
  <2>6. Len(snapshot') = n  BY <2>4, <2>5
  <2>7. snapshot'[n] = [f \in Part |-> limit]  BY <2>4, <2>5
  <2> QED  BY <2>4, <2>6, <2>7
<1> QED  BY ShareInductive, <1>1, PTL DEF ShareSpec, MarksReachPitch
=============================================================================
