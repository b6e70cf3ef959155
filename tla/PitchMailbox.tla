---------------------------- MODULE PitchMailbox ----------------------------
(***************************************************************************)
(* components/vocal_fx/src/vocal_fx.cpp, PitchMailbox: the latest pitch    *)
(* result, published by the pitch worker and copied by the audio task in   *)
(* every block.  Publishers exclude each other by a spin lock; a reader    *)
(* takes none, and a sequence counter (odd while a publication is under    *)
(* way) tells it whether its copy is one whole publication.                *)
(*                                                                         *)
(* Every atomic access is a step, and the fields, which are accessed       *)
(* relaxed, are written and read in any order between the accesses of the  *)
(* counter.  That the fields stay between them is assumed: the model is    *)
(* sequentially consistent.  A field holds the number of the publication   *)
(* that wrote it.                                                          *)
(***************************************************************************)
EXTENDS Integers

CONSTANTS
    Publisher,      \* the tasks that publish
    Reader,         \* the tasks that copy
    Field,          \* the fields of a result
    SeqModulus,     \* the counter is 32 bits wide and wraps
    MaxPublications \* bound: publications in all

ASSUME MailboxAssumption ==
    /\ SeqModulus \in Nat /\ SeqModulus > 0 /\ SeqModulus % 2 = 0
    /\ MaxPublications \in Nat

VARIABLES
    locked,         \* publisher_lock
    seq,            \* seq
    fields,         \* the fields of the mailbox
    publisher,      \* where each publisher stands
    unwritten,      \* the fields it has yet to store
    begun,          \* publications begun ...
    completed,      \* ... and completed
    reader,         \* where each reader stands
    before,         \* the counter it loaded first
    unread,         \* the fields it has yet to load
    candidate,      \* what it has loaded
    floor,          \* publications completed when it began
    result          \* its last successful copy

vars == <<locked, seq, fields, publisher, unwritten, begun, completed, reader,
          before, unread, candidate, floor, result>>
publisherVars == <<locked, seq, fields, publisher, unwritten, begun, completed>>
readerVars == <<reader, before, unread, candidate, floor, result>>

SeqValue == 0..(SeqModulus - 1)
Increment(s) == (s + 1) % SeqModulus
Nothing == [f \in Field |-> 0]

Init ==
    /\ locked = FALSE /\ seq = 0 /\ fields = Nothing
    /\ publisher = [p \in Publisher |-> "idle"]
    /\ unwritten = [p \in Publisher |-> {}]
    /\ begun = 0 /\ completed = 0
    /\ reader = [r \in Reader |-> "idle"]
    /\ before = [r \in Reader |-> 0]
    /\ unread = [r \in Reader |-> {}]
    /\ candidate = [r \in Reader |-> Nothing]
    /\ floor = [r \in Reader |-> 0]
    /\ result = [r \in Reader |-> Nothing]

-----------------------------------------------------------------------------
(* vocal_fx_publish_pitch *)

Lock(p) ==
    /\ publisher[p] = "idle"
    /\ ~locked
    /\ locked' = TRUE
    /\ publisher' = [publisher EXCEPT ![p] = "open"]
    /\ UNCHANGED <<seq, fields, unwritten, begun, completed, readerVars>>

(* A read takes microseconds and a publication milliseconds: no read lasts *)
(* so long that the counter comes round to the value it began with.        *)
NoLap == \A r \in Reader :
            reader[r] = "read" => 2 * (begun + 1 - floor[r]) < SeqModulus

Open(p) ==
    /\ publisher[p] = "open"
    /\ begun < MaxPublications /\ NoLap
    /\ seq' = Increment(seq)
    /\ begun' = begun + 1
    /\ unwritten' = [unwritten EXCEPT ![p] = Field]
    /\ publisher' = [publisher EXCEPT ![p] = "write"]
    /\ UNCHANGED <<locked, fields, completed, readerVars>>

Write(p, f) ==
    /\ publisher[p] = "write"
    /\ f \in unwritten[p]
    /\ fields' = [fields EXCEPT ![f] = begun]
    /\ unwritten' = [unwritten EXCEPT ![p] = @ \ {f}]
    /\ UNCHANGED <<locked, seq, publisher, begun, completed, readerVars>>

Close(p) ==
    /\ publisher[p] = "write"
    /\ unwritten[p] = {}
    /\ seq' = Increment(seq)
    /\ completed' = completed + 1
    /\ publisher' = [publisher EXCEPT ![p] = "unlock"]
    /\ UNCHANGED <<locked, fields, unwritten, begun, readerVars>>

Unlock(p) ==
    /\ publisher[p] = "unlock"
    /\ locked' = FALSE
    /\ publisher' = [publisher EXCEPT ![p] = "idle"]
    /\ UNCHANGED <<seq, fields, unwritten, begun, completed, readerVars>>

Publish(p) == Lock(p) \/ Open(p) \/ (\E f \in Field : Write(p, f))
                  \/ Close(p) \/ Unlock(p)

-----------------------------------------------------------------------------
(* vocal_fx_try_latest_pitch; a first load that finds a publication under   *)
(* way ends it with nothing changed                                         *)

ReadBegin(r) ==
    /\ reader[r] = "idle"
    /\ seq % 2 = 0
    /\ reader' = [reader EXCEPT ![r] = "read"]
    /\ before' = [before EXCEPT ![r] = seq]
    /\ unread' = [unread EXCEPT ![r] = Field]
    /\ floor' = [floor EXCEPT ![r] = completed]
    /\ UNCHANGED <<publisherVars, candidate, result>>

ReadField(r, f) ==
    /\ reader[r] = "read"
    /\ f \in unread[r]
    /\ candidate' = [candidate EXCEPT ![r][f] = fields[f]]
    /\ unread' = [unread EXCEPT ![r] = @ \ {f}]
    /\ UNCHANGED <<publisherVars, reader, before, floor, result>>

\* Bug: the counter is not compared at the end of a read.
BugReadEnd(r) ==
    /\ reader[r] = "read"
    /\ unread[r] = {}
    /\ reader' = [reader EXCEPT ![r] = "idle"]
    /\ result' = [result EXCEPT ![r] = candidate[r]]
    /\ UNCHANGED <<publisherVars, before, unread, candidate, floor>>

\* Bug: the candidate is accepted, and not handed over.
BugReadNotCopied(r) ==
    /\ reader[r] = "read"
    /\ unread[r] = {}
    /\ reader' = [reader EXCEPT ![r] = "idle"]
    /\ UNCHANGED <<publisherVars, before, unread, candidate, floor, result>>

ReadEnd(r) ==
    /\ reader[r] = "read"
    /\ unread[r] = {}
    /\ reader' = [reader EXCEPT ![r] = "idle"]
    /\ result' = IF seq = before[r]
                 THEN [result EXCEPT ![r] = candidate[r]] ELSE result
    /\ UNCHANGED <<publisherVars, before, unread, candidate, floor>>

Read(r) == ReadBegin(r) \/ (\E f \in Field : ReadField(r, f)) \/ ReadEnd(r)

-----------------------------------------------------------------------------
Next == (\E p \in Publisher : Publish(p)) \/ (\E r \in Reader : Read(r))

Spec == Init /\ [][Next]_vars

-----------------------------------------------------------------------------
TypeOK ==
    /\ locked \in BOOLEAN /\ seq \in SeqValue /\ fields \in [Field -> Nat]
    /\ publisher \in [Publisher -> {"idle", "open", "write", "unlock"}]
    /\ unwritten \in [Publisher -> SUBSET Field]
    /\ begun \in Nat /\ completed \in Nat
    /\ reader \in [Reader -> {"idle", "read"}]
    /\ before \in [Reader -> SeqValue]
    /\ unread \in [Reader -> SUBSET Field]
    /\ candidate \in [Reader -> [Field -> Nat]]
    /\ floor \in [Reader -> Nat]
    /\ result \in [Reader -> [Field -> Nat]]

(* At most one task is between taking and releasing the publisher lock.    *)
OnePublisher ==
    \A p, q \in Publisher :
        publisher[p] # "idle" /\ publisher[q] # "idle" => p = q

(* A copy that is accepted never mixes two publications, however many      *)
(* began or ended while it was being made, wrapped counter included.       *)
SnapshotsWhole ==
    \A r \in Reader : \A f, g \in Field : result[r][f] = result[r][g]

(* An accepted copy is no older than the newest publication that was       *)
(* complete when the read began; so a reader never goes back to an older   *)
(* pitch, and never keeps one it was told is replaced.                     *)
Accepted(r) == reader[r] = "read" /\ reader'[r] = "idle" /\ seq = before[r]
SnapshotsFresh ==
    [][\A r \in Reader : Accepted(r) =>
          \A f \in Field : result'[r][f] \in floor[r]..completed]_vars
=============================================================================
