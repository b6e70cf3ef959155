----------------------------- MODULE VoxLinkCli -----------------------------
(***************************************************************************)
(* tools/voxlink_cli.py, the reference client of VoxLink, run command      *)
(* after command against the P4's Session over a line with faults.         *)
(*                                                                         *)
(* Every invocation is a new process: it opens the port, which discards    *)
(* what the host has received so far, starts with an empty parser and      *)
(* sequence 0, sends one request (stress: several) and reads until the     *)
(* answer has ended or a read of one second has found the line silent.     *)
(* Bytes are counted in the units of VoxLinkSession; the first unit of a   *)
(* frame carries its header.  The P4 answers well within a second.         *)
(***************************************************************************)
EXTENDS VoxLinkSession

CONSTANTS
    Command,        \* the commands this user gives
    Chunk,          \* units of one full read of 256 bytes
    StressSends,    \* bound: requests one stress run sends
    MaxCommands,    \* bound: invocations
    MaxFaults,      \* bound: units damaged or lost, requests lost
    MaxKills,       \* bound: commands interrupted
    MaxBeats        \* bound: ticks of the P4

ASSUME CliAssumption ==
    /\ Chunk \in Nat \ {0} /\ StressSends \in Nat
    /\ 0..(StressSends + 1) \subseteq Seq8
    /\ NoValue \notin Seq8
    /\ Registry # <<>>
    /\ \A command \in Command :
        /\ command.name \in {"hello", "caps", "state", "get", "set", "stress"}
        /\ command.name \in {"get", "set"} => command.param \in Param
        /\ command.name = "set" => command.value \in Value \union RejectCode

(* The ring takes a whole answer besides all the heartbeats of a run.       *)
ASSUME RoomAssumption ==
    /\ MaxBeats \in Nat
    /\ LET each == Len(Registry) IN
       \A answer \in {Size("CAPS_BEGIN") + each * Size("CAPS_PARAM") + Size("CAPS_END"),
                      Size("STATE_BEGIN") + each * Size("STATE_PARAM") + Size("STATE_END"),
                      Size("PARAM_VALUE")} :
           MaxBeats * Size("HEARTBEAT") + answer < TxCapacity

VARIABLES
    up,         \* requests on their way to the P4
    line,       \* units received by the host and not yet read
    pc,         \* where the command stands
    cmd,        \* the command
    seq,        \* Transport.seq
    buf,        \* Parser.buf, in units
    batch,      \* frames feed() has parsed from the last read
    expired,    \* the last read timed out, and with it every deadline
    out,        \* frames request() will return
    report,     \* what the last command that ended has printed and returned
    history,    \* the P4's values at each revision
    fresh,      \* nothing was under way at the P4 when the command began
    clean,      \* ... and nothing was damaged or lost since
    intact,     \* nothing was damaged or lost, and no snapshot left without
                \* its end, since the last command that began so
    commands, faults, kills, beats

lineVars == <<up, line>>
boundVars == <<commands, faults, kills, beats>>
readVars == <<buf, batch, expired, out>>
ghostVars == <<report, history, fresh, clean, intact>>
cliVars == <<sessionVars, lineVars, pc, cmd, seq, readVars, ghostVars, boundVars>>

None == [name |-> "none", param |-> NoValue, value |-> NoValue]
Silence == [cmd |-> None, exit |-> 1, printed |-> {}, revision |-> NoValue,
            clean |-> FALSE, apart |-> FALSE, heard |-> {}]

-----------------------------------------------------------------------------
(* The line *)

Damage == {"sof", "header", "longer", "body"}
HostUnit(frame, part, damage) == [frame |-> frame, part |-> part, damage |-> damage]

\* Nothing the P4 has still to read, to handle or to transmit.
P4Quiet == up = <<>> /\ parsed = <<>> /\ tx = <<>>

Transmit ==
    /\ TakeTx
    /\ line' = Append(line, HostUnit(Head(tx).frame, Head(tx).part, "none"))
    /\ UNCHANGED <<up, pc, cmd, seq, readVars, ghostVars, boundVars>>

TransmitFaulty ==
    /\ faults < MaxFaults
    /\ TakeTx
    /\ \/ UNCHANGED line
       \/ \E damage \in IF Head(tx).part = 1 THEN Damage ELSE {"body"} :
            line' = Append(line, HostUnit(Head(tx).frame, Head(tx).part, damage))
    /\ faults' = faults + 1 /\ clean' = FALSE /\ intact' = FALSE
    /\ UNCHANGED <<up, pc, cmd, seq, readVars, report, history, fresh, commands,
                   kills, beats>>

-----------------------------------------------------------------------------
(* The P4, which reads a request at a time. *)

P4Read ==
    /\ up # <<>> /\ parsed = <<>>
    /\ parsed' = <<Head(up)>> /\ up' = Tail(up)
    /\ inflight' = {}
    /\ UNCHANGED <<connection, stateVars, tx, stale, rxAge, clockVars,
                   line, pc, cmd, seq, readVars, ghostVars, boundVars>>

\* Its parser drops a damaged request without an answer.
LoseRequest ==
    /\ faults < MaxFaults /\ up # <<>>
    /\ up' = Tail(up)
    /\ faults' = faults + 1 /\ clean' = FALSE /\ intact' = FALSE
    /\ UNCHANGED <<sessionVars, line, pc, cmd, seq, readVars, report, history,
                   fresh, commands, kills, beats>>

\* What the ring took of a snapshot has the frame that ends it.
SnapshotEnds(units) == units # <<>> /\ units[Len(units)].frame.type = "STATE_END"

P4Handle ==
    /\ HandleFrame
    /\ history' = IF revision' = revision THEN history ELSE Append(history, values')
    /\ intact' = (intact /\ (Head(parsed).type = "GET_STATE" => SnapshotEnds(tx')))
    /\ UNCHANGED <<lineVars, pc, cmd, seq, readVars, report, fresh, clean, boundVars>>

P4Tick ==
    /\ beats < MaxBeats
    /\ parsed = <<>>
    /\ Tick(HeartbeatInterval)
    /\ beats' = beats + 1
    /\ UNCHANGED <<lineVars, pc, cmd, seq, readVars, ghostVars, commands, faults, kills>>

-----------------------------------------------------------------------------
(* The invocations *)

Request(command, s) ==
    LET plain(type) == Client(type, s, NoValue, NoValue)
    IN  CASE command.name = "hello"  -> plain("HELLO")
          [] command.name = "caps"   -> plain("CAPS_REQUEST")
          [] command.name = "state"  -> plain("GET_STATE")
          [] command.name = "get"    -> Client("GET_PARAM", s, command.param, NoValue)
          [] command.name = "set"    -> Client("SET_PARAM", s, command.param, command.value)
          [] command.name = "stress" -> plain("HELLO")

(* main(): parse the arguments, open the port, call the handler, which     *)
(* sends its (first) request.                                              *)
Start(command) ==
    /\ pc = "idle" /\ commands < MaxCommands
    /\ commands' = commands + 1
    /\ cmd' = command
    /\ seq' = 1 /\ up' = Append(up, Request(command, 1))
    /\ line' = <<>>
    /\ buf' = <<>> /\ batch' = <<>> /\ expired' = FALSE /\ out' = <<>>
    /\ fresh' = P4Quiet /\ clean' = P4Quiet /\ intact' = (intact \/ P4Quiet)
    /\ pc' = IF command.name = "stress" THEN "stress" ELSE "read"
    /\ UNCHANGED <<sessionVars, report, history, faults, kills, beats>>

(* Ctrl-C *)
Kill ==
    /\ pc # "idle" /\ kills < MaxKills
    /\ kills' = kills + 1
    /\ pc' = "idle" /\ cmd' = None /\ report' = Silence
    /\ UNCHANGED <<sessionVars, lineVars, seq, readVars, history, fresh, clean,
                   intact, commands, faults, beats>>

-----------------------------------------------------------------------------
(* Transport.read_frames() and Parser.feed() *)

\* Bug: a frame that two reads share is forgotten.
BugRead(units) ==
    /\ pc = "read"
    /\ buf' = SubSeq(line, 1, units)
    /\ line' = SubSeq(line, units + 1, Len(line))
    /\ batch' = <<>>
    /\ pc' = "feed"
    /\ UNCHANGED <<sessionVars, up, cmd, seq, out, ghostVars, boundVars>>

Read(units) ==
    /\ pc = "read"
    /\ buf' = buf \o SubSeq(line, 1, units)
    /\ line' = SubSeq(line, units + 1, Len(line))
    /\ batch' = <<>>
    /\ pc' = "feed"
    /\ UNCHANGED <<sessionVars, up, cmd, seq, out, ghostVars, boundVars>>

ReadFull ==
    /\ Len(line) >= Chunk
    /\ Read(Chunk)
    /\ expired' = FALSE

\* ser.read() waits as long as request() does: its time-out is the last read.
ReadTimeout ==
    /\ Len(line) < Chunk /\ P4Quiet
    /\ Read(Len(line))
    /\ expired' = TRUE

HasSof(unit) == unit.part = 1 /\ unit.damage # "sof"

\* The buffer from its first SOF on.
Synced(units) ==
    LET sofs == {i \in 1..Len(units) : HasSof(units[i])}
    IN  IF sofs = {} THEN <<>>
        ELSE SubSeq(units, Min(sofs), Len(units))

\* The length that the header at the front of the buffer declares.
Total(front) ==
    Size(front[1].frame.type) + (IF front[1].damage = "longer" THEN 1 ELSE 0)

BadHeader(front)  == front # <<>> /\ front[1].damage = "header"
Incomplete(front) ==
    front = <<>> \/ (front # <<>> /\ ~BadHeader(front) /\ Len(front) < Total(front))

CrcMatches(front) ==
    \A i \in 1..Total(front) : front[i] = HostUnit(front[1].frame, i, "none")

(* _try_parse(): one frame from the front of the buffer, or None because   *)
(* it is not complete, or because what was there had to be dropped.  Either *)
(* None ends feed().                                                        *)
TryParse ==
    LET front == Synced(buf) IN
    /\ pc = "feed"
    /\ ~BadHeader(front) /\ ~Incomplete(front) /\ CrcMatches(front)
    /\ batch' = Append(batch, front[1].frame)
    /\ buf' = SubSeq(front, Total(front) + 1, Len(front))
    /\ UNCHANGED <<sessionVars, lineVars, pc, cmd, seq, expired, out, ghostVars, boundVars>>

TryParseNone ==
    LET front == Synced(buf) IN
    /\ pc = "feed"
    /\ \/ /\ Incomplete(front)
          /\ buf' = front
       \/ /\ BadHeader(front)
          /\ buf' = Tail(front)
       \/ /\ ~BadHeader(front) /\ ~Incomplete(front) /\ ~CrcMatches(front)
          /\ buf' = SubSeq(front, Total(front) + 1, Len(front))
    /\ pc' = "filter"
    /\ UNCHANGED <<sessionVars, lineVars, cmd, seq, batch, expired, out, ghostVars, boundVars>>

-----------------------------------------------------------------------------
(* Transport.request() *)

FrameSeq(frame) == IF frame.request = NoValue THEN NoValue ELSE frame.request.seq

Ends(frame) ==
    \/ FrameSeq(frame) = seq /\ frame.type \in {"ACK", "NACK", "ERROR"}
    \/ frame.type \in {"CAPS_END", "STATE_END"}

\* The frames of a batch up to the first that ends the answer.
UpToEnd(frames) ==
    LET ends == {i \in 1..Len(frames) : Ends(frames[i])}
    IN  IF ends = {} THEN frames
        ELSE SubSeq(frames, 1, Min(ends))

\* Bug: only an answer ends a request.
BugFilter ==
    LET ended == \E i \in 1..Len(batch) : Ends(batch[i]) IN
    /\ pc = "filter"
    /\ out' = out \o UpToEnd(batch)
    /\ pc' = IF ended THEN "print" ELSE "read"
    /\ UNCHANGED <<sessionVars, lineVars, cmd, seq, buf, batch, expired, ghostVars, boundVars>>

Filter ==
    LET ended == \E i \in 1..Len(batch) : Ends(batch[i]) IN
    /\ pc = "filter"
    /\ out' = out \o UpToEnd(batch)
    /\ pc' = IF ended \/ expired THEN "print" ELSE "read"
    /\ UNCHANGED <<sessionVars, lineVars, cmd, seq, buf, batch, expired, ghostVars, boundVars>>

-----------------------------------------------------------------------------
(* The commands: what they print of the frames of request(), and return. *)

Places(types) == {i \in 1..Len(out) : out[i].type \in types}
Printed(frame) == [param |-> frame.param, value |-> frame.value]

(* hello, get and set take the first frame that answers or refuses. *)
FirstAnswer(type) ==
    LET answers == Places({type, "NACK", "ERROR"})
        first   == out[Min(answers)]
    IN  IF answers = {} \/ first.type # type
        THEN [exit |-> 1, printed |-> {}, revision |-> NoValue]
        ELSE [exit |-> 0, printed |-> {Printed(first)}, revision |-> first.revision]

\* caps counts the parameters it prints, and gives no revision.
CapsAnswer ==
    LET params == Places({"CAPS_PARAM"})
    IN  [exit |-> IF params = {} THEN 1 ELSE 0,
         printed |-> {Printed(out[i]) : i \in params},
         revision |-> NoValue]

\* state prints every STATE_PARAM, under the revision of the last STATE_BEGIN.
StateAnswer ==
    LET begins == Places({"STATE_BEGIN"})
    IN  [exit |-> IF begins = {} THEN 1 ELSE 0,
         printed |-> {Printed(out[i]) : i \in Places({"STATE_PARAM"})},
         revision |-> IF begins = {} THEN NoValue ELSE out[Max(begins)].revision]

Answer ==
    CASE cmd.name = "hello" -> FirstAnswer("HELLO_ACK")
      [] cmd.name = "get"   -> FirstAnswer("PARAM_VALUE")
      [] cmd.name = "set"   -> FirstAnswer("PARAM_CHANGED")
      [] cmd.name = "caps"  -> CapsAnswer
      [] cmd.name = "state" -> StateAnswer

Finish(answer) ==
    /\ report' = [cmd |-> cmd, exit |-> answer.exit, printed |-> answer.printed,
                  revision |-> answer.revision, clean |-> clean,
                  apart |-> fresh \/ intact, heard |-> {f.type : f \in ToSet(batch)}]
    /\ pc' = "idle" /\ cmd' = None
    /\ UNCHANGED <<sessionVars, line, readVars, history, fresh, clean, intact, boundVars>>

PrintAnswer == pc = "print" /\ Finish(Answer) /\ UNCHANGED <<up, seq>>

(* stress sends at its rate and calls read_frames(timeout=0), whose loop   *)
(* does not run once: nothing is ever read.                                *)
StressSend ==
    /\ pc = "stress" /\ seq <= StressSends
    /\ seq' = seq + 1
    /\ \E v \in Value : up' = Append(up, Client("SET_PARAM", seq + 1, Head(Registry), v))
    /\ UNCHANGED <<sessionVars, line, pc, cmd, readVars, ghostVars, boundVars>>

StressEnd ==
    /\ pc = "stress" /\ seq > StressSends
    /\ Finish([exit |-> 0, printed |-> {}, revision |-> NoValue])
    /\ UNCHANGED <<up, seq>>

-----------------------------------------------------------------------------
CliInit ==
    /\ InitSession
    /\ up = <<>> /\ line = <<>>
    /\ pc = "idle" /\ cmd = None /\ seq = 0
    /\ buf = <<>> /\ batch = <<>> /\ expired = FALSE /\ out = <<>>
    /\ report = Silence /\ history = <<values>>
    /\ fresh = TRUE /\ clean = TRUE /\ intact = TRUE
    /\ commands = 0 /\ faults = 0 /\ kills = 0 /\ beats = 0

P4Step == P4Read \/ P4Handle \/ Transmit
ClientStep == ReadFull \/ ReadTimeout \/ TryParse \/ TryParseNone \/ Filter \/ PrintAnswer
                  \/ StressSend \/ StressEnd
Environment == TransmitFaulty \/ LoseRequest \/ P4Tick \/ Kill
                   \/ \E command \in Command : Start(command)

CliNext == P4Step \/ ClientStep \/ Environment

CliSpec == CliInit /\ [][CliNext]_cliVars
FairCliSpec == CliSpec /\ WF_cliVars(P4Step) /\ WF_cliVars(ClientStep)

-----------------------------------------------------------------------------
\* The values that the P4 held under a revision.
At(rev) == history[rev + 1]

(* Whatever is damaged, lost or left over from a command before: a value   *)
(* printed under a revision is the P4's value at that revision.  For a     *)
(* snapshot that holds as long as there is only one under way, or none of  *)
(* them lost its end: STATE_PARAM does not say which snapshot it is of.    *)
PrintedIsTrue ==
    report.revision # NoValue /\ (report.cmd.name = "state" => report.apart) =>
        \A p \in report.printed :
            p.param \in Param => p.value = At(report.revision)[p.param]

(* On a clean line, caps and state print every parameter, and get prints   *)
(* the one it was asked for.                                               *)
CleanAnswersWhole ==
    report.clean =>
        /\ report.cmd.name \in {"caps", "state"} =>
            {p.param : p \in report.printed} = Param
        /\ report.cmd.name = "get" /\ report.cmd.param \in Param =>
            {p.param : p \in report.printed} = {report.cmd.param}

(* A command ends, whatever becomes of its request and its answer.         *)
CommandsEnd == (pc # "idle") ~> (pc = "idle")

(* What voxlink_v1.md says of the confirmation: a SET that the P4 has      *)
(* accepted, and whose PARAM_CHANGED the client has received, is reported  *)
(* as confirmed.                                                           *)
SetsAreConfirmed ==
    report.clean /\ report.cmd.name = "set" /\ "PARAM_CHANGED" \in report.heard
        => report.exit = 0
=============================================================================
