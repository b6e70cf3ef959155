------------------------------ MODULE BenchRun ------------------------------
(***************************************************************************)
(* The hardware runs of the project: a script on the host flashes the      *)
(* board, reads what it prints until a marker line or a deadline, and      *)
(* turns the lines into the artifacts and the verdict that the bring-up    *)
(* documents cite.                                                         *)
(*                                                                         *)
(* The scripts (src/scripts/monitor_*.py, run_*.py, alpha01a*_runner.py)   *)
(* are variations of one program.  This module is that program; what one   *)
(* script does at each variation point is a record, and BenchScripts has   *)
(* the records.  A record's artifact may stand for several files that are  *)
(* written one after the other.  The board is external: the lines its test *)
(* prints, each measured value good or bad, with resets, garbled lines and *)
(* a serial port that goes away.  A second run of a script finds the       *)
(* artifacts of the first.                                                 *)
(***************************************************************************)
EXTENDS Naturals, Sequences, FiniteSets

CONSTANTS
    Scripts,        \* the scripts, each a record (see BenchScripts)
    Patience,       \* reads that find nothing before the deadline
    Grace,          \* the same, from the marker to the end of the capture
    MaxRuns,        \* bound: invocations of the script
    MaxFaults       \* bound: faults, all kinds together

ASSUME BenchAssumption ==
    /\ Patience \in Nat \ {0} /\ Grace \in Nat \ {0}
    /\ MaxRuns \in Nat /\ MaxFaults \in Nat

\* A script is a list of lines to recognise and a list of artifacts to write.
ASSUME ScriptAssumption ==
    \A s \in Scripts :
        /\ Len(s.plan) \in Nat /\ DOMAIN s.plan = 1..Len(s.plan)
        /\ \A i \in DOMAIN s.plan : s.plan[i].kind \in {"row", "case", "marker"}
        /\ Len(s.steps) \in Nat /\ DOMAIN s.steps = 1..Len(s.steps)
        /\ s.live \in BOOLEAN /\ s.named \in BOOLEAN

\* The log is written as it comes, or is the first artifact, whatever is missing.
ASSUME LogFirst ==
    \A s \in Scripts :
        (\E i \in DOMAIN s.steps : s.steps[i].file = "log") /\ ~s.live =>
            s.steps[1].file = "log" /\ s.steps[1].missing = "written"

\* Where lines do not name their case, the first line of a test names it.
ASSUME CaseLineFirst ==
    \A s \in Scripts :
        ~s.named /\ (\E i \in DOMAIN s.plan : s.plan[i].kind = "case") =>
            s.plan[1].kind = "case"

\* A script whose exit code stands for something leaves out neither its log nor
\* its report.
ASSUME ReportAlways ==
    \A s \in Scripts : s.exit # "always" =>
        /\ s.exit \in {"marker", "row", "verdict"}
        /\ s.exit = "marker" => Len(s.markers) \in Nat \ {0}
        /\ \A i \in DOMAIN s.steps : s.steps[i].file \in {"log", "report"} =>
               s.steps[i].missing \notin {"left out", "kept"}

\* How a script tells the measurements of two boots apart.
MarkerFirst(s) ==
    /\ 1 \in DOMAIN s.plan /\ s.plan[1].kind = "marker"
    /\ s.markers = <<s.plan[1].name>> /\ s.plan[1].name \notin s.needs \cup s.counts
MarkerLast(s) ==
    /\ s.keep = "last" /\ s.lists \cap (s.needs \cup s.counts) = {}
    /\ s.markers # <<>>
    /\ \A i, j \in DOMAIN s.plan :
           s.plan[i].name = s.markers[Len(s.markers)]
           /\ s.plan[j].name \in s.needs \cup s.counts => j < i
BeginsOnce(s) ==
    /\ 1 \in DOMAIN s.plan /\ s.plan[1].kind = "row" /\ s.plan[1].name \in s.once

\* A script that judges does so over lines that come once in a test and that belong
\* to no case.  Where several measurements count, one of these keeps those of two
\* boots apart: the marker comes before them, and after it the board is not heard
\* again; or the last of equal lines is kept, and the marker comes after them;
\* or the first line of a test must not come twice.
ASSUME VerdictOfOneBoot ==
    \A s \in Scripts : s.judges =>
        LET gates == s.needs \cup s.counts
            lines == DOMAIN s.plan
        IN  /\ Len(s.markers) \in Nat /\ ~s.named
            /\ \A i \in lines : s.plan[i].kind # "case"
            /\ \A i, j \in lines :
                   s.plan[i].name = s.plan[j].name /\ s.plan[i].name \in gates => i = j
            /\ gates \cup s.present # {}
            /\ \/ \E name \in gates \cup s.present : gates \subseteq {name}
               \/ MarkerFirst(s) \/ MarkerLast(s) \/ BeginsOnce(s)

VARIABLES
    script,     \* the script that is run, again and again
    run,        \* number of this invocation
    phase,      \* where it stands
    tries,      \* failed attempts to open the port
    left,       \* reads until the deadline
    seen,       \* marker lines recognised
    rows,       \* measurements parsed
    current,    \* case a positional parser files rows under
    repeated,   \* a measurement came twice
    mangled,    \* artifacts that lines that came keep the script from
    todo,       \* next of the script's steps
    files,      \* the run that wrote each artifact, 0 for none
    exit,       \* exit code
    at,         \* the board: its next line
    port,       \* the board: serial port there or away
    spoiled,    \* the board: a gate was measured bad, or unseen, in this boot
    lost,       \* a line of this run was garbled or printed unseen
    boots,      \* resets of the board during this run
    earned,     \* a boot has measured every gate good
    completed,  \* the board has printed what the exit code stands for
    faults

hostVars == <<run, phase, tries, left, seen, rows, current, repeated, mangled,
              todo, files, exit>>
parseVars == <<seen, rows, current, repeated, mangled>>
boardVars == <<at, port, spoiled>>
ghostVars == <<lost, boots, earned, completed>>
vars == <<script, hostVars, boardVars, ghostVars, faults>>

NoCase == "no case"
Running == 99           \* no exit code yet
Killed == 130           \* Ctrl-C

Plan == script.plan
Stages == Len(script.markers)
Proof == IF script.exit = "marker" THEN script.markers[Stages] ELSE script.proof
Gates == script.needs \cup script.counts
Positional == ~script.named /\ \E i \in DOMAIN Plan : Plan[i].kind = "case"
Files(s) == {s.steps[i].file : i \in DOMAIN s.steps} \cup
            (IF s.live THEN {"log"} ELSE {})

-----------------------------------------------------------------------------
(* What the script makes of its rows *)

Has(name) == \E r \in rows : r.name = name
HasAll(names) == \A name \in names : Has(name)
Marked == \A i \in 1..Stages : Has(script.markers[i])
Good(name) == \E r \in rows : r.name = name /\ r.value = "good"

\* "under" names the record without which a case's values are not looked at, but
\* for those that are "always".
LookedAt(name) == HasAll(script.under) \/ name \in script.always

\* Rows that must be there, and rows of which there must be one.
Complete ==
    /\ script.marked => Marked
    /\ HasAll(script.present)
    /\ script.some = {} \/ \E name \in script.some : Has(name)

\* Rows that must be there and good, and rows whose absence counts as good.
Passes ==
    /\ \A name \in script.needs : LookedAt(name) => Good(name)
    /\ \A name \in script.counts : LookedAt(name) /\ Has(name) => Good(name)

\* Mutant: a line that must come once may come again.
BugVerdict == Complete /\ Passes

\* The condition under which the script reports PASS.
Verdict == Complete /\ Passes /\ ~repeated

\* Mutant: a test that was begun counts as finished.
BugExitCode == IF script.exit = "verdict" => Verdict THEN 0 ELSE 2

\* What the exit code 0 asks for.
ExitCode ==
    CASE script.exit = "marker"  -> IF Marked THEN 0 ELSE 2
      [] script.exit = "row"     -> IF Has(script.proof) THEN 0 ELSE 2
      [] script.exit = "verdict" -> IF Verdict THEN 0 ELSE 2
      [] script.exit = "always"  -> 0

\* A step that raises: on a line taken for a record that shlex.split, float or
\* the name of the record fails on, or on a measurement the code demands.
Raises(step) ==
    \/ step.file \in mangled
    \/ step.missing = "raises" /\ ~HasAll(step.requires)
    \/ step.missing = "raises if done" /\ Marked /\ ~HasAll(step.requires)

\* Mutant: a log that is there already is kept as well.
BugWritten(step) ==
    /\ step.missing = "left out" => HasAll(step.requires)
    /\ step.missing = "kept" \/ step.file = "log" => files[step.file] = 0

\* A table whose rows did not come is left out; what a hand has put into an
\* artifact is kept.
Written(step) ==
    /\ step.missing = "left out" => HasAll(step.requires)
    /\ step.missing = "kept" => files[step.file] = 0

-----------------------------------------------------------------------------
(* The host: one invocation *)

Stop(code) == phase' = "end" /\ exit' = code

Start ==
    /\ phase = "end" /\ run < MaxRuns
    /\ run' = run + 1 /\ phase' = "flash" /\ exit' = Running
    /\ tries' = 0 /\ left' = 0 /\ seen' = 0 /\ rows' = {} /\ current' = NoCase
    /\ repeated' = FALSE /\ mangled' = {} /\ todo' = 1
    /\ lost' = FALSE /\ boots' = 0 /\ earned' = FALSE
    /\ completed' = FALSE
    /\ UNCHANGED <<script, files, boardVars, faults>>

\* Flashing ends with a reset of the board into the new image.
Flash ==
    /\ phase = "flash" /\ script.flash # "never"
    /\ phase' = "open" /\ at' = 1 /\ spoiled' = FALSE
    /\ UNCHANGED <<script, run, tries, left, parseVars, todo, files, exit, port,
                   ghostVars, faults>>

\* esptool, idf.py or git ends with an error, or an image is not there.
FlashFails ==
    /\ phase = "flash" /\ script.flash # "never" /\ faults < MaxFaults
    /\ Stop(1) /\ faults' = faults + 1
    /\ UNCHANGED <<script, run, tries, left, parseVars, todo, files, boardVars,
                   ghostVars>>

\* --no-flash, or a script that does not flash: the board is where it was.
SkipFlash ==
    /\ phase = "flash" /\ script.flash # "always"
    /\ phase' = "open"
    /\ UNCHANGED <<script, run, tries, left, parseVars, todo, files, exit,
                   boardVars, ghostVars, faults>>

\* The port is open; lines printed before are gone, and the values in them.
\* Some scripts reset the board over RTS first; one that reads a log file
\* starts at its first line.
BeginLog == IF script.live THEN [files EXCEPT !["log"] = run] ELSE files

Open ==
    /\ phase = "open" /\ port = "there"
    /\ phase' = "read" /\ left' = Patience /\ tries' = 0
    /\ files' = BeginLog
    /\ LET from == IF script.resets \/ script.ends = "file" THEN 1 ELSE at IN
         \E k \in (IF script.resets THEN {1} ELSE from..(Len(Plan) + 1)) :
           /\ at' = k
           /\ lost' = (k > 1)
           /\ spoiled' \in {from = at /\ spoiled,
                            \E i \in from..(k - 1) : Plan[i].name \in Gates}
    /\ UNCHANGED <<script, run, parseVars, todo, exit, port, boots, earned,
                   completed, faults>>

\* After the last attempt the runners from B2 on hold a Serial object that is
\* not open, which "if not ser" takes for a port: they begin the log and fail
\* at the first read.
OpenFails ==
    /\ phase = "open" /\ port = "away"
    /\ tries' = tries + 1
    /\ IF tries + 1 = script.opens
       THEN Stop(1) /\ files' = IF script.unopened THEN BeginLog ELSE files
       ELSE UNCHANGED <<phase, exit, files>>
    /\ UNCHANGED <<script, run, left, parseVars, todo, boardVars, ghostVars,
                   faults>>

-----------------------------------------------------------------------------
(* The capture: the board prints a line and the script reads it *)

Line == Plan[at]

\* The case whose test the board is in.
BoardCase ==
    LET heads == {i \in 1..at : i <= Len(Plan) /\ Plan[i].kind = "case"}
    IN  IF heads = {} THEN NoCase
        ELSE Plan[CHOOSE i \in heads : \A j \in heads : j <= i].name

\* A measurement goes to the case its line names, or, in a positional parser, to
\* the case of the last case line, and nowhere before the first.  Of two equal
\* ones a parser keeps both in a list, or the first, or the last.
Filed(value) ==
    LET row == [name |-> Line.name, boot |-> boots, of |-> BoardCase,
                filed |-> IF script.named THEN BoardCase ELSE current,
                value |-> value]
        same == {r \in rows : r.name = row.name /\ r.filed = row.filed}
    IN  IF Positional /\ current = NoCase THEN rows
        ELSE IF Line.name \in script.lists THEN rows \cup {row}
        ELSE IF script.keep = "first" THEN rows \cup {r \in {row} : same = {}}
        ELSE (rows \ same) \cup {row}

FileRow(value) ==
    /\ rows' = Filed(value)
    /\ repeated' = (repeated \/ (Line.name \in script.once /\ Has(Line.name)))
    /\ UNCHANGED <<seen, current>>

\* Mutant: the case changes only when the last one has no records.
BugEnsureCase ==
    /\ current' = IF \E r \in rows : r.filed = current THEN current ELSE Line.name
    /\ UNCHANGED <<rows, seen, repeated>>

\* Mutant: a case that is known keeps its records.
BugKeepCase ==
    /\ current' = Line.name
    /\ UNCHANGED <<rows, seen, repeated>>

\* A new case starts with no records, and by_name keeps the last of a name.  A
\* positional parser takes a repeated case line for the same case; where the
\* lines name their case it "starts a new (later) run", but for the records that
\* are not in the case's own.
EnsureCase ==
    /\ current' = Line.name
    /\ rows' = IF Positional /\ Line.name = current THEN rows
               ELSE {r \in rows : r.filed # Line.name \/ r.name \in script.kept}
    /\ UNCHANGED <<seen, repeated>>

\* The markers count in their order; like any line they are in the log.
Recognise ==
    /\ rows' = Filed("good")
    /\ seen' = IF seen < Stages /\ Line.name = script.markers[seen + 1]
               THEN seen + 1 ELSE seen
    /\ UNCHANGED <<current, repeated>>

\* What the marker does to the deadline: B1 to B4A read on for a fixed time in
\* an inner loop, the later monitors bring the deadline forward, some stop.
NewDeadline ==
    IF seen' = Stages /\ seen < Stages
    THEN CASE script.ends = "drain"   -> Grace
           [] script.ends = "shorten" -> IF left < Grace THEN left ELSE Grace
           [] script.ends = "stop"    -> 0
    ELSE left

\* The board prints its next line, and with it a value.
BoardPrints(value) ==
    /\ at <= Len(Plan)
    /\ at' = at + 1
    /\ spoiled' = (spoiled \/ value = "bad")
    /\ earned' = (\/ earned
                  \/ /\ ~spoiled'
                     /\ \A i \in (at + 1)..Len(Plan) :
                            Plan[i].name \notin Gates)
    /\ completed' = (completed \/ Line.name = Proof)
    /\ UNCHANGED port

Values == IF Line.kind = "row" /\ Line.name \in Gates THEN {"good", "bad"}
          ELSE {"good"}

Hear ==
    /\ phase = "read" /\ left > 0 /\ at <= Len(Plan)
    /\ \E value \in Values :
         /\ BoardPrints(value)
         /\ CASE Line.kind = "row"    -> FileRow(value)
              [] Line.kind = "case"   -> EnsureCase
              [] Line.kind = "marker" -> Recognise
    /\ left' = NewDeadline
    /\ UNCHANGED <<script, run, phase, tries, mangled, todo, files, exit, lost,
                   boots, faults>>

\* A line with a replacement character in it, or cut in two by the timeout of
\* readline: no pattern of the script matches.  Or one it takes for a record
\* that has lost its name, a quote or a digit, which some scripts mind, unless
\* a later line of the same kind replaces it.
HearGarbled ==
    /\ phase = "read" /\ left > 0 /\ faults < MaxFaults
    /\ at <= Len(Plan)
    /\ \E value \in Values : BoardPrints(value)
    /\ \/ UNCHANGED mangled
       \/ /\ Line.kind = "row"
          /\ \E file \in script.strict : mangled' = mangled \cup {file}
    /\ lost' = TRUE /\ faults' = faults + 1
    /\ UNCHANGED <<script, run, phase, tries, left, seen, rows, current,
                   repeated, todo, files, exit, boots>>

\* Mutant: the deadline is computed anew after an empty read.
BugTick ==
    /\ phase = "read" /\ left > 0
    /\ left' = IF script.quiet /\ seen > 0 THEN 0 ELSE Patience
    /\ UNCHANGED <<script, run, phase, tries, parseVars, todo, files, exit,
                   boardVars, ghostVars, faults>>

\* A read that finds nothing: time passes.  The monitors of B4B.2 to B4B.4F
\* take it for the end once a marker has come.
Tick ==
    /\ phase = "read" /\ left > 0
    /\ left' = IF script.quiet /\ seen > 0 THEN 0 ELSE left - 1
    /\ UNCHANGED <<script, run, phase, tries, parseVars, todo, files, exit,
                   boardVars, ghostVars, faults>>

CaptureEnds ==
    /\ phase = "read" /\ left = 0
    /\ phase' = "steps"
    /\ UNCHANGED <<script, run, tries, left, parseVars, todo, files, exit,
                   boardVars, ghostVars, faults>>

\* Ctrl-C: the runners to B4B.1 end the capture with it, in the later ones
\* nothing catches it; after the capture it ends every script.
Interrupt ==
    /\ phase \in {"read", "steps"} /\ faults < MaxFaults
    /\ faults' = faults + 1
    /\ IF phase = "read" /\ script.interrupt = "keeps"
       THEN phase' = "steps" /\ UNCHANGED exit
       ELSE Stop(Killed)
    /\ UNCHANGED <<script, run, tries, left, parseVars, todo, files, boardVars,
                   ghostVars>>

\* The port breaks under a read: an error that only the runner of Alpha 0.1A1
\* takes for the end of the capture.  That of Alpha 0.1A reads on, which is a
\* Tick.
ReadFails ==
    /\ phase = "read" /\ left > 0 /\ faults < MaxFaults
    /\ script.broken # "goes on" /\ faults' = faults + 1
    /\ IF script.broken = "keeps"
       THEN phase' = "steps" /\ UNCHANGED exit
       ELSE Stop(1)
    /\ UNCHANGED <<script, run, tries, left, parseVars, todo, files, boardVars,
                   ghostVars>>

-----------------------------------------------------------------------------
(* The artifacts, in the script's order *)

WriteArtifact ==
    /\ phase = "steps" /\ todo <= Len(script.steps)
    /\ LET step == script.steps[todo] IN
         IF Raises(step)
         THEN Stop(1) /\ UNCHANGED <<todo, files>>
         ELSE /\ todo' = todo + 1
              /\ files' = IF Written(step)
                          THEN [files EXCEPT ![step.file] = run] ELSE files
              /\ UNCHANGED <<phase, exit>>
    /\ UNCHANGED <<script, run, tries, left, parseVars, boardVars, ghostVars,
                   faults>>

\* The disk refuses the artifact, before the file is opened or in the middle.
StepFails ==
    /\ phase = "steps" /\ todo <= Len(script.steps) /\ faults < MaxFaults
    /\ LET step == script.steps[todo] IN
         /\ ~Raises(step) /\ Written(step)
         /\ files' \in {files, [files EXCEPT ![step.file] = run]}
    /\ Stop(1) /\ faults' = faults + 1
    /\ UNCHANGED <<script, run, tries, left, parseVars, todo, boardVars,
                   ghostVars>>

Finish ==
    /\ phase = "steps" /\ todo > Len(script.steps)
    /\ Stop(ExitCode)
    /\ UNCHANGED <<script, run, tries, left, parseVars, todo, files, boardVars,
                   ghostVars, faults>>

-----------------------------------------------------------------------------
(* The board and the serial port (external) *)

\* The test starts anew.  It outlasts the grace, so after the last marker the
\* script hears nothing of it.
BoardReset ==
    /\ phase = "read" /\ faults < MaxFaults
    /\ at > 1
    /\ at' = IF Stages > 0 /\ seen = Stages
             THEN Len(Plan) + 1 ELSE 1
    /\ spoiled' = FALSE /\ boots' = boots + 1
    /\ faults' = faults + 1
    /\ UNCHANGED <<script, hostVars, port, lost, earned, completed>>

\* USB re-enumerates: the port is away for any time.
PortLeaves ==
    /\ phase = "open" /\ port = "there" /\ faults < MaxFaults
    /\ port' = "away" /\ faults' = faults + 1
    /\ UNCHANGED <<script, hostVars, at, spoiled, ghostVars>>

PortReturns ==
    /\ port = "away"
    /\ port' = "there"
    /\ UNCHANGED <<script, hostVars, at, spoiled, ghostVars, faults>>

-----------------------------------------------------------------------------
Init ==
    /\ script \in Scripts
    /\ run = 0 /\ phase = "end" /\ tries = 0 /\ left = 0 /\ seen = 0
    /\ rows = {} /\ current = NoCase /\ repeated = FALSE /\ mangled = {}
    /\ todo = 1 /\ files = [f \in Files(script) |-> 0] /\ exit = Running
    /\ at = 1 /\ port = "there" /\ spoiled = FALSE
    /\ lost = FALSE /\ boots = 0 /\ earned = FALSE /\ completed = FALSE
    /\ faults = 0

\* What the host does without anybody's help.
Host ==
    \/ Flash \/ SkipFlash \/ Open \/ OpenFails
    \/ Tick \/ CaptureEnds \/ WriteArtifact \/ Finish

Next ==
    \/ Start \/ Host \/ FlashFails \/ Hear \/ HearGarbled \/ Interrupt
    \/ ReadFails \/ StepFails \/ BoardReset \/ PortLeaves \/ PortReturns

Spec == Init /\ [][Next]_vars
FairSpec == Spec /\ WF_vars(Host)
-----------------------------------------------------------------------------
(* Properties *)

\* Evidence comes first: no table or report on disk is of a later run than the
\* raw log beside it, whatever run was killed, crashed or repeated.
EvidenceFirst ==
    "log" \in Files(script) =>
        \A f \in Files(script) : files[f] <= files["log"]

\* The script claims PASS: its report on disk says so, or its exit code.
Claims ==
    /\ script.judges /\ Verdict
    /\ \/ "report" \in Files(script) /\ run > 0 /\ files["report"] = run
       \/ script.exit = "verdict" /\ exit = 0

\* PASS is earned: one boot of the board has measured every gate good.  The
\* scripts do not ask for the rows whose absence counts as good, nor for the
\* record the others are looked at under; a capture without these is left out.
\* Where several measurements count, after a reset that takes a complete
\* capture: without the last marker, or with a line lost, monitor_b4b6.py would
\* merge the records of two boots.
Several == ~\E name \in Gates \cup script.present : Gates \subseteq {name}
Mixed == Several /\ boots > 0 /\ (lost \/ seen < Stages)
PassIsEarned ==
    Claims /\ HasAll(script.counts \cup script.under) /\ ~Mixed => earned

\* An exit code that stands for a finished test is 0 only when the board has
\* finished one while this run listened, and the log and the report on disk
\* are this run's.
ExitIsHonest ==
    exit = 0 /\ script.exit # "always" =>
        /\ \A f \in Files(script) \cap {"log", "report"} : files[f] = run
        /\ script.exit = "verdict" \/ completed

\* Every measurement is filed under the case that made it, as long as no line
\* is lost: resets do not confuse a positional parser.
OwnRows == ~lost => \A r \in rows : r.filed \in {r.of, NoCase}

\* A case whose lines name it shows the measurements of one boot only, however
\* often the campaign was begun anew in the log, as long as no line is lost.
\* The later analyses keep some records of a case outside it ("kept"), and mix
\* them with the measurements of a boot that did not come to print its own.
CaseOfOneBoot ==
    ~lost /\ script.named =>
        \A r, s \in {q \in rows : q.name \notin script.kept} :
            r.filed = s.filed /\ r.filed # NoCase => r.boot = s.boot

\* A run ends, whatever the board does or leaves undone.
RunEnds == phase # "end" ~> phase = "end"
=============================================================================
