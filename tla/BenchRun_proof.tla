---------------------------- MODULE BenchRun_proof ----------------------------
(***************************************************************************)
(* Any set of scripts on any number of runs with any number of faults:     *)
(* their artifacts, and the case and the boot each measurement is filed    *)
(* under.  What a script must keep to are the assumptions of BenchRun.     *)
(***************************************************************************)
EXTENDS BenchRun, TLAPS

-----------------------------------------------------------------------------
(* The artifacts *)

(* A log that is written line by line is begun with the port; another is   *)
(* the first of the artifacts.  Everything else follows it.                *)
LogBegun ==
    "log" \in Files(script) =>
        /\ script.live /\ phase \in {"read", "steps"} => files["log"] = run
        /\ ~script.live /\ phase = "steps" /\ todo > 1 => files["log"] = run

FilesOK ==
    /\ script \in Scripts
    /\ run \in Nat /\ todo \in Nat \ {0}
    /\ phase \in {"flash", "open", "read"} => todo = 1
    /\ files \in [Files(script) -> 0..run]
    /\ LogBegun /\ EvidenceFirst

LEMMA InitFiles == Init => FilesOK
BY DEF Init, FilesOK, LogBegun, EvidenceFirst

(* Most steps leave the artifacts alone; the capture ends with todo = 1.   *)
LEMMA SameFiles ==
    ASSUME FilesOK, UNCHANGED <<script, run, todo, files>>,
           \/ phase' = phase
           \/ phase' = "end"
           \/ phase = "flash" /\ phase' = "open"
           \/ phase = "read" /\ phase' = "steps"
    PROVE  FilesOK'
<1>1. Files(script)' = Files(script)  BY DEF Files
<1>2. EvidenceFirst'  BY <1>1 DEF FilesOK, EvidenceFirst
<1>3. LogBegun'  BY <1>1 DEF FilesOK, LogBegun
<1> QED  BY <1>1, <1>2, <1>3 DEF FilesOK

LEMMA StartFiles == ASSUME FilesOK, Start PROVE FilesOK'
<1>1. Files(script)' = Files(script)  BY DEF Files, Start
<1>2. /\ run' = run + 1 /\ files' = files /\ script' = script
      /\ todo' = 1 /\ phase' = "flash"
    BY DEF Start
<1>3. files' \in [Files(script)' -> 0..run']
  <2>1. 0..run \subseteq 0..run'  BY <1>2 DEF FilesOK
  <2> QED  BY <1>1, <1>2, <2>1 DEF FilesOK
<1>4. EvidenceFirst'  BY <1>1, <1>2 DEF FilesOK, EvidenceFirst
<1> QED  BY <1>1, <1>2, <1>3, <1>4 DEF FilesOK, LogBegun

(* The log is begun: it is at least as new as anything.                    *)
LEMMA Newest ==
    ASSUME FilesOK, NEW f \in Files(script), "log" \in Files(script),
           files' = [files EXCEPT ![f] = run], UNCHANGED <<script, run>>,
           f = "log" \/ files["log"] = run
    PROVE  /\ files' \in [Files(script)' -> 0..run']
           /\ files'["log"] = run'
           /\ EvidenceFirst'
<1>1. Files(script)' = Files(script)  BY DEF Files
<1>2. run \in 0..run  BY DEF FilesOK
<1>3. files' \in [Files(script) -> 0..run]  BY <1>2 DEF FilesOK
<1>4. files'["log"] = run  BY <1>3 DEF FilesOK
<1>5. \A g \in Files(script) : files'[g] <= run  BY <1>3 DEF FilesOK
<1> QED  BY <1>1, <1>3, <1>4, <1>5 DEF EvidenceFirst

LEMMA OpenFiles == ASSUME FilesOK, Open \/ OpenFails PROVE FilesOK'
<1>1. UNCHANGED <<script, run, todo>> /\ todo = 1
    BY DEF Open, OpenFails, FilesOK
<1>2. /\ phase' \in {"open", "read", "end"} 
      /\ files' \in {files, BeginLog}
      /\ phase' = "read" => files' = BeginLog
    BY DEF Open, OpenFails, Stop
<1>3. Files(script)' = Files(script)  BY <1>1 DEF Files
<1>4. CASE script.live /\ files' = BeginLog
  <2>1. "log" \in Files(script) /\ files' = [files EXCEPT !["log"] = run]
      BY <1>4 DEF BeginLog, Files
  <2>2. /\ files' \in [Files(script)' -> 0..run']
        /\ files'["log"] = run' /\ EvidenceFirst'
      BY <1>1, <2>1, Newest
  <2> QED  BY <1>1, <1>2, <1>3, <1>4, <2>2 DEF FilesOK, LogBegun
<1>5. CASE ~script.live \/ files' = files
  <2>1. files' = files  BY <1>2, <1>5 DEF BeginLog
  <2>2. EvidenceFirst'  BY <1>1, <1>3, <2>1 DEF FilesOK, EvidenceFirst
  <2>3. ~(script.live /\ phase' = "read") \/ files' = BeginLog  BY <1>2
  <2>4. CASE phase' # "read" \/ ~script.live
      BY <1>1, <1>2, <1>3, <2>1, <2>2, <2>4 DEF FilesOK, LogBegun
  <2> QED  BY <1>2, <1>4, <2>4
<1> QED  BY <1>2, <1>4, <1>5

(* An artifact is begun after the log, or is the log.                      *)
LEMMA BeginFile ==
    ASSUME FilesOK, phase = "steps", todo \in DOMAIN script.steps,
           Written(script.steps[todo]), UNCHANGED <<script, run>>,
           files' = [files EXCEPT ![script.steps[todo].file] = run]
    PROVE  /\ files' \in [Files(script)' -> 0..run']
           /\ "log" \in Files(script) => files'["log"] = run'
           /\ EvidenceFirst'
<1> DEFINE step == script.steps[todo]
<1>1. step.file \in Files(script)  BY DEF Files
<1>2. Files(script)' = Files(script)  BY DEF Files
<1>3. CASE "log" \notin Files(script)
  <2>1. run \in 0..run  BY DEF FilesOK
  <2>2. files' \in [Files(script) -> 0..run]  BY <1>1, <2>1 DEF FilesOK
  <2> QED  BY <1>2, <1>3, <2>2 DEF EvidenceFirst
<1>4. CASE "log" \in Files(script)
  <2>1. CASE script.live \/ todo > 1
    <3>1. files["log"] = run  BY <1>4, <2>1 DEF FilesOK, LogBegun
    <3> QED  BY <1>1, <1>4, <3>1, Newest
  <2>2. CASE ~script.live /\ ~(todo > 1)
    <3>1. todo = 1  BY <2>2 DEF FilesOK
    <3>2. \E i \in DOMAIN script.steps : script.steps[i].file = "log"
        BY <1>4, <2>2 DEF Files
    <3>3. step.file = "log"  BY <2>2, <3>1, <3>2, LogFirst DEF FilesOK
    <3> QED  BY <1>1, <1>4, <3>3, Newest
  <2> QED  BY <2>1, <2>2
<1> QED  BY <1>3, <1>4

LEMMA WriteFiles == ASSUME FilesOK, WriteArtifact PROVE FilesOK'
<1> DEFINE step == script.steps[todo]
<1>1. /\ UNCHANGED <<script, run>> /\ phase = "steps"
      /\ todo \in DOMAIN script.steps
    BY ScriptAssumption DEF WriteArtifact, FilesOK
<1>2. Files(script)' = Files(script)  BY <1>1 DEF Files
<1>3. CASE Raises(step)
    BY <1>3, SameFiles DEF WriteArtifact, Stop
<1>4. CASE ~Raises(step)
  <2>1. /\ todo' = todo + 1 /\ phase' = "steps"
        /\ files' = IF Written(step) THEN [files EXCEPT ![step.file] = run] ELSE files
      BY <1>1, <1>4 DEF WriteArtifact
  <2>2. todo' \in Nat \ {0} /\ todo' > 1  BY <2>1 DEF FilesOK
  <2>3. CASE Written(step)
    <3>1. /\ files' \in [Files(script)' -> 0..run']
          /\ "log" \in Files(script) => files'["log"] = run'
          /\ EvidenceFirst'
        BY <1>1, <2>1, <2>3, BeginFile
    <3> QED  BY <1>1, <1>2, <2>1, <2>2, <3>1 DEF FilesOK, LogBegun
  <2>4. CASE ~Written(step)
    <3>1. files' = files /\ EvidenceFirst'
        BY <1>1, <1>2, <2>1, <2>4 DEF FilesOK, EvidenceFirst
    <3>2. CASE ~script.live /\ "log" \in Files(script) /\ todo = 1
      <4>1. \E i \in DOMAIN script.steps : script.steps[i].file = "log"
          BY <3>2 DEF Files
      <4>2. step.missing = "written"  BY <3>2, <4>1, LogFirst DEF FilesOK
      <4> QED  BY <2>4, <4>2 DEF Written
    <3>3. CASE ~(~script.live /\ "log" \in Files(script) /\ todo = 1)
      <4>1. "log" \in Files(script) => files["log"] = run
          BY <1>1, <3>3 DEF FilesOK, LogBegun
      <4> QED  BY <1>1, <1>2, <2>1, <2>2, <3>1, <4>1 DEF FilesOK, LogBegun
    <3> QED  BY <3>2, <3>3
  <2> QED  BY <2>3, <2>4
<1> QED  BY <1>3, <1>4

LEMMA FailFiles == ASSUME FilesOK, StepFails PROVE FilesOK'
<1> DEFINE step == script.steps[todo]
<1>1. /\ UNCHANGED <<script, run, todo>> /\ phase = "steps" /\ phase' = "end"
      /\ todo \in DOMAIN script.steps /\ Written(step)
      /\ files' \in {files, [files EXCEPT ![step.file] = run]}
    BY ScriptAssumption DEF StepFails, Stop, FilesOK
<1>2. CASE files' = files  BY <1>1, <1>2, SameFiles
<1>3. CASE files' = [files EXCEPT ![step.file] = run]
  <2>1. /\ files' \in [Files(script)' -> 0..run']
        /\ EvidenceFirst'
      BY <1>1, <1>3, BeginFile
  <2> QED  BY <1>1, <2>1 DEF FilesOK, LogBegun
<1> QED  BY <1>1, <1>2, <1>3

LEMMA NextFiles == FilesOK /\ [Next]_vars => FilesOK'
<1> SUFFICES ASSUME FilesOK, [Next]_vars PROVE FilesOK'
    OBVIOUS
<1>1. CASE Start  BY <1>1, StartFiles
<1>2. CASE Host
  <2>1. CASE Flash \/ SkipFlash  BY <2>1, SameFiles DEF Flash, SkipFlash
  <2>2. CASE Open \/ OpenFails  BY <2>2, OpenFiles
  <2>3. CASE Tick  BY <2>3, SameFiles DEF Tick
  <2>4. CASE CaptureEnds  BY <2>4, SameFiles DEF CaptureEnds
  <2>5. CASE WriteArtifact  BY <2>5, WriteFiles
  <2>6. CASE Finish  BY <2>6, SameFiles DEF Finish, Stop
  <2> QED  BY <1>2, <2>1, <2>2, <2>3, <2>4, <2>5, <2>6 DEF Host
<1>3. CASE FlashFails  BY <1>3, SameFiles DEF FlashFails, Stop
<1>4. CASE Hear \/ HearGarbled  BY <1>4, SameFiles DEF Hear, HearGarbled
<1>5. CASE Interrupt  BY <1>5, SameFiles DEF Interrupt, Stop
<1>6. CASE ReadFails \/ StepFails
    BY <1>6, SameFiles, FailFiles DEF ReadFails, Stop
<1>7. CASE BoardReset \/ PortLeaves \/ PortReturns
    BY <1>7, SameFiles DEF BoardReset, PortLeaves, PortReturns, hostVars
<1>8. CASE UNCHANGED vars
    BY <1>8, SameFiles DEF vars, hostVars
<1> QED  BY <1>1, <1>2, <1>3, <1>4, <1>5, <1>6, <1>7, <1>8 DEF Next

(* No table or report on disk is of a later run than the raw log beside    *)
(* it, for every script that writes its log first.                         *)
THEOREM LogFirstOnDisk == Spec => []EvidenceFirst
<1>1. FilesOK => EvidenceFirst  BY DEF FilesOK
<1> QED  BY <1>1, InitFiles, NextFiles, PTL DEF Spec
-----------------------------------------------------------------------------
(* The rows *)

(* The case whose line is the last among the first k. *)
HeadsIn(plan, k) == {i \in 1..k : i <= Len(plan) /\ plan[i].kind = "case"}
CaseIn(plan, k) ==
    IF HeadsIn(plan, k) = {} THEN NoCase
    ELSE plan[CHOOSE i \in HeadsIn(plan, k) : \A j \in HeadsIn(plan, k) : j <= i].name

LEMMA BoardCaseIn == BoardCase = CaseIn(Plan, at)
BY DEF BoardCase, CaseIn, HeadsIn

LEMMA CaseAtStart == \A plan : CaseIn(plan, 0) = NoCase
BY DEF CaseIn, HeadsIn

LEMMA CaseStays ==
    ASSUME NEW plan, NEW k \in Nat \ {0}, plan[k].kind # "case"
    PROVE  CaseIn(plan, k) = CaseIn(plan, k - 1)
<1>1. HeadsIn(plan, k) = HeadsIn(plan, k - 1)  BY DEF HeadsIn
<1> QED  BY <1>1 DEF CaseIn

LEMMA CaseChanges ==
    ASSUME NEW plan, NEW k \in Nat \ {0}, Len(plan) \in Nat, k <= Len(plan),
           plan[k].kind = "case"
    PROVE  CaseIn(plan, k) = plan[k].name
<1> DEFINE heads == HeadsIn(plan, k)
<1>1. k \in heads /\ \A j \in heads : j \in Nat /\ j <= k  BY DEF HeadsIn
<1>2. \A i \in heads : (\A j \in heads : j <= i) => i = k  BY <1>1
<1>3. (CHOOSE i \in heads : \A j \in heads : j <= i) = k
  <2> HIDE DEF heads
  <2> QED  BY <1>1, <1>2
<1> QED  BY <1>1, <1>3 DEF CaseIn

(* A positional parser is where the board is, from the first line on: the  *)
(* case of the line before.                                                *)
InStep ==
    /\ ~lost /\ phase = "read" /\ Positional /\ 1 < at /\ at <= Len(Plan)
           => current = CaseIn(Plan, at - 1)
    /\ ~script.named /\ ~Positional => current = NoCase

(* The measurements of the case that the board is in are those of this     *)
(* boot: its case line has dropped the others.                             *)
ThisBoot ==
    ~lost /\ script.named /\ phase = "read" /\ at <= Len(Plan) =>
        \A r \in {q \in rows : q.name \notin script.kept} :
            r.filed = CaseIn(Plan, at - 1) /\ r.filed # NoCase => r.boot = boots

RowsOK ==
    /\ script \in Scripts
    /\ at \in Nat \ {0}
    /\ phase \in {"flash", "open"} => rows = {}
    /\ InStep /\ ThisBoot
    /\ OwnRows /\ CaseOfOneBoot

LEMMA PlanType ==
    ASSUME script \in Scripts
    PROVE  /\ Len(Plan) \in Nat /\ DOMAIN Plan = 1..Len(Plan)
           /\ \A i \in 1..Len(Plan) : Plan[i].kind \in {"row", "case", "marker"}
           /\ script.named \in BOOLEAN
           /\ Positional => Plan[1].kind = "case"
BY ScriptAssumption, CaseLineFirst DEF Plan, Positional

LEMMA InitRows == Init => RowsOK
BY PlanType DEF Init, RowsOK, InStep, ThisBoot, OwnRows, CaseOfOneBoot

(* Steps that leave the rows alone, and from the capture only go on. *)
LEMMA SameRows ==
    ASSUME RowsOK, UNCHANGED <<script, at, rows, current, lost, boots>>,
           phase' = phase \/ phase' \notin {"flash", "open", "read"}
    PROVE  RowsOK'
BY DEF RowsOK, InStep, ThisBoot, OwnRows, CaseOfOneBoot, Positional, Plan

(* Without rows only the place of the board matters. *)
LEMMA NoRows ==
    ASSUME RowsOK, rows' = {}, script' = script, at' \in Nat \ {0},
           phase' = "read" /\ ~lost' => at' = 1,
           current' \in {current, NoCase}
    PROVE  RowsOK'
BY DEF RowsOK, InStep, ThisBoot, OwnRows, CaseOfOneBoot, Positional, Plan

LEMMA ResetRows == ASSUME RowsOK, BoardReset PROVE RowsOK'
<1>1. /\ UNCHANGED <<script, phase, rows, current, lost>> /\ phase = "read"
      /\ at' = 1 \/ at' = Len(Plan) + 1
    BY DEF BoardReset, hostVars, parseVars
<1>2. CaseIn(Plan, 0) = NoCase  BY CaseAtStart
<1>3. Plan' = Plan /\ Positional' = Positional  BY <1>1 DEF Plan, Positional
<1>4. Len(Plan) \in Nat /\ at' \in Nat \ {0}  BY <1>1, PlanType DEF RowsOK
<1>5. OwnRows' /\ CaseOfOneBoot'  BY <1>1 DEF RowsOK, OwnRows, CaseOfOneBoot
<1>6. InStep'  BY <1>1, <1>3, <1>4 DEF RowsOK, InStep
<1>7. ThisBoot'
  <2>1. CASE at' = 1  BY <2>1, <1>2, <1>3 DEF ThisBoot
  <2>2. CASE at' = Len(Plan) + 1  BY <2>2, <1>3, <1>4 DEF ThisBoot
  <2> QED  BY <1>1, <2>1, <2>2
<1> QED  BY <1>1, <1>4, <1>5, <1>6, <1>7 DEF RowsOK

(* A line that is not a case line adds at most its own row. *)
LEMMA FiledRow ==
    ASSUME NEW value
    PROVE  Filed(value) \subseteq
             rows \cup {[name |-> Line.name, boot |-> boots, of |-> BoardCase,
                         filed |-> IF script.named THEN BoardCase ELSE current,
                         value |-> value]}
BY DEF Filed

LEMMA MeasureRows ==
    ASSUME RowsOK, NEW value, phase = "read", phase' = "read",
           at <= Len(Plan), Line.kind # "case",
           at' = at + 1, rows' = Filed(value),
           UNCHANGED <<script, current, lost, boots>>
    PROVE  RowsOK'
<1> DEFINE row == [name |-> Line.name, boot |-> boots, of |-> BoardCase,
                   filed |-> IF script.named THEN BoardCase ELSE current,
                   value |-> value]
<1>1. rows' \subseteq rows \cup {row}  BY FiledRow
<1>2. at \in Nat \ {0} /\ script \in Scripts  BY DEF RowsOK
<1>3. Plan' = Plan /\ Positional' = Positional  BY DEF Plan, Positional
<1>4. CaseIn(Plan, at) = CaseIn(Plan, at - 1)  BY <1>2, CaseStays DEF Line
<1>5. BoardCase = CaseIn(Plan, at)  BY BoardCaseIn
<1>6. Positional => at # 1  BY <1>2, PlanType DEF Line
<1>7. ~lost /\ Positional => current = BoardCase
    BY <1>2, <1>4, <1>5, <1>6 DEF RowsOK, InStep
<1>8. at' - 1 = at  BY <1>2
<1>9. InStep'  BY <1>3, <1>5, <1>7, <1>8 DEF RowsOK, InStep
<1>10. row.of = BoardCase /\ row.boot = boots
       /\ row.filed = (IF script.named THEN BoardCase ELSE current)
    OBVIOUS
<1>11. ~lost => row.filed \in {row.of, NoCase}
    BY <1>2, <1>7, <1>10, PlanType DEF RowsOK, InStep
<1> HIDE DEF row
<1>12. OwnRows'  BY <1>1, <1>11 DEF RowsOK, OwnRows
<1>13. ASSUME ~lost, script.named, NEW r \in rows, r.name \notin script.kept,
              r.filed = BoardCase, r.filed # NoCase
       PROVE  r.boot = boots
  <2>1. at <= Len(Plan)  OBVIOUS
  <2> QED  BY <1>4, <1>5, <1>13, <2>1 DEF RowsOK, ThisBoot
<1>14. ThisBoot'
  <2> SUFFICES ASSUME ~lost, script.named, NEW r \in rows', r.name \notin script.kept,
                      r.filed = BoardCase, r.filed # NoCase
               PROVE  r.boot = boots
      BY <1>3, <1>5, <1>8 DEF ThisBoot
  <2> QED  BY <1>1, <1>10, <1>13
<1>15. CaseOfOneBoot'
  <2> SUFFICES ASSUME ~lost, script.named,
                      NEW r \in rows', r.name \notin script.kept,
                      NEW s \in rows', s.name \notin script.kept,
                      r.filed = s.filed, r.filed # NoCase
               PROVE  r.boot = s.boot
      BY DEF CaseOfOneBoot
  <2>1. CASE r \in rows /\ s \in rows  BY <2>1 DEF RowsOK, CaseOfOneBoot
  <2>2. CASE r = row \/ s = row
    <3>1. r.filed = BoardCase /\ s.filed = BoardCase  BY <2>2, <1>10
    <3>2. r.boot = boots /\ s.boot = boots  BY <1>1, <1>10, <1>13, <3>1
    <3> QED  BY <3>2
  <2> QED  BY <1>1, <2>1, <2>2
<1> QED  BY <1>2, <1>9, <1>12, <1>14, <1>15 DEF RowsOK

LEMMA CaseRows ==
    ASSUME RowsOK, phase = "read", phase' = "read",
           at <= Len(Plan), Line.kind = "case",
           at' = at + 1, EnsureCase, UNCHANGED <<script, lost, boots>>
    PROVE  RowsOK'
<1>1. at \in Nat \ {0} /\ script \in Scripts  BY DEF RowsOK
<1>2. Plan' = Plan /\ Positional' = Positional  BY DEF Plan, Positional
<1>3. CaseIn(Plan, at) = Line.name  BY <1>1, PlanType, CaseChanges DEF Line
<1>4. at' - 1 = at  BY <1>1
<1>5. current' = Line.name /\ rows' \subseteq rows  BY DEF EnsureCase
<1>6. script.named \/ Positional
  <2>1. at \in DOMAIN Plan /\ Plan[at].kind = "case"  BY <1>1, PlanType DEF Line
  <2> QED  BY <2>1 DEF Positional
<1>7. InStep'  BY <1>2, <1>3, <1>4, <1>5, <1>6 DEF InStep
<1>8. OwnRows' /\ CaseOfOneBoot'  BY <1>5 DEF RowsOK, OwnRows, CaseOfOneBoot
<1>9. script.named => \A r \in rows' : r.filed # Line.name \/ r.name \in script.kept
    BY DEF EnsureCase, Positional
<1>10. ThisBoot'  BY <1>2, <1>3, <1>4, <1>9 DEF ThisBoot
<1> QED  BY <1>1, <1>7, <1>8, <1>10 DEF RowsOK

LEMMA HearRows == ASSUME RowsOK, Hear PROVE RowsOK'
<1>1. /\ phase = "read" /\ phase' = "read" /\ at <= Len(Plan) /\ at' = at + 1
      /\ UNCHANGED <<script, lost, boots>>
    BY DEF Hear, BoardPrints
<1>2. Line.kind \in {"row", "case", "marker"}
    BY <1>1, PlanType DEF RowsOK, Line
<1>3. CASE Line.kind = "row"
  <2>1. PICK value \in Values : FileRow(value)  BY <1>3 DEF Hear
  <2>2. rows' = Filed(value) /\ current' = current  BY <2>1 DEF FileRow
  <2> QED  BY <1>1, <1>3, <2>2, MeasureRows
<1>4. CASE Line.kind = "case"
  <2>1. EnsureCase  BY <1>4 DEF Hear
  <2> QED  BY <1>1, <1>4, <2>1, CaseRows
<1>5. CASE Line.kind = "marker"
  <2>1. rows' = Filed("good") /\ current' = current  BY <1>5 DEF Hear, Recognise
  <2> QED  BY <1>1, <1>5, <2>1, MeasureRows
<1> QED  BY <1>2, <1>3, <1>4, <1>5

LEMMA GarbledRows == ASSUME RowsOK, HearGarbled PROVE RowsOK'
<1>1. /\ lost' /\ at' = at + 1 /\ phase = "read"
      /\ UNCHANGED <<script, phase, rows, current>>
    BY DEF HearGarbled, BoardPrints
<1> QED  BY <1>1 DEF RowsOK, InStep, ThisBoot, OwnRows, CaseOfOneBoot, Positional, Plan

LEMMA OpenRows == ASSUME RowsOK, Open PROVE RowsOK'
<1>1. /\ UNCHANGED <<script, rows, current>> /\ phase = "open"
      /\ at' \in Nat \ {0}
      /\ ~lost' => at' = 1
  <2>1. UNCHANGED <<script, rows, current>> /\ phase = "open"
      BY DEF Open, parseVars
  <2> DEFINE from == IF script.resets \/ script.ends = "file" THEN 1 ELSE at
  <2>2. PICK k \in (IF script.resets THEN {1} ELSE from..(Len(Plan) + 1)) :
            at' = k /\ lost' = (k > 1)
      BY DEF Open
  <2>3. at \in Nat \ {0} /\ Len(Plan) \in Nat  BY PlanType DEF RowsOK
  <2>4. k \in Nat \ {0}  BY <2>2, <2>3
  <2>5. k > 1 \/ k = 1  BY <2>4
  <2>6. k > 1 => lost'  BY <2>2, Zenon
  <2> QED  BY <2>1, <2>2, <2>4, <2>5, <2>6
<1>2. rows' = {}  BY <1>1 DEF RowsOK
<1> QED  BY <1>1, <1>2, NoRows

LEMMA NextRows == RowsOK /\ [Next]_vars => RowsOK'
<1> SUFFICES ASSUME RowsOK, [Next]_vars PROVE RowsOK'
    OBVIOUS
<1>1. CASE Start
  <2>1. /\ rows' = {} /\ script' = script /\ at' = at /\ phase' = "flash"
        /\ current' = NoCase
      BY <1>1 DEF Start, boardVars
  <2> QED  BY <2>1, NoRows DEF RowsOK
<1>2. CASE Host
  <2>1. CASE Flash \/ SkipFlash
    <3>1. /\ rows' = rows /\ current' = current /\ script' = script
          /\ at' \in {1, at} /\ phase = "flash" /\ phase' = "open"
        BY <2>1 DEF Flash, SkipFlash, parseVars, boardVars
    <3> QED  BY <3>1, NoRows DEF RowsOK
  <2>2. CASE Open  BY <2>2, OpenRows
  <2>3. CASE OpenFails
      BY <2>3, SameRows DEF OpenFails, Stop, parseVars, boardVars, ghostVars
  <2>4. CASE Tick
      BY <2>4, SameRows DEF Tick, parseVars, boardVars, ghostVars
  <2>5. CASE CaptureEnds
      BY <2>5, SameRows DEF CaptureEnds, parseVars, boardVars, ghostVars
  <2>6. CASE WriteArtifact
    <3>1. phase' = phase \/ phase' = "end"
        BY <2>6 DEF WriteArtifact, Stop
    <3> QED  BY <2>6, <3>1, SameRows DEF WriteArtifact, parseVars, boardVars, ghostVars
  <2>7. CASE Finish
      BY <2>7, SameRows DEF Finish, Stop, parseVars, boardVars, ghostVars
  <2> QED  BY <1>2, <2>1, <2>2, <2>3, <2>4, <2>5, <2>6, <2>7 DEF Host
<1>3. CASE FlashFails
    BY <1>3, SameRows DEF FlashFails, Stop, parseVars, boardVars, ghostVars
<1>4. CASE Hear  BY <1>4, HearRows
<1>5. CASE HearGarbled  BY <1>5, GarbledRows
<1>6. CASE Interrupt \/ ReadFails \/ StepFails
    BY <1>6, SameRows DEF Interrupt, ReadFails, StepFails, Stop, parseVars, boardVars, ghostVars
<1>7. CASE BoardReset  BY <1>7, ResetRows
<1>8. CASE PortLeaves \/ PortReturns
    BY <1>8, SameRows DEF PortLeaves, PortReturns, hostVars, ghostVars
<1>9. CASE UNCHANGED vars
    BY <1>9, SameRows DEF vars, hostVars, boardVars, ghostVars
<1> QED  BY <1>1, <1>2, <1>3, <1>4, <1>5, <1>6, <1>7, <1>8, <1>9 DEF Next

(* As long as no line is lost, a measurement is filed under its own case,  *)
(* for every script whose tests begin with a case line or whose lines name *)
(* their case.                                                             *)
THEOREM RowsUnderTheirCase == Spec => []OwnRows
<1>1. RowsOK => OwnRows  BY DEF RowsOK
<1> QED  BY <1>1, InitRows, NextRows, PTL DEF Spec

(* As long as no line is lost, the measurements of a named case are of one *)
(* boot, for every number of resets.                                       *)
THEOREM OneBootPerCase == Spec => []CaseOfOneBoot
<1>1. RowsOK => CaseOfOneBoot  BY DEF RowsOK
<1> QED  BY <1>1, InitRows, NextRows, PTL DEF Spec
-----------------------------------------------------------------------------
(* The exit code *)

(* Until a run has ended there is no exit code 0; the steps behind it have  *)
(* left their artifacts; and the row the code stands for has been printed. *)
Evidence == {"log", "report"}
StepsDone ==
    script.exit # "always" /\ phase = "steps" =>
        \A i \in DOMAIN script.steps :
            i < todo /\ script.steps[i].file \in Evidence =>
                files[script.steps[i].file] = run
ProofSeen == Has(Proof) => completed
Unfinished == exit = 0 => phase = "end"

ExitOK ==
    /\ FilesOK /\ RowsOK
    /\ StepsDone /\ ProofSeen /\ Unfinished /\ ExitIsHonest

LEMMA InitExit == Init => ExitOK
<1> SUFFICES ASSUME Init PROVE ExitOK
    OBVIOUS
<1>1. FilesOK /\ RowsOK  BY InitFiles, InitRows
<1>2. StepsDone /\ ProofSeen /\ Unfinished /\ ExitIsHonest
    BY DEF Init, StepsDone, ProofSeen, Unfinished, ExitIsHonest, Has, Running
<1> QED  BY <1>1, <1>2 DEF ExitOK

(* Steps before the end that leave rows, artifacts and exit code as they   *)
(* are, or end with an exit code that is not 0.                            *)
LEMMA GoOn ==
    ASSUME ExitOK, phase # "end", UNCHANGED <<script, run, todo, files>>,
           \/ exit' = exit \/ exit' # 0,
           phase' = "steps" => phase = "steps" \/ phase = "read",
           Has(Proof)' => Has(Proof) \/ completed', completed => completed'
    PROVE  StepsDone' /\ ProofSeen' /\ Unfinished' /\ ExitIsHonest'
<1>1. exit' # 0  BY DEF ExitOK, Unfinished
<1>2. phase = "read" => todo = 1  BY DEF ExitOK, FilesOK
<1>3. \A i \in DOMAIN script.steps : ~(i < 1)
    BY ScriptAssumption DEF ExitOK, FilesOK
<1>4. StepsDone'  BY <1>2, <1>3 DEF ExitOK, StepsDone
<1>5. ProofSeen'  BY DEF ExitOK, ProofSeen
<1> QED  BY <1>1, <1>4, <1>5 DEF Unfinished, ExitIsHonest

LEMMA SameProof ==
    ASSUME UNCHANGED <<script, rows>> PROVE Has(Proof)' = Has(Proof)
BY DEF Has, Proof, Stages

LEMMA SameExit ==
    ASSUME ExitOK, UNCHANGED <<script, run, phase, rows, todo, files, exit, completed>>
    PROVE  StepsDone' /\ ProofSeen' /\ Unfinished' /\ ExitIsHonest'
<1>1. Has(Proof)' = Has(Proof)  BY SameProof
<1> QED
    BY <1>1 DEF ExitOK, StepsDone, ProofSeen, Unfinished, ExitIsHonest, Files

LEMMA HearExit ==
    ASSUME ExitOK, Hear \/ HearGarbled
    PROVE  StepsDone' /\ ProofSeen' /\ Unfinished' /\ ExitIsHonest'
<1>1. /\ phase = "read" /\ phase' = phase /\ at <= Len(Plan)
      /\ UNCHANGED <<script, run, todo, files, exit>>
      /\ completed' = (completed \/ Line.name = Proof)
    BY DEF Hear, HearGarbled, BoardPrints
<1>2. \A r \in rows' : r \in rows \/ r.name = Line.name
  <2>1. CASE HearGarbled  BY <2>1 DEF HearGarbled
  <2>2. CASE Hear
    <3>1. Line.kind \in {"row", "case", "marker"}
        BY <1>1, PlanType DEF ExitOK, RowsOK, Line
    <3>2. rows' \subseteq rows \/ \E value : rows' = Filed(value)
        BY <2>2, <3>1 DEF Hear, FileRow, EnsureCase, Recognise
    <3> QED  BY <3>2, FiledRow
  <2> QED  BY <2>1, <2>2
<1>3. Proof' = Proof  BY <1>1 DEF Proof, Stages
<1>4. Has(Proof)' => Has(Proof) \/ completed'  BY <1>1, <1>2, <1>3 DEF Has
<1> QED  BY <1>1, <1>4, GoOn

LEMMA WriteExit ==
    ASSUME ExitOK, WriteArtifact
    PROVE  StepsDone' /\ ProofSeen' /\ Unfinished' /\ ExitIsHonest'
<1> DEFINE step == script.steps[todo]
<1>1. /\ UNCHANGED <<script, run, rows, completed>> /\ phase = "steps"
      /\ todo \in DOMAIN script.steps /\ script \in Scripts /\ todo \in Nat
    BY ScriptAssumption DEF WriteArtifact, ExitOK, FilesOK, parseVars, ghostVars
<1>2. Has(Proof)' = Has(Proof)  BY <1>1, SameProof
<1>3. CASE Raises(step)
  <2>1. UNCHANGED <<todo, files>> /\ phase' = "end" /\ exit' = 1
      BY <1>3 DEF WriteArtifact, Stop
  <2> QED  BY <1>1, <1>2, <2>1, GoOn
<1>4. CASE ~Raises(step)
  <2>1. /\ todo' = todo + 1 /\ phase' = "steps" /\ exit' = exit
        /\ files' = IF Written(step) THEN [files EXCEPT ![step.file] = run] ELSE files
      BY <1>1, <1>4 DEF WriteArtifact
  <2>2. exit' # 0  BY <1>1, <2>1 DEF ExitOK, Unfinished
  <2>3. ASSUME script.exit # "always", NEW i \in DOMAIN script.steps,
               i < todo + 1, script.steps[i].file \in Evidence
        PROVE  files'[script.steps[i].file] = run
    <3>1. files \in [Files(script) -> 0..run] /\ script.steps[i].file \in Files(script)
        BY DEF ExitOK, FilesOK, Files
    <3>2. CASE i = todo
      <4>1. Written(step)  BY <1>1, <2>3, <3>2, ReportAlways DEF Written, Evidence
      <4> QED  BY <2>1, <3>1, <3>2, <4>1
    <3>3. CASE i # todo
      <4>1. i < todo
        <5>1. i \in Nat  BY <1>1, ScriptAssumption
        <5> QED  BY <1>1, <2>3, <3>3, <5>1
      <4>2. files[script.steps[i].file] = run
          BY <1>1, <2>3, <4>1 DEF ExitOK, StepsDone
      <4> QED  BY <2>1, <3>1, <4>2
    <3> QED  BY <3>2, <3>3
  <2>4. StepsDone'  BY <1>1, <2>1, <2>3 DEF StepsDone
  <2> QED
      BY <1>1, <1>2, <2>2, <2>4 DEF ExitOK, ProofSeen, Unfinished, ExitIsHonest
<1> QED  BY <1>3, <1>4

LEMMA FinishExit ==
    ASSUME ExitOK, Finish
    PROVE  StepsDone' /\ ProofSeen' /\ Unfinished' /\ ExitIsHonest'
<1>1. /\ UNCHANGED <<script, run, rows, files, completed>> /\ phase = "steps"
      /\ todo > Len(script.steps) /\ phase' = "end" /\ exit' = ExitCode
      /\ script \in Scripts
    BY DEF Finish, Stop, parseVars, ghostVars, ExitOK, FilesOK
<1>2. StepsDone' /\ ProofSeen' /\ Unfinished'
    BY <1>1, SameProof DEF StepsDone, ProofSeen, Unfinished, ExitOK
<1>3. ASSUME script.exit # "always", NEW f \in Files(script) \cap Evidence
      PROVE  files[f] = run
  <2>1. CASE script.live /\ f = "log"
      BY <1>1, <2>1 DEF ExitOK, FilesOK, LogBegun
  <2>2. CASE ~(script.live /\ f = "log")
    <3>1. PICK i \in DOMAIN script.steps : f = script.steps[i].file
        BY <2>2 DEF Files
    <3>2. i < todo
        BY <1>1, ScriptAssumption DEF ExitOK, FilesOK
    <3> QED  BY <1>1, <1>3, <3>1, <3>2 DEF ExitOK, StepsDone
  <2> QED  BY <2>1, <2>2
<1>4. ASSUME script.exit # "always", ExitCode = 0, script.exit # "verdict"
      PROVE  completed
  <2>1. script.exit \in {"marker", "row"}
      BY <1>1, <1>4, ReportAlways
  <2>2. CASE script.exit = "marker"
    <3>1. Marked  BY <1>4, <2>2 DEF ExitCode
    <3>2. Stages \in 1..Stages
      <4>1. Len(script.markers) \in Nat \ {0}
          BY <1>1, <1>4, <2>2, ReportAlways
      <4> QED  BY <4>1 DEF Stages
    <3>3. Has(Proof)  BY <2>2, <3>1, <3>2 DEF Marked, Proof
    <3> QED  BY <3>3 DEF ExitOK, ProofSeen
  <2>3. CASE script.exit = "row"
    <3>1. Has(script.proof)  BY <1>4, <2>3 DEF ExitCode
    <3>2. Has(Proof)  BY <2>3, <3>1 DEF Proof
    <3> QED  BY <3>2 DEF ExitOK, ProofSeen
  <2> QED  BY <2>1, <2>2, <2>3
<1>5. Files(script)' = Files(script)  BY <1>1 DEF Files
<1>6. ExitIsHonest'  BY <1>1, <1>3, <1>4, <1>5 DEF ExitIsHonest, Evidence
<1> QED  BY <1>2, <1>6

LEMMA NextExit == ExitOK /\ [Next]_vars => ExitOK'
<1> SUFFICES ASSUME ExitOK, [Next]_vars PROVE ExitOK'
    OBVIOUS
<1> DEFINE Goal == StepsDone' /\ ProofSeen' /\ Unfinished' /\ ExitIsHonest'
<1>1. FilesOK' /\ RowsOK'  BY NextFiles, NextRows DEF ExitOK
<1>2. CASE Start
  <2>1. rows' = {} /\ phase' = "flash" /\ exit' = Running  BY <1>2 DEF Start
  <2>2. Goal
      BY <2>1 DEF StepsDone, ProofSeen, Unfinished, ExitIsHonest, Has, Running
  <2> QED  BY <1>1, <2>2 DEF ExitOK
<1>3. CASE Hear \/ HearGarbled  BY <1>1, <1>3, HearExit DEF ExitOK
<1>4. CASE WriteArtifact  BY <1>1, <1>4, WriteExit DEF ExitOK
<1>5. CASE Finish  BY <1>1, <1>5, FinishExit DEF ExitOK
<1>6. CASE Flash \/ SkipFlash \/ Tick \/ CaptureEnds \/ FlashFails
           \/ Interrupt \/ ReadFails
  <2>1. UNCHANGED <<script, run, rows, todo, files, completed>>
      BY <1>6 DEF Flash, SkipFlash, Tick, CaptureEnds, FlashFails, Interrupt,
                  ReadFails, parseVars, ghostVars
  <2>2. phase \in {"flash", "read", "steps"} /\ (exit' = exit \/ exit' # 0)
    <3>1. CASE Flash \/ SkipFlash \/ Tick \/ CaptureEnds
        BY <3>1 DEF Flash, SkipFlash, Tick, CaptureEnds
    <3>2. CASE FlashFails \/ ReadFails
      <4>1. phase \in {"flash", "read"} /\ (exit' = exit \/ exit' = 1)
          BY <3>2, Zenon DEF FlashFails, ReadFails, Stop
      <4> QED  BY <4>1
    <3>3. CASE Interrupt
        BY <3>3 DEF Interrupt, Stop, Killed
    <3> QED  BY <1>6, <3>1, <3>2, <3>3
  <2>3. phase' = "steps" => phase = "steps" \/ phase = "read"
      BY <1>6 DEF Flash, SkipFlash, Tick, CaptureEnds, FlashFails, Interrupt,
                  ReadFails, Stop
  <2>4. Has(Proof)' => Has(Proof)  BY <2>1, SameProof
  <2>5. completed => completed'  BY <2>1
  <2>6. phase # "end"  BY <2>2
  <2>7. Goal  BY <2>1, <2>2, <2>3, <2>4, <2>5, <2>6, GoOn
  <2> QED  BY <1>1, <2>7 DEF ExitOK
<1>7. CASE Open \/ OpenFails
  <2>1. /\ phase = "open" /\ UNCHANGED <<script, run, rows, completed>>
        /\ exit' = exit \/ exit' = 1
        /\ phase' # "steps"
      BY <1>7 DEF Open, OpenFails, Stop, parseVars, ghostVars
  <2>2. exit' # 0  BY <2>1 DEF ExitOK, Unfinished
  <2>3. Goal
      BY <2>1, <2>2, SameProof DEF ExitOK, StepsDone, ProofSeen, Unfinished, ExitIsHonest
  <2> QED  BY <1>1, <2>3 DEF ExitOK
<1>8. CASE StepFails
  <2>1. /\ UNCHANGED <<script, run, rows, completed>>
        /\ phase' = "end" /\ exit' = 1
      BY <1>8 DEF StepFails, Stop, parseVars, ghostVars
  <2>2. Goal
      BY <2>1, SameProof DEF ExitOK, StepsDone, ProofSeen, Unfinished, ExitIsHonest
  <2> QED  BY <1>1, <2>2 DEF ExitOK
<1>9. CASE BoardReset \/ PortLeaves \/ PortReturns \/ UNCHANGED vars
  <2>1. UNCHANGED <<script, run, phase, rows, todo, files, exit, completed>>
      BY <1>9 DEF BoardReset, PortLeaves, PortReturns, vars, hostVars, ghostVars
  <2> QED  BY <1>1, <2>1, SameExit DEF ExitOK
<1> QED
    BY <1>2, <1>3, <1>4, <1>5, <1>6, <1>7, <1>8, <1>9 DEF Next, Host

(* An exit code 0 that stands for a finished test is one that the board has *)
(* finished while this run listened, with the log and the report of this   *)
(* run on disk.                                                            *)
THEOREM ExitCodeHonest == Spec => []ExitIsHonest
<1>1. ExitOK => ExitIsHonest  BY DEF ExitOK
<1> QED  BY <1>1, InitExit, NextExit, PTL DEF Spec
-----------------------------------------------------------------------------
(* The verdict *)

GateRows == {r \in rows : r.name \in Gates}
Alike(set) == \A r, s \in set : r.boot = s.boot
Ahead(name) == \E i \in 1..Len(Plan) : i >= at /\ Plan[i].name = name

(* A row is of a line that has been printed, in this boot only if the board *)
(* is past it.                                                             *)
RowsPrinted ==
    \A r \in rows :
        /\ r.boot \in 0..boots /\ r.filed = NoCase
        /\ \E i \in 1..Len(Plan) :
               Plan[i].name = r.name /\ (r.boot = boots => i < at)

(* What spoils a boot is a gate that has no good row of it.                *)
Spoils ==
    spoiled => \E i \in 1..Len(Plan) :
        /\ i < at /\ Plan[i].name \in Gates
        /\ \A r \in rows : r.name = Plan[i].name /\ r.boot = boots => r.value # "good"

(* A boot all of whose gates have good rows has earned a PASS.             *)
GoodIn(boot) ==
    /\ Gates # {} \/ rows # {}
    /\ \A name \in Gates : \E r \in rows :
            r.name = name /\ r.boot = boot /\ r.value = "good"
BootEarns == \A boot \in 0..boots : GoodIn(boot) => earned

(* What keeps the rows of two boots apart, in each of the three ways.      *)
ByMarkerFirst ==
    MarkerFirst(script) /\ ~lost =>
        /\ phase = "read" /\ at > 1 => seen = Stages
        /\ Alike(GateRows)
        /\ phase = "read" /\ at <= Len(Plan) => \A r \in GateRows : r.boot = boots
ByMarkerLast ==
    MarkerLast(script) /\ ~lost =>
        /\ seen < Stages /\ phase = "read" =>
             \A r \in GateRows : r.boot = boots \/ Ahead(r.name)
        /\ seen = Stages =>
             /\ Alike(GateRows)
             /\ phase = "read" => \A name \in Gates : ~Ahead(name)
ByFirstLine ==
    BeginsOnce(script) /\ ~lost /\ ~repeated =>
        /\ Alike(rows)
        /\ phase = "read" /\ at > 1 => Has(Plan[1].name)
        /\ rows # {} => Has(Plan[1].name)
        /\ phase = "read" /\ 1 < at /\ at <= Len(Plan) => \A r \in rows : r.boot = boots

Judged ==
    /\ boots \in Nat /\ seen \in 0..Stages
    /\ phase \in {"flash", "open"} => rows = {} /\ boots = 0 /\ seen = 0 /\ ~repeated
    /\ RowsPrinted /\ Spoils /\ BootEarns
    /\ ByMarkerFirst /\ ByMarkerLast /\ ByFirstLine

PassOK == RowsOK /\ (script.judges => Judged)

LEMMA JudgeType ==
    ASSUME script \in Scripts, script.judges
    PROVE  /\ Len(Plan) \in Nat /\ DOMAIN Plan = 1..Len(Plan) /\ Stages \in Nat
           /\ ~script.named /\ ~Positional
           /\ \A i \in 1..Len(Plan) : Plan[i].kind \in {"row", "marker"}
           /\ \A i, j \in 1..Len(Plan) :
                Plan[i].name = Plan[j].name /\ Plan[i].name \in Gates => i = j
           /\ Gates \cup script.present # {}
           /\ \/ \E name \in Gates \cup script.present : Gates \subseteq {name}
              \/ MarkerFirst(script) \/ MarkerLast(script) \/ BeginsOnce(script)
<1>1. Len(Plan) \in Nat /\ DOMAIN Plan = 1..Len(Plan)
      /\ \A i \in 1..Len(Plan) : Plan[i].kind \in {"row", "case", "marker"}
    BY PlanType
<1>2. /\ Len(script.markers) \in Nat /\ ~script.named
      /\ \A i \in DOMAIN script.plan : script.plan[i].kind # "case"
      /\ \A i, j \in DOMAIN script.plan :
            script.plan[i].name = script.plan[j].name
            /\ script.plan[i].name \in script.needs \cup script.counts => i = j
      /\ (script.needs \cup script.counts) \cup script.present # {}
      /\ \/ \E name \in (script.needs \cup script.counts) \cup script.present :
                script.needs \cup script.counts \subseteq {name}
         \/ MarkerFirst(script) \/ MarkerLast(script) \/ BeginsOnce(script)
    BY VerdictOfOneBoot
<1> QED  BY <1>1, <1>2 DEF Plan, Stages, Gates, Positional

LEMMA SameScript ==
    ASSUME script' = script
    PROVE  Plan' = Plan /\ Gates' = Gates /\ Stages' = Stages
BY DEF Plan, Gates, Stages

LEMMA InitPass == Init => PassOK
<1> SUFFICES ASSUME Init PROVE PassOK
    OBVIOUS
<1>1. RowsOK  BY InitRows
<1>2. ASSUME script.judges PROVE Judged
  <2>1. Stages \in Nat /\ Len(Plan) \in Nat  BY <1>1, <1>2, JudgeType DEF RowsOK
  <2>2. /\ rows = {} /\ boots = 0 /\ seen = 0 /\ spoiled = FALSE /\ repeated = FALSE
        /\ phase = "end"
      BY DEF Init
  <2>3. BootEarns  BY <2>2 DEF BootEarns, GoodIn
  <2> QED
      BY <2>1, <2>2, <2>3 DEF Judged, RowsPrinted, Spoils, ByMarkerFirst,
         ByMarkerLast, ByFirstLine, Alike, GateRows, Has
<1> QED  BY <1>1, <1>2 DEF PassOK

(* Steps that leave the rows and the board alone, and the capture only to  *)
(* its end.                                                                *)
LEMMA SamePass ==
    ASSUME Judged,
           UNCHANGED <<script, at, seen, rows, repeated, spoiled, lost, boots, earned>>,
           phase' = phase \/ phase' \notin {"flash", "open", "read"}
    PROVE  Judged'
<1>1. Plan' = Plan /\ Gates' = Gates /\ Stages' = Stages  BY SameScript
<1>2. GateRows' = GateRows /\ \A n : Ahead(n)' = Ahead(n) /\ Has(n)' = Has(n)
    BY <1>1 DEF GateRows, Ahead, Has
<1>3. RowsPrinted' /\ Spoils' /\ BootEarns'
    BY <1>1 DEF Judged, RowsPrinted, Spoils, BootEarns, GoodIn
<1>4. ByMarkerFirst' /\ ByMarkerLast' /\ ByFirstLine'
    BY <1>1, <1>2 DEF Judged, ByMarkerFirst, ByMarkerLast, ByFirstLine, Alike
<1> QED  BY <1>1, <1>3, <1>4 DEF Judged

(* A capture that begins: no rows yet, and a boot is spoiled only by gates *)
(* that this run will not see in it.                                       *)
LEMMA NoRowsPass ==
    ASSUME script' \in Scripts, script'.judges, rows' = {}, boots' = 0, seen' = 0,
           repeated' = FALSE, script' = script, at' \in Nat \ {0},
           phase' = "read" /\ ~lost' => at' = 1,
           spoiled' => \E i \in 1..Len(Plan) : i < at' /\ Plan[i].name \in Gates
    PROVE  Judged'
<1>1. Plan' = Plan /\ Gates' = Gates /\ Stages' = Stages  BY SameScript
<1>2. Stages \in Nat /\ Len(Plan) \in Nat  BY JudgeType
<1>3. RowsPrinted' /\ Spoils'  BY <1>1 DEF RowsPrinted, Spoils
<1>4. BootEarns'  BY DEF BootEarns, GoodIn
<1>5. GateRows' = {}  BY DEF GateRows
<1>6. ByMarkerFirst'  BY <1>5 DEF ByMarkerFirst, Alike
<1>7. ByMarkerLast'
  <2>1. MarkerLast(script) => Stages # 0  BY <1>1, <1>2 DEF MarkerLast, Stages
  <2> QED  BY <1>1, <1>5, <2>1 DEF ByMarkerLast
<1>8. ByFirstLine'  BY DEF ByFirstLine, Alike
<1> QED  BY <1>1, <1>2, <1>3, <1>4, <1>6, <1>7, <1>8 DEF Judged

LEMMA ResetPass ==
    ASSUME Judged, RowsOK, script.judges, BoardReset
    PROVE  Judged'
<1>1. /\ UNCHANGED <<script, phase, seen, rows, repeated, lost, earned>>
      /\ phase = "read" /\ at > 1 /\ spoiled' = FALSE /\ boots' = boots + 1
      /\ at' = IF Stages > 0 /\ seen = Stages THEN Len(Plan) + 1 ELSE 1
    BY DEF BoardReset, hostVars, parseVars
<1>2. Plan' = Plan /\ Gates' = Gates /\ Stages' = Stages  BY <1>1, SameScript
<1>3. Len(Plan) \in Nat /\ Stages \in Nat /\ boots \in Nat /\ seen \in 0..Stages
    BY JudgeType DEF RowsOK, Judged
<1>4. GateRows' = GateRows /\ \A n : Has(n)' = Has(n)
    BY <1>1, <1>2 DEF GateRows, Has
<1>5. RowsPrinted'
  <2> SUFFICES ASSUME NEW r \in rows
               PROVE  /\ r.boot \in 0..(boots + 1) /\ r.filed = NoCase
                      /\ r.boot # boots + 1
                      /\ \E i \in 1..Len(Plan) : Plan[i].name = r.name
      BY <1>1, <1>2 DEF RowsPrinted
  <2>1. r.boot \in 0..boots  BY DEF Judged, RowsPrinted
  <2> QED  BY <1>3, <2>1 DEF Judged, RowsPrinted
<1>6. Spoils'  BY <1>1 DEF Spoils
<1>7. BootEarns'
  <2> SUFFICES ASSUME NEW boot \in 0..(boots + 1), GoodIn(boot)'
               PROVE  earned
      BY <1>1 DEF BootEarns
  <2>1. GoodIn(boot)  BY <1>1, <1>2 DEF GoodIn
  <2>2. CASE boot \in 0..boots  BY <2>1, <2>2 DEF Judged, BootEarns
  <2>3. CASE boot \notin 0..boots
    <3>1. boot = boots + 1  BY <1>3, <2>3
    <3>2. \A r \in rows : r.boot # boot
        BY <1>3, <3>1 DEF Judged, RowsPrinted
    <3>3. Gates = {} /\ rows # {}  BY <2>1, <3>2 DEF GoodIn
    <3>4. GoodIn(0)  BY <3>3 DEF GoodIn
    <3> QED  BY <1>3, <3>4 DEF Judged, BootEarns
  <2> QED  BY <2>2, <2>3
<1>8. ByMarkerFirst'
  <2> SUFFICES ASSUME MarkerFirst(script), ~lost PROVE ByMarkerFirst'
      BY <1>1 DEF ByMarkerFirst
  <2>1. Stages = 1  BY DEF MarkerFirst, Stages
  <2>2. seen = Stages /\ Alike(GateRows)  BY <1>1 DEF Judged, ByMarkerFirst
  <2>3. ~(at' <= Len(Plan))  BY <1>1, <1>3, <2>1, <2>2
  <2> QED  BY <1>1, <1>2, <1>4, <2>2, <2>3 DEF ByMarkerFirst, Alike
<1>9. ByMarkerLast'
  <2> SUFFICES ASSUME MarkerLast(script), ~lost PROVE ByMarkerLast'
      BY <1>1 DEF ByMarkerLast
  <2>1. Stages > 0  BY <1>3 DEF MarkerLast, Stages
  <2>2. CASE seen < Stages
    <3>1. at' = 1  BY <1>1, <1>3, <2>2
    <3>2. \A r \in GateRows : Ahead(r.name)'
        BY <1>2, <1>3, <3>1 DEF Judged, RowsPrinted, GateRows, Ahead
    <3> QED  BY <1>1, <1>2, <1>3, <1>4, <2>2, <3>2 DEF ByMarkerLast
  <2>3. CASE seen = Stages
    <3>1. at' = Len(Plan) + 1  BY <1>1, <1>3, <2>1, <2>3
    <3>2. \A n : ~Ahead(n)'  BY <1>2, <1>3, <3>1 DEF Ahead
    <3>3. Alike(GateRows)  BY <2>3 DEF Judged, ByMarkerLast
    <3> QED  BY <1>1, <1>2, <1>3, <1>4, <2>3, <3>2, <3>3 DEF ByMarkerLast, Alike
  <2> QED  BY <1>3, <2>2, <2>3
<1>10. ByFirstLine'
  <2> SUFFICES ASSUME BeginsOnce(script), ~lost, ~repeated PROVE ByFirstLine'
      BY <1>1 DEF ByFirstLine
  <2>1. Alike(rows) /\ Has(Plan[1].name)  BY <1>1 DEF Judged, ByFirstLine
  <2>2. ~(1 < at' /\ at' <= Len(Plan))  BY <1>1, <1>3
  <2> QED  BY <1>1, <1>2, <1>4, <2>1, <2>2 DEF ByFirstLine, Alike
<1> QED
    BY <1>1, <1>2, <1>3, <1>5, <1>6, <1>7, <1>8, <1>9, <1>10 DEF Judged

LEMMA GarbledPass ==
    ASSUME Judged, RowsOK, script.judges, HearGarbled
    PROVE  Judged'
<1>1. /\ UNCHANGED <<script, phase, seen, rows, repeated, boots>>
      /\ phase = "read" /\ lost' /\ at' = at + 1 /\ at <= Len(Plan)
      /\ earned' = (\/ earned
                    \/ /\ ~spoiled'
                       /\ \A i \in (at + 1)..Len(Plan) : Plan[i].name \notin Gates)
    BY DEF HearGarbled, BoardPrints
<1>2. PICK value \in Values : spoiled' = (spoiled \/ value = "bad")
    BY DEF HearGarbled, BoardPrints
<1>3. Plan' = Plan /\ Gates' = Gates /\ Stages' = Stages  BY <1>1, SameScript
<1>4. Len(Plan) \in Nat /\ at \in Nat \ {0} /\ at \in 1..Len(Plan) /\ at < at'
    BY <1>1, JudgeType DEF RowsOK
<1>5. RowsPrinted'
  <2> SUFFICES ASSUME NEW r \in rows
               PROVE  /\ r.boot \in 0..boots /\ r.filed = NoCase
                      /\ \E i \in 1..Len(Plan) :
                            Plan[i].name = r.name /\ (r.boot = boots => i < at')
      BY <1>1, <1>3 DEF RowsPrinted
  <2>1. PICK i \in 1..Len(Plan) : Plan[i].name = r.name /\ (r.boot = boots => i < at)
      BY DEF Judged, RowsPrinted
  <2>2. i < at => i < at'  BY <1>4, <1>1
  <2> QED  BY <2>1, <2>2 DEF Judged, RowsPrinted
<1>6. Spoils'
  <2>1. CASE spoiled
    <3>1. PICK i \in 1..Len(Plan) : i < at /\ Plan[i].name \in Gates
            /\ \A r \in rows : r.name = Plan[i].name /\ r.boot = boots => r.value # "good"
        BY <2>1 DEF Judged, Spoils
    <3>2. i < at'  BY <1>1, <1>4, <3>1
    <3> QED  BY <1>1, <1>3, <3>1, <3>2 DEF Spoils
  <2>2. CASE ~spoiled /\ value = "bad"
    <3>1. Line.name \in Gates  BY <2>2 DEF Values
    <3>2. \A r \in rows : r.name = Line.name /\ r.boot = boots => r.value # "good"
      <4> SUFFICES ASSUME NEW r \in rows, r.name = Line.name, r.boot = boots PROVE FALSE
          OBVIOUS
      <4>1. PICK i \in 1..Len(Plan) : Plan[i].name = r.name /\ i < at
          BY DEF Judged, RowsPrinted
      <4>2. i = at  BY <1>4, <3>1, <4>1, JudgeType DEF RowsOK, Line
      <4> QED  BY <1>4, <4>1, <4>2
    <3> QED  BY <1>1, <1>3, <1>4, <3>1, <3>2 DEF Spoils, Line
  <2>3. CASE ~spoiled /\ value # "bad"
      BY <1>2, <2>3 DEF Spoils
  <2> QED  BY <2>1, <2>2, <2>3
<1>7. BootEarns'
  <2>1. \A boot : GoodIn(boot)' => GoodIn(boot)  BY <1>1, <1>3 DEF GoodIn
  <2>2. earned => earned'  BY <1>1
  <2> QED  BY <1>1, <2>1, <2>2 DEF Judged, BootEarns
<1>8. ByMarkerFirst' /\ ByMarkerLast' /\ ByFirstLine'
    BY <1>1 DEF ByMarkerFirst, ByMarkerLast, ByFirstLine
<1> QED
    BY <1>1, <1>3, <1>5, <1>6, <1>7, <1>8 DEF Judged

(* The row of a line that is heard. *)
NewRow(value) ==
    [name |-> Line.name, boot |-> boots, of |-> BoardCase, filed |-> NoCase,
     value |-> value]
Same == {r \in rows : r.name = Line.name /\ r.filed = NoCase}

LEMMA HeardRows ==
    ASSUME RowsOK, script.judges, NEW value, rows' = Filed(value), script' = script
    PROVE  /\ rows' \subseteq rows \cup {NewRow(value)}
           /\ \A n : Has(n) => Has(n)'
           /\ \E r \in rows' : r.name = Line.name
           /\ script.keep = "last" /\ Line.name \notin script.lists =>
                rows' = (rows \ Same) \cup {NewRow(value)}
<1>1. ~script.named /\ ~Positional  BY JudgeType DEF RowsOK
<1>2. current = NoCase  BY <1>1 DEF RowsOK, InStep
<1> DEFINE row == NewRow(value)
<1>3. /\ row.name = Line.name /\ row.filed = NoCase
      /\ rows' = IF Line.name \in script.lists THEN rows \cup {row}
                 ELSE IF script.keep = "first"
                 THEN rows \cup {r \in {row} : Same = {}}
                 ELSE (rows \ Same) \cup {row}
  <2>1. rows' = Filed(value)  OBVIOUS
  <2> QED  BY <1>1, <1>2, <2>1 DEF Filed, NewRow, Same
<1> HIDE DEF row
<1>4. row \in rows' \/ \E r \in rows' : r.name = Line.name
    BY <1>3 DEF Same
<1>5. \A r \in rows : r \in rows' \/ (row \in rows' /\ r.name = row.name)
    BY <1>3 DEF Same
<1> QED  BY <1>3, <1>4, <1>5 DEF Has, row

(* What a line does to rows and marker count, whether row or marker. *)
Heard(value) ==
    /\ phase = "read" /\ phase' = "read" /\ at \in 1..Len(Plan) /\ at' = at + 1
    /\ UNCHANGED <<script, lost, boots>>
    /\ rows' = Filed(value)
    /\ spoiled' = (spoiled \/ value = "bad")
    /\ value = "bad" => Line.name \in Gates
    /\ value \in {"good", "bad"}
    /\ earned' = (\/ earned
                  \/ /\ ~spoiled'
                     /\ \A i \in (at + 1)..Len(Plan) : Plan[i].name \notin Gates)
    /\ seen' = IF Line.kind = "marker" /\ seen < Stages
                  /\ Line.name = script.markers[seen + 1]
               THEN seen + 1 ELSE seen
    /\ ~repeated' => ~repeated
    /\ Line.kind = "row" /\ Line.name \in script.once /\ ~repeated' => ~Has(Line.name)

LEMMA HearHeard ==
    ASSUME RowsOK, script.judges, Hear
    PROVE  \E value : Heard(value)
<1>1. /\ phase = "read" /\ at \in 1..Len(Plan)
      /\ UNCHANGED <<script, phase, lost, boots>>
    BY JudgeType DEF Hear, RowsOK
<1>2. PICK value \in Values :
        /\ BoardPrints(value)
        /\ CASE Line.kind = "row"    -> FileRow(value)
             [] Line.kind = "case"   -> EnsureCase
             [] Line.kind = "marker" -> Recognise
    BY DEF Hear
<1>3. /\ at' = at + 1 /\ spoiled' = (spoiled \/ value = "bad")
      /\ earned' = (\/ earned
                    \/ /\ ~spoiled'
                       /\ \A i \in (at + 1)..Len(Plan) : Plan[i].name \notin Gates)
    BY <1>2 DEF BoardPrints
<1>4. value \in {"good", "bad"}
      /\ (value = "bad" => Line.kind = "row" /\ Line.name \in Gates)
    BY DEF Values
<1>5. Line.kind \in {"row", "marker"}  BY <1>1, JudgeType DEF RowsOK, Line
<1>6. CASE Line.kind = "row"
  <2>1. /\ rows' = Filed(value) /\ seen' = seen
        /\ repeated' = (repeated \/ (Line.name \in script.once /\ Has(Line.name)))
      BY <1>2, <1>6 DEF FileRow
  <2>2. Heard(value)  BY <1>1, <1>3, <1>4, <1>6, <2>1, Zenon DEF Heard
  <2> QED  BY <2>2
<1>7. CASE Line.kind = "marker"
  <2>1. /\ rows' = Filed("good") /\ repeated' = repeated
        /\ seen' = IF seen < Stages /\ Line.name = script.markers[seen + 1]
                   THEN seen + 1 ELSE seen
      BY <1>2, <1>7 DEF Recognise
  <2>2. value = "good"  BY <1>4, <1>7
  <2>3. Heard(value)  BY <1>1, <1>3, <1>4, <1>7, <2>1, <2>2 DEF Heard
  <2> QED  BY <2>3
<1> QED  BY <1>5, <1>6, <1>7

(* A line comes once in a boot. *)
LEMMA FirstTime ==
    ASSUME RowsOK, Judged, script.judges, at \in 1..Len(Plan), Line.name \in Gates,
           NEW r \in rows, r.name = Line.name
    PROVE  r.boot # boots
<1> SUFFICES ASSUME r.boot = boots PROVE FALSE
    OBVIOUS
<1>1. PICK i \in 1..Len(Plan) : Plan[i].name = r.name /\ i < at
    BY DEF Judged, RowsPrinted
<1>2. i = at  BY <1>1, JudgeType DEF RowsOK, Line
<1>3. at \in Nat  BY DEF RowsOK
<1> QED  BY <1>1, <1>2, <1>3

LEMMA HearPrinted ==
    ASSUME RowsOK, Judged, script.judges, NEW value, Heard(value)
    PROVE  RowsPrinted' /\ Spoils'
<1>1. /\ at \in 1..Len(Plan) /\ at' = at + 1 /\ at \in Nat
      /\ UNCHANGED <<script, boots>>
      /\ spoiled' = (spoiled \/ value = "bad")
      /\ value = "bad" => Line.name \in Gates
    BY DEF Heard, RowsOK
<1>2. Plan' = Plan /\ Gates' = Gates  BY <1>1, SameScript
<1>3. rows' \subseteq rows \cup {NewRow(value)}  BY HeardRows DEF Heard
<1>4. /\ NewRow(value).name = Line.name /\ NewRow(value).boot = boots
      /\ NewRow(value).filed = NoCase /\ NewRow(value).value = value
    BY DEF NewRow
<1>5. boots \in Nat /\ at < at' /\ Plan[at].name = Line.name
    BY <1>1 DEF Judged, Line
<1>6. \A i \in 1..Len(Plan) : i < at => i < at'
    BY <1>1
<1>7. RowsPrinted'
  <2> SUFFICES ASSUME NEW r \in rows'
               PROVE  /\ r.boot \in 0..boots /\ r.filed = NoCase
                      /\ \E i \in 1..Len(Plan) :
                            Plan[i].name = r.name /\ (r.boot = boots => i < at')
      BY <1>1, <1>2 DEF RowsPrinted
  <2>1. CASE r \in rows
      BY <1>6, <2>1 DEF Judged, RowsPrinted
  <2>2. CASE r = NewRow(value)
      BY <1>1, <1>4, <1>5, <2>2
  <2> QED  BY <1>3, <2>1, <2>2
<1>8. Spoils'
  <2>1. CASE spoiled
    <3>1. PICK i \in 1..Len(Plan) : i < at /\ Plan[i].name \in Gates
            /\ \A r \in rows : r.name = Plan[i].name /\ r.boot = boots => r.value # "good"
        BY <2>1 DEF Judged, Spoils
    <3>2. Plan[i].name # Line.name
      <4> SUFFICES ASSUME Plan[i].name = Plan[at].name PROVE FALSE
          BY DEF Line
      <4>1. i = at  BY <1>1, <3>1, JudgeType DEF RowsOK
      <4> QED  BY <1>1, <3>1, <4>1
    <3>3. \A r \in rows' : r.name = Plan[i].name /\ r.boot = boots => r.value # "good"
        BY <1>3, <1>4, <3>1, <3>2
    <3> QED  BY <1>1, <1>2, <1>6, <3>1, <3>3 DEF Spoils
  <2>2. CASE value = "bad"
    <3>1. Line.name \in Gates  BY <1>1, <2>2
    <3>2. \A r \in rows' : r.name = Line.name /\ r.boot = boots => r.value # "good"
      <4>1. \A r \in rows : r.name = Line.name => r.boot # boots
          BY <1>1, <3>1, FirstTime
      <4> QED  BY <1>3, <1>4, <2>2, <4>1
    <3> QED  BY <1>1, <1>2, <1>5, <3>1, <3>2 DEF Spoils, Line
  <2>3. CASE ~spoiled /\ value # "bad"
      BY <1>1, <2>3 DEF Spoils
  <2> QED  BY <2>1, <2>2, <2>3
<1> QED  BY <1>7, <1>8

LEMMA HearEarns ==
    ASSUME RowsOK, Judged, script.judges, NEW value, Heard(value)
    PROVE  BootEarns'
<1>1. /\ at \in 1..Len(Plan) /\ at \in Nat /\ UNCHANGED <<script, boots>>
      /\ boots \in Nat
      /\ spoiled' = (spoiled \/ value = "bad")
      /\ value = "bad" => Line.name \in Gates
      /\ value \in {"good", "bad"}
      /\ earned' = (\/ earned
                    \/ /\ ~spoiled'
                       /\ \A i \in (at + 1)..Len(Plan) : Plan[i].name \notin Gates)
    BY DEF Heard, RowsOK, Judged
<1>2. Plan' = Plan /\ Gates' = Gates  BY <1>1, SameScript
<1>3. rows' \subseteq rows \cup {NewRow(value)}  BY HeardRows DEF Heard
<1>4. /\ NewRow(value).name = Line.name /\ NewRow(value).boot = boots
      /\ NewRow(value).value = value
    BY DEF NewRow
<1> SUFFICES ASSUME NEW boot \in 0..boots, GoodIn(boot)', ~earned
             PROVE  ~spoiled' /\ \A i \in (at + 1)..Len(Plan) : Plan[i].name \notin Gates
  <2>1. earned \/ ~earned  OBVIOUS
  <2> QED  BY <1>1, <2>1 DEF BootEarns
<1>5. ~GoodIn(boot)  BY DEF Judged, BootEarns
<1>6. \A name \in Gates : \E r \in rows' :
            r.name = name /\ r.boot = boot /\ r.value = "good"
    BY <1>1, <1>2 DEF GoodIn
<1>7. CASE Gates = {}
  <2>1. ~spoiled  BY <1>7 DEF Judged, Spoils
  <2> QED  BY <1>1, <1>7, <2>1
<1>8. CASE Gates # {}
  <2>1. \E name \in Gates : \A r \in rows :
            ~(r.name = name /\ r.boot = boot /\ r.value = "good")
      BY <1>5, <1>8 DEF GoodIn
  <2>2. Line.name \in Gates /\ boot = boots /\ value = "good"
      BY <1>3, <1>4, <1>6, <2>1
  <2>3. \A i \in 1..Len(Plan) : Plan[i].name \in Gates /\ i # at =>
            \E r \in rows : r.name = Plan[i].name /\ r.boot = boots /\ r.value = "good"
    <3> SUFFICES ASSUME NEW i \in 1..Len(Plan), Plan[i].name \in Gates, i # at
                 PROVE  \E r \in rows : r.name = Plan[i].name /\ r.boot = boots
                                        /\ r.value = "good"
        OBVIOUS
    <3>1. Plan[i].name # Line.name  BY <1>1, JudgeType DEF RowsOK, Line
    <3> QED  BY <1>3, <1>4, <1>6, <2>2, <3>1
  <2>4. ~spoiled
    <3> SUFFICES ASSUME spoiled PROVE FALSE
        OBVIOUS
    <3>1. PICK i \in 1..Len(Plan) : i < at /\ Plan[i].name \in Gates
            /\ \A r \in rows : r.name = Plan[i].name /\ r.boot = boots => r.value # "good"
        BY DEF Judged, Spoils
    <3>2. i # at  BY <1>1, <3>1
    <3> QED  BY <2>3, <3>1, <3>2
  <2>5. ASSUME NEW i \in (at + 1)..Len(Plan), Plan[i].name \in Gates PROVE FALSE
    <3>1. i \in 1..Len(Plan) /\ i > at
      <4>1. Len(Plan) \in Nat  BY JudgeType DEF RowsOK
      <4> QED  BY <1>1, <4>1
    <3>2. PICK r \in rows : r.name = Plan[i].name /\ r.boot = boots
        BY <1>1, <2>3, <2>5, <3>1
    <3>3. PICK j \in 1..Len(Plan) : Plan[j].name = r.name /\ j < at
        BY <3>2 DEF Judged, RowsPrinted
    <3>4. i = j  BY <2>5, <3>1, <3>2, <3>3, JudgeType DEF RowsOK
    <3> QED  BY <1>1, <3>1, <3>3, <3>4
  <2> QED  BY <1>1, <2>2, <2>4, <2>5
<1> QED  BY <1>7, <1>8

(* What the three ways need of a line. *)
LEMMA HeardLine ==
    ASSUME RowsOK, Judged, script.judges, NEW value, Heard(value)
    PROVE  /\ at \in 1..Len(Plan) /\ at \in Nat \ {0} /\ at' = at + 1
           /\ Len(Plan) \in Nat /\ Stages \in Nat
           /\ phase = "read" /\ phase' = "read" /\ lost' = lost
           /\ boots' = boots /\ boots \in Nat
           /\ Plan' = Plan /\ Gates' = Gates /\ Stages' = Stages
           /\ Line = Plan[at] /\ Plan[at].kind \in {"row", "marker"}
           /\ rows' \subseteq rows \cup {NewRow(value)}
           /\ NewRow(value).name = Line.name /\ NewRow(value).boot = boots
           /\ seen \in 0..Stages /\ seen' \in 0..Stages /\ seen <= seen'
           /\ seen' # seen => Line.name = script.markers[seen']
BY HeardRows, JudgeType, SameScript DEF Heard, RowsOK, Judged, Line, NewRow

LEMMA HearMarkerFirst ==
    ASSUME RowsOK, Judged, script.judges, NEW value, Heard(value)
    PROVE  ByMarkerFirst'
<1> SUFFICES ASSUME MarkerFirst(script), ~lost PROVE ByMarkerFirst'
    BY HeardLine DEF ByMarkerFirst, Heard
<1> USE HeardLine
<1>1. Stages = 1 /\ script.markers[1] = Plan[1].name /\ Plan[1].kind = "marker"
      /\ Plan[1].name \notin Gates
    BY DEF MarkerFirst, Stages, Plan, Gates
<1>2. \A r \in GateRows : r.boot = boots
    BY DEF Judged, ByMarkerFirst
<1>3. seen' = Stages
  <2>1. CASE at = 1
    <3>1. seen' = IF Line.kind = "marker" /\ seen < Stages
                     /\ Line.name = script.markers[seen + 1]
                  THEN seen + 1 ELSE seen
        BY DEF Heard
    <3>2. Line.kind = "marker" /\ Line.name = script.markers[1]  BY <1>1, <2>1
    <3>3. seen = 0 \/ seen = 1  BY <1>1
    <3> QED  BY <1>1, <3>1, <3>2, <3>3
  <2>2. CASE at # 1
    <3>1. seen = Stages  BY <2>2 DEF Judged, ByMarkerFirst
    <3> QED  BY <3>1
  <2> QED  BY <2>1, <2>2
<1>4. \A r \in GateRows' : r.boot = boots
    BY <1>2 DEF GateRows
<1> QED  BY <1>3, <1>4 DEF ByMarkerFirst, Alike

LEMMA HearMarkerLast ==
    ASSUME RowsOK, Judged, script.judges, NEW value, Heard(value)
    PROVE  ByMarkerLast'
<1> SUFFICES ASSUME MarkerLast(script), ~lost PROVE ByMarkerLast'
    BY HeardLine DEF ByMarkerLast, Heard
<1> USE HeardLine
<1>1. /\ script.keep = "last" /\ script.lists \cap Gates = {} /\ Stages # 0
      /\ \A i, j \in 1..Len(Plan) :
            Plan[i].name = script.markers[Stages] /\ Plan[j].name \in Gates => j < i
  <2>1. DOMAIN Plan = 1..Len(Plan)  BY JudgeType DEF RowsOK
  <2>2. Stages = Len(script.markers) /\ Stages \in Nat  BY DEF Stages
  <2>3. /\ script.keep = "last" /\ script.lists \cap Gates = {} /\ script.markers # <<>>
        /\ \A i, j \in DOMAIN Plan :
            Plan[i].name = script.markers[Len(script.markers)]
            /\ Plan[j].name \in Gates => j < i
      BY Zenon DEF MarkerLast, Plan, Gates
  <2> QED  BY <2>1, <2>2, <2>3
<1>2. Line.name \in Gates => rows' = (rows \ Same) \cup {NewRow(value)}
    BY <1>1, HeardRows DEF Heard
<1>3. \A n : Ahead(n)' => Ahead(n)
  <2> SUFFICES ASSUME NEW n, Ahead(n)' PROVE Ahead(n)
      OBVIOUS
  <2>1. PICK i \in 1..Len(Plan) : i >= at' /\ Plan[i].name = n  BY DEF Ahead
  <2> QED  BY <2>1 DEF Ahead
<1>4. CASE seen = Stages
  <2>1. Alike(GateRows) /\ \A name \in Gates : ~Ahead(name)
      BY <1>4 DEF Judged, ByMarkerLast
  <2>2. Line.name \notin Gates  BY <2>1 DEF Ahead
  <2>3. GateRows' \subseteq GateRows  BY <2>2 DEF GateRows
  <2>4. seen' = Stages  BY <1>4
  <2> QED  BY <1>3, <2>1, <2>3, <2>4 DEF ByMarkerLast, Alike
<1>5. CASE seen < Stages
  <2>1. \A r \in GateRows : r.boot = boots \/ Ahead(r.name)
      BY <1>5 DEF Judged, ByMarkerLast
  <2>2. \A r \in GateRows' : r.boot = boots \/ (Ahead(r.name)' /\ r \in GateRows)
    <3> SUFFICES ASSUME NEW r \in GateRows', r.boot # boots
                 PROVE  Ahead(r.name)' /\ r \in GateRows
        OBVIOUS
    <3>1. r \in rows /\ r.name \in Gates  BY DEF GateRows
    <3>2. r.name # Line.name
      <4> SUFFICES ASSUME r.name = Line.name PROVE FALSE
          OBVIOUS
      <4>1. r \in Same  BY <3>1 DEF Same, Judged, RowsPrinted
      <4>2. r \in rows'  BY DEF GateRows
      <4>3. r = NewRow(value)  BY <1>2, <3>1, <4>1, <4>2
      <4> QED  BY <4>3
    <3>3. Ahead(r.name)  BY <2>1, <3>1 DEF GateRows
    <3>4. PICK i \in 1..Len(Plan) : i >= at /\ Plan[i].name = r.name
        BY <3>3 DEF Ahead
    <3>5. i >= at + 1  BY <3>2, <3>4
    <3> QED  BY <3>1, <3>4, <3>5 DEF Ahead, GateRows
  <2>3. CASE seen' < Stages
      BY <2>2, <2>3 DEF ByMarkerLast
  <2>4. CASE seen' = Stages
    <3>1. Plan[at].name = script.markers[Stages]  BY <1>5, <2>4
    <3>2. \A j \in 1..Len(Plan) : Plan[j].name \in Gates => j < at
        BY <1>1, <3>1
    <3>3. \A n \in Gates : ~Ahead(n)
      <4> SUFFICES ASSUME NEW n \in Gates, Ahead(n) PROVE FALSE
          OBVIOUS
      <4>1. PICK i \in 1..Len(Plan) : i >= at /\ Plan[i].name = n  BY DEF Ahead
      <4> QED  BY <3>2, <4>1
    <3>4. \A r \in GateRows' : r.boot = boots
      <4>1. \A r \in GateRows' : r.name \in Gates  BY DEF GateRows
      <4> QED  BY <1>3, <2>2, <3>3, <4>1
    <3> QED  BY <1>3, <2>4, <3>3, <3>4 DEF ByMarkerLast, Alike
  <2> QED  BY <2>3, <2>4
<1> QED  BY <1>4, <1>5

LEMMA HearFirstLine ==
    ASSUME RowsOK, Judged, script.judges, NEW value, Heard(value)
    PROVE  ByFirstLine'
<1>a. ~repeated' => ~repeated  BY DEF Heard
<1> SUFFICES ASSUME BeginsOnce(script), ~lost, ~repeated, ~repeated' PROVE ByFirstLine'
    BY <1>a, HeardLine DEF ByFirstLine, Heard
<1> USE HeardLine
<1>1. Plan[1].kind = "row" /\ Plan[1].name \in script.once
    BY DEF BeginsOnce, Plan
<1>2. \A n : Has(n) => Has(n)'  BY HeardRows DEF Heard
<1>3. CASE at = 1
  <2>1. ~Has(Plan[1].name)  BY <1>1, <1>3 DEF Heard
  <2>2. rows = {}  BY <2>1 DEF Judged, ByFirstLine
  <2>3. rows' \subseteq {NewRow(value)}  BY <2>2
  <2>4. \E r \in rows' : r.name = Line.name  BY HeardRows DEF Heard
  <2>5. Has(Plan[1].name)'  BY <1>3, <2>4 DEF Has
  <2> QED  BY <2>3, <2>5 DEF ByFirstLine, Alike
<1>4. CASE at # 1
  <2>1. Has(Plan[1].name) /\ \A r \in rows : r.boot = boots
      BY <1>4 DEF Judged, ByFirstLine
  <2>2. Has(Plan[1].name)'  BY <1>2, <2>1 DEF Has
  <2>3. \A r \in rows' : r.boot = boots  BY <2>1
  <2> QED  BY <2>2, <2>3 DEF ByFirstLine, Alike
<1> QED  BY <1>3, <1>4

LEMMA HearPass ==
    ASSUME Judged, RowsOK, script.judges, Hear
    PROVE  Judged'
<1>1. PICK value : Heard(value)  BY HearHeard
<1>2. RowsPrinted' /\ Spoils' /\ BootEarns'  BY <1>1, HearPrinted, HearEarns
<1>3. ByMarkerFirst' /\ ByMarkerLast' /\ ByFirstLine'
    BY <1>1, HearMarkerFirst, HearMarkerLast, HearFirstLine
<1> QED  BY <1>1, <1>2, <1>3, HeardLine DEF Judged

LEMMA StartPass ==
    ASSUME Judged, RowsOK, script.judges, Start \/ Flash \/ SkipFlash \/ Open
    PROVE  Judged'
<1>1. script \in Scripts /\ Len(Plan) \in Nat /\ at \in Nat \ {0}
    BY JudgeType DEF RowsOK
<1>2. spoiled => \E i \in 1..Len(Plan) : i < at /\ Plan[i].name \in Gates
    BY DEF Judged, Spoils
<1>3. CASE Start
  <2>1. /\ UNCHANGED <<script, at, spoiled>> /\ rows' = {} /\ boots' = 0 /\ seen' = 0
        /\ repeated' = FALSE /\ phase' = "flash"
      BY <1>3 DEF Start, boardVars
  <2> QED  BY <1>1, <1>2, <2>1, NoRowsPass
<1>4. ASSUME Flash \/ SkipFlash \/ Open
      PROVE  /\ script' = script /\ rows' = {} /\ boots' = 0 /\ seen' = 0
             /\ repeated' = FALSE
  <2>1. UNCHANGED <<script, rows, boots, seen>> /\ phase \in {"flash", "open"}
        /\ repeated' = repeated
      BY <1>4 DEF Flash, SkipFlash, Open, parseVars, ghostVars
  <2>2. ~repeated  BY <2>1 DEF Judged
  <2> QED  BY <2>1, <2>2 DEF Judged
<1>5. CASE Flash \/ SkipFlash
  <2>1. phase' = "open" /\ at' \in {1, at} /\ (spoiled' => spoiled /\ at' = at)
      BY <1>5 DEF Flash, SkipFlash, boardVars
  <2>2. spoiled' => \E i \in 1..Len(Plan) : i < at' /\ Plan[i].name \in Gates
      BY <1>2, <2>1
  <2>3. script' = script  BY <1>4, <1>5
  <2>4. script' \in Scripts /\ script'.judges  BY <1>1, <2>3
  <2>5. at' \in Nat \ {0} /\ phase' # "read"  BY <1>1, <2>1
  <2>6. rows' = {} /\ boots' = 0 /\ seen' = 0 /\ repeated' = FALSE
      BY <1>4, <1>5
  <2> QED  BY <2>2, <2>3, <2>4, <2>5, <2>6, NoRowsPass
<1>6. CASE Open
  <2> DEFINE from == IF script.resets \/ script.ends = "file" THEN 1 ELSE at
  <2>1. PICK k \in (IF script.resets THEN {1} ELSE from..(Len(Plan) + 1)) :
          /\ at' = k /\ lost' = (k > 1)
          /\ spoiled' \in {from = at /\ spoiled,
                           \E i \in from..(k - 1) : Plan[i].name \in Gates}
      BY <1>6 DEF Open
  <2>2. k \in Nat \ {0} /\ from \in Nat \ {0} /\ (k = 1 \/ from <= k)
      BY <1>1, <2>1
  <2>3. lost' \/ at' = 1
    <3>1. k = 1 \/ k > 1  BY <2>2
    <3>2. k > 1 => lost'  BY <2>1, Zenon
    <3> QED  BY <2>1, <3>1, <3>2
  <2>4. spoiled' => \E i \in 1..Len(Plan) : i < at' /\ Plan[i].name \in Gates
    <3> SUFFICES ASSUME spoiled'
                 PROVE  \E i \in 1..Len(Plan) : i < k /\ Plan[i].name \in Gates
        BY <2>1
    <3>1. (from = at /\ spoiled) \/ \E i \in from..(k - 1) : Plan[i].name \in Gates
        BY <2>1, Zenon
    <3>2. CASE \E i \in from..(k - 1) : Plan[i].name \in Gates
      <4>1. PICK i \in from..(k - 1) : Plan[i].name \in Gates  BY <3>2
      <4>2. k \in 1..(Len(Plan) + 1)  BY <1>1, <2>1, <2>2
      <4>3. i \in 1..Len(Plan) /\ i < k  BY <1>1, <2>2, <4>1, <4>2
      <4> QED  BY <4>1, <4>3
    <3>3. CASE from = at /\ spoiled
      <4>1. PICK i \in 1..Len(Plan) : i < at /\ Plan[i].name \in Gates
          BY <1>2, <3>3
      <4>2. at > 1  BY <1>1, <4>1
      <4>3. at <= k
        <5>1. CASE script.resets
          <6>1. from = 1  BY <5>1
          <6> QED  BY <3>3, <4>2, <6>1
        <5>2. CASE ~script.resets  BY <1>1, <2>1, <2>2, <3>3, <5>2
        <5> QED  BY <5>1, <5>2
      <4> QED  BY <1>1, <2>2, <4>1, <4>3
    <3> QED  BY <3>1, <3>2, <3>3
  <2> QED  BY <1>1, <1>4, <1>6, <2>1, <2>2, <2>3, <2>4, NoRowsPass
<1> QED  BY <1>3, <1>5, <1>6

LEMMA NextPass == PassOK /\ [Next]_vars => PassOK'
<1> SUFFICES ASSUME PassOK, [Next]_vars PROVE PassOK'
    OBVIOUS
<1>1. RowsOK /\ RowsOK'  BY NextRows DEF PassOK
<1>2. script' = script
    BY DEF Next, Host, Start, Flash, FlashFails, SkipFlash, Open, OpenFails, Hear,
       HearGarbled, Tick, CaptureEnds, Interrupt, ReadFails, WriteArtifact,
       StepFails, Finish,
       BoardReset, PortLeaves, PortReturns, vars
<1> SUFFICES ASSUME script.judges PROVE Judged'
    BY <1>1, <1>2 DEF PassOK
<1>3. Judged  BY DEF PassOK
<1>4. CASE Start \/ Flash \/ SkipFlash \/ Open  BY <1>1, <1>3, <1>4, StartPass
<1>5. CASE Hear  BY <1>1, <1>3, <1>5, HearPass
<1>6. CASE HearGarbled  BY <1>1, <1>3, <1>6, GarbledPass
<1>7. CASE BoardReset  BY <1>1, <1>3, <1>7, ResetPass
<1>8. CASE OpenFails
    BY <1>3, <1>8, SamePass DEF OpenFails, Stop, parseVars, boardVars, ghostVars
<1>9. CASE Tick \/ CaptureEnds
    BY <1>3, <1>9, SamePass DEF Tick, CaptureEnds, parseVars, boardVars, ghostVars
<1>10. CASE WriteArtifact
  <2>1. phase' = phase \/ phase' = "end"  BY <1>10 DEF WriteArtifact, Stop
  <2> QED
      BY <1>3, <1>10, <2>1, SamePass DEF WriteArtifact, parseVars, boardVars, ghostVars
<1>11. CASE Finish
    BY <1>3, <1>11, SamePass DEF Finish, Stop, parseVars, boardVars, ghostVars
<1>12. CASE FlashFails \/ Interrupt \/ ReadFails \/ StepFails
    BY <1>3, <1>12, SamePass
    DEF FlashFails, Interrupt, ReadFails, StepFails, Stop, parseVars, boardVars, ghostVars
<1>13. CASE PortLeaves \/ PortReturns
    BY <1>3, <1>13, SamePass
    DEF PortLeaves, PortReturns, hostVars, parseVars, ghostVars
<1>14. CASE UNCHANGED vars
    BY <1>3, <1>14, SamePass DEF vars, hostVars, parseVars, boardVars, ghostVars
<1> QED
    BY <1>4, <1>5, <1>6, <1>7, <1>8, <1>9, <1>10, <1>11, <1>12, <1>13, <1>14
    DEF Next, Host

(* Good rows of every gate are of one boot, whatever keeps boots apart.    *)
LEMMA OneBoot ==
    ASSUME PassOK, script.judges, Verdict, ~Mixed,
           HasAll(script.counts \cup script.under)
    PROVE  earned
<1>1. Judged /\ RowsOK  BY DEF PassOK
<1>2. \A name \in Gates : \E r \in rows : r.name = name /\ r.value = "good"
  <2>1. HasAll(script.under) /\ \A name \in script.counts : Has(name)
      BY DEF HasAll
  <2>2. \A name \in Gates : Good(name)
      BY <2>1 DEF Verdict, Passes, LookedAt, Gates
  <2> QED  BY <2>2 DEF Good
<1>3. HasAll(script.present) /\ ~repeated  BY DEF Verdict, Complete
<1>4. boots \in Nat /\ seen \in 0..Stages /\ Stages \in Nat
    BY <1>1, JudgeType DEF Judged, RowsOK
<1>5. \A r \in rows : r.boot \in 0..boots  BY <1>1 DEF Judged, RowsPrinted
<1>6. ASSUME NEW r \in rows, \A s \in GateRows : s.value = "good" => s.boot = r.boot
      PROVE  earned
  <2>1. GoodIn(r.boot)  BY <1>2, <1>6 DEF GoodIn, GateRows
  <2> QED  BY <1>1, <1>5, <2>1 DEF Judged, BootEarns
<1>7. CASE \E name \in Gates \cup script.present : Gates \subseteq {name}
  <2>1. PICK name \in Gates \cup script.present : Gates \subseteq {name}  BY <1>7
  <2>2. PICK r \in rows : r.name = name /\ (Gates # {} => r.value = "good")
      BY <1>2, <1>3, <2>1 DEF HasAll, Has
  <2>3. GoodIn(r.boot)  BY <2>1, <2>2 DEF GoodIn
  <2> QED  BY <1>1, <1>5, <2>3 DEF Judged, BootEarns
<1>8. CASE ~\E name \in Gates \cup script.present : Gates \subseteq {name}
  <2>1. /\ MarkerFirst(script) \/ MarkerLast(script) \/ BeginsOnce(script)
        /\ Gates # {}
      BY <1>1, <1>8, JudgeType DEF RowsOK
  <2>2. Alike(GateRows)
    <3>1. CASE boots = 0
      <4>1. \A r \in rows : r.boot = 0  BY <1>5, <3>1
      <4> QED  BY <4>1 DEF Alike, GateRows
    <3>2. CASE boots # 0
      <4>1. ~lost /\ seen = Stages  BY <1>4, <1>8, <3>2 DEF Mixed, Several
      <4> QED
          BY <1>1, <1>3, <2>1, <4>1
          DEF Judged, ByMarkerFirst, ByMarkerLast, ByFirstLine, Alike, GateRows
    <3> QED  BY <3>1, <3>2
  <2>3. PICK r \in GateRows : TRUE
      BY <1>2, <2>1 DEF GateRows
  <2> QED  BY <1>6, <2>2, <2>3 DEF Alike, GateRows
<1> QED  BY <1>7, <1>8

(* A PASS is earned: when no gate is missing from the capture, one boot of *)
(* the board has measured every gate good, for every script that keeps the *)
(* measurements of two boots apart in one of the three ways.               *)
THEOREM PassEarned == Spec => []PassIsEarned
<1>1. PassOK => PassIsEarned  BY OneBoot DEF PassIsEarned, Claims
<1> QED  BY <1>1, InitPass, NextPass, PTL DEF Spec
=============================================================================
