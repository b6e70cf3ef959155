---------------------------- MODULE BenchScripts ----------------------------
(***************************************************************************)
(* The scripts of src/scripts that run a test on the board, as the records *)
(* BenchRun is parameterised by.  A script is a capture (how it flashes,   *)
(* opens the port, and when it stops reading) and an analysis: the lines   *)
(* the firmware prints (one row for a family of lines the script treats    *)
(* alike, in the order of the firmware), the artifacts written from them   *)
(* in order, and what PASS and the exit code 0 ask for.                    *)
(***************************************************************************)
EXTENDS Sequences, TLC

Row(name) == [kind |-> "row", name |-> name]
Case(name) == [kind |-> "case", name |-> name]
Marker(name) == [kind |-> "marker", name |-> name]

-----------------------------------------------------------------------------
(* Artifacts: the rows they require, and what happens when one is missing   *)

Artifact(file, requires, missing) ==
    [file |-> file, requires |-> requires, missing |-> missing]

Log == Artifact("log", {}, "written")
Write(file) == Artifact(file, {}, "written")
WriteIf(file, requires) == Artifact(file, requires, "left out")
WriteOnce(file) == Artifact(file, {}, "kept")

\* Nothing judged, the last of equal lines kept.  "strict" names the artifacts
\* that a line the script cannot convert may keep it from.
Plain == [keep |-> "last", lists |-> {}, named |-> FALSE, kept |-> {},
          strict |-> {}, once |-> {}, present |-> {}, some |-> {},
          under |-> {}, always |-> {}, needs |-> {}, counts |-> {},
          marked |-> FALSE, judges |-> FALSE, exit |-> "always",
          proof |-> "none"]

\* A verdict over measurements found by regular expressions, of which
\* re.search takes the first.
Searched == [Plain EXCEPT !.keep = "first", !.judges = TRUE]

-----------------------------------------------------------------------------
(* Captures *)

\* The runners up to B4B.1: esptool always, ten attempts to open the port, a
\* fixed drain after the marker, Ctrl-C ends the capture, the log is written
\* line by line.
RunnerCapture ==
    [flash |-> "always", opens |-> 10, resets |-> FALSE, ends |-> "drain",
     quiet |-> FALSE, interrupt |-> "keeps", broken |-> "kills",
     live |-> TRUE, unopened |-> TRUE, markers |-> <<"COMPLETE">>]

\* The monitors from B4B.2 on: idf.py unless --no-flash, the port opened once,
\* the marker brings the deadline forward, Ctrl-C is not caught.
MonitorCapture ==
    [flash |-> "optional", opens |-> 1, resets |-> FALSE, ends |-> "shorten",
     quiet |-> FALSE, interrupt |-> "kills", broken |-> "kills",
     live |-> FALSE, unopened |-> FALSE, markers |-> <<"NEXT STEP">>]

\* Those that take a silent read after the marker for the end.
QuietCapture == [MonitorCapture EXCEPT !.quiet = TRUE]

\* Those whose marker counts only after another line.
TwoStageCapture == [MonitorCapture EXCEPT !.markers = <<"QUALIFIED", "NEXT STEP">>]

-----------------------------------------------------------------------------
(* Bring-up, stages B1 to B4B.1: the firmware prints the marker and then its *)
(* summary                                                                   *)

\* monitor_b1.py only captures; it resets the board itself.
MonitorB1 == [RunnerCapture EXCEPT !.flash = "never", !.opens = 1,
                                   !.resets = TRUE, !.unopened = FALSE]
CaptureOnly ==
    Plain @@ [plan |-> <<Row("banner"), Marker("COMPLETE"), Row("summary")>>,
              steps |-> <<>>]

\* flash_and_monitor_b1.py saves the log after the capture.
FlashAndMonitorB1 == [RunnerCapture EXCEPT !.live = FALSE, !.unopened = FALSE]
ReportB1 ==
    [Searched EXCEPT !.needs = {"underruns"}, !.marked = TRUE,
                     !.exit = "marker"]
    @@ [plan |-> <<Row("banner"), Marker("COMPLETE"), Row("underruns"),
                   Row("summary")>>,
        steps |-> <<Log, Write("report"),
                    WriteIf("hw_config", {"banner"}),
                    Write("clock_report")>>]

\* monitor_b2.py asks for at least ten meter lines and judges none of them.
MonitorB2 == RunnerCapture
ReportB2 ==
    [Searched EXCEPT !.lists = {"meters"}, !.present = {"meters"}, !.marked = TRUE]
    @@ [plan |-> <<Row("meters"), Marker("COMPLETE"), Row("summary")>>,
        steps |-> <<Write("report")>>]

\* monitor_b3.py converts the number of blocks of a completed test.
MonitorB3 == RunnerCapture
ReportB3 ==
    [Searched EXCEPT !.needs = {"blocks"}, !.marked = TRUE]
    @@ [plan |-> <<Marker("COMPLETE"), Row("blocks"), Row("errors")>>,
        steps |-> <<Artifact("report", {"blocks"}, "raises if done")>>]

\* monitor_b4a.py: error counts that are missing are "0"; the timing table is
\* between two lines of its own.
MonitorB4A == RunnerCapture
ReportB4A ==
    [Searched EXCEPT !.needs = {"blocks"}, !.counts = {"errors"},
                     !.marked = TRUE]
    @@ [plan |-> <<Marker("COMPLETE"), Row("blocks"), Row("errors"),
                   Row("timing")>>,
        steps |-> <<WriteIf("timing_csv", {"timing"}),
                    Artifact("report", {"blocks"}, "raises if done")>>]

\* monitor_b4b.py asks for grains and LPC frames besides: "0" of them fails.
MonitorB4B == RunnerCapture
ReportB4B ==
    [ReportB4A EXCEPT !.needs = {"blocks", "grains"},
                      !.plan = <<Marker("COMPLETE"), Row("blocks"),
                                 Row("errors"), Row("grains"), Row("timing")>>]

\* monitor_b4b1.py only captures.
MonitorB4B1 == RunnerCapture

\* run_microshift_physical_matrix.py: records carry the name of their case.
RunMicroshift == [RunnerCapture EXCEPT !.live = FALSE, !.unopened = FALSE]
AnalysisMicroshift ==
    Plain @@ [plan |-> <<Row("dsp"), Row("late"), Row("stage"),
                         Marker("COMPLETE")>>,
              steps |-> <<Log, Write("analysis")>>]

-----------------------------------------------------------------------------
(* Audits B4B.2 to B4B.4D: a report, then its last line as the marker, which *)
(* the exit code 0 stands for                                                *)

AuditReport == [Plain EXCEPT !.keep = "first", !.lists = {"isolated"},
                             !.exit = "marker"]

\* monitor_b4b2.py, and monitor_b4b3.py with other names.
MonitorB4B2 == [QuietCapture EXCEPT !.markers = <<"CLASSIFICATION">>]
ReportB4B2 ==
    AuditReport
    @@ [plan |-> <<Row("body"), Marker("CLASSIFICATION"), Row("ready")>>,
        steps |-> <<Log, Write("report")>>]
MonitorB4B3 == MonitorB4B2
ReportB4B3 == ReportB4B2

\* monitor_b4b4a.py writes the report before the table, and is ready to stop on
\* silence after the first of its two lines.
MonitorB4B4A == [QuietCapture EXCEPT !.markers = <<"REPORT_END", "B4B.4B">>]
ReportB4B4A ==
    AuditReport
    @@ [plan |-> <<Row("isolated"), Marker("REPORT_END"), Marker("B4B.4B")>>,
        steps |-> <<Log, Write("report"), Write("csv")>>]

\* monitor_b4b4b.py, monitor_b4b4c.py and monitor_b4b4d.py write a table only.
MonitorB4B4B == [QuietCapture EXCEPT !.markers = <<"SENTINEL">>]
TableB4B4B ==
    AuditReport
    @@ [plan |-> <<Row("isolated"), Row("worker"), Marker("SENTINEL")>>,
        steps |-> <<Log, Write("csv")>>]
MonitorB4B4C == MonitorB4B4B
TableB4B4C == TableB4B4B
MonitorB4B4D == MonitorB4B4B
TableB4B4D == TableB4B4B

-----------------------------------------------------------------------------
(* Audits B4B.4E to B4B.4H: the RESULT line, whatever it says, is the exit  *)
(* code 0; the marker NEXT STEP follows it                                  *)

ResultReport == [Plain EXCEPT !.keep = "first", !.lists = {"isolated"},
                              !.exit = "row", !.proof = "result"]
ResultPlan == <<Row("isolated"), Row("worker"), Row("result"),
                Marker("NEXT STEP")>>

MonitorB4B4E == QuietCapture
TablesB4B4E ==
    ResultReport
    @@ [plan |-> ResultPlan,
        steps |-> <<Log, Write("benchmark"), Write("grain_csv")>>]
MonitorB4B4F == QuietCapture
TablesB4B4F ==
    ResultReport
    @@ [plan |-> ResultPlan,
        steps |-> <<Log, Write("benchmark"), Write("budget"),
                    Write("alignment")>>]
MonitorB4B4G == MonitorCapture
TablesB4B4G ==
    ResultReport
    @@ [plan |-> ResultPlan,
        steps |-> <<Log, Write("benchmark"), Write("budget")>>]
MonitorB4B4H == MonitorCapture
TablesB4B4H == TablesB4B4G

-----------------------------------------------------------------------------
(* B4B.4I to B4B.6A: the verdict is the exit code *)

\* monitor_b4b4i.py counts its thirteen section lines: a second boot's are too
\* many.
MonitorB4B4I == MonitorCapture
TablesB4B4I == <<Log, Write("profile"), Write("budget"), Write("overhead"),
                 Write("inventory"), Write("report")>>
ReportB4B4I ==
    [Searched EXCEPT !.present = {"section"}, !.lists = {"section"},
                     !.once = {"section"},
                     !.needs = {"reconciliation", "result"},
                     !.exit = "verdict"]
    @@ [plan |-> <<Row("section"), Row("reconciliation"), Row("result"),
                   Marker("NEXT STEP")>>,
        steps |-> TablesB4B4I]

\* monitor_b4b4j.py, monitor_b4b4k.py and monitor_b4b5.py: RESULT: PASS
\* anywhere in the log.
MonitorB4B4J == MonitorCapture
VerdictB4B4J ==
    [Plain EXCEPT !.lists = {"result"}, !.judges = TRUE,
                  !.needs = {"result"}, !.exit = "verdict"]
    @@ [plan |-> <<Row("worker"), Row("result"), Marker("NEXT STEP")>>,
        steps |-> <<Log>>]
MonitorB4B4K == MonitorB4B4J
VerdictB4B4K == VerdictB4B4J
MonitorB4B5 == MonitorB4B4J
VerdictB4B5 == VerdictB4B4J

\* monitor_b4b6.py merges the records of a case by name.  "case" stands for its 39
\* cases and three repeats: one of its lines makes it count, and without its
\* B4B6_CASE line, which has the load that hard_pass and headroom_pass judge, it
\* is counted and not judged; drops that are missing are 0, a transport word
\* that is missing fails.  Of the two stability runs (one row, three lines) all
\* is judged and nothing may be missing.  The firmware goes on only with the
\* configuration "config" tells of.
MonitorB4B6 == TwoStageCapture
RecordsB4B6 == <<Row("config"), Row("case"), Row("health"), Row("transport"),
                 Row("stability"), Marker("QUALIFIED"), Marker("NEXT STEP")>>
TablesB4B6 == <<Log, Write("tables"), Write("report")>>
ReportB4B6 ==
    [Plain EXCEPT !.strict = {"tables"}, !.judges = TRUE,
                  !.present = {"config"},
                  !.some = {"case", "health", "transport"},
                  !.under = {"case"}, !.always = {"stability"},
                  !.needs = {"transport", "stability"},
                  !.counts = {"case", "health"}, !.exit = "verdict"]
    @@ [plan |-> RecordsB4B6, steps |-> TablesB4B6]

\* monitor_b4b6a.py stops at the marker and exits with 0 when it has a row.
MonitorB4B6A == [MonitorCapture EXCEPT !.ends = "stop"]
TableB4B6A ==
    [Plain EXCEPT !.lists = {"cost"}, !.exit = "row", !.proof = "cost"]
    @@ [plan |-> <<Row("method"), Row("cost"), Marker("NEXT STEP")>>,
        steps |-> <<Log, WriteIf("csv", {"cost"})>>]

-----------------------------------------------------------------------------
(* Core 0 and harmonizer audits B4C.1 to B4C.7 *)

\* monitor_b4c1.py, and monitor_b4c3.py, a copy of it: no log is kept, and the
\* report states its result without looking at one.
MonitorB4C1 == TwoStageCapture
GroupingB4C1 == [Plain EXCEPT !.strict = {"stability_60s"}]
              @@ [plan |-> <<Row("case"), Row("memory"), Row("interference"),
                             Marker("QUALIFIED"), Marker("NEXT STEP")>>]
ReportB4C1 ==
    GroupingB4C1
    @@ [steps |-> <<Write("stability_60s"), Write("task_map"),
                    Write("block_profile"), Write("psola_scaling"),
                    Write("effect_costs"), Write("fx_matrix"),
                    Write("memory_budget"), Write("interference"),
                    Write("report")>>]
MonitorB4C3 == MonitorB4C1
GroupingB4C3 == GroupingB4C1
ReportB4C3 == ReportB4C1

\* run_b4c3_audit.py wraps the log in a report.
RunB4C3 == TwoStageCapture
ReportRunB4C3 ==
    Plain @@ [plan |-> <<Row("audit"), Marker("QUALIFIED"), Marker("NEXT STEP")>>,
              steps |-> <<Log, Write("report")>>]

\* run_b4c3a_audit.py and run_b4c3b_audit.py: twelve attempts to open the port;
\* the rule under the result is the second stage.
RunB4C3A == [TwoStageCapture EXCEPT !.opens = 12, !.markers = <<"RESULT", "=== rule">>]
RecordsB4C3A == [Plain EXCEPT !.strict = {"extracts"}, !.lists = {"candidate"}]
              @@ [plan |-> <<Row("candidate"), Row("metrics"), Marker("RESULT"),
                             Marker("=== rule")>>]
ReportB4C3A ==
    RecordsB4C3A
    @@ [steps |-> <<Log, Write("extracts"), Write("candidates"),
                    Write("matrix"), Write("report")>>]
RunB4C3B == RunB4C3A
RecordsB4C3B == [RecordsB4C3A EXCEPT !.strict = {"candidates"}]
ReportB4C3B ==
    RecordsB4C3B
    @@ [steps |-> <<Log, Write("candidates"), Write("matrix"), Write("report")>>]

\* run_b4c4_audit.py demands its cases and single-grain rows, after the tables
\* and before the report.  A record without its name is a KeyError, a block time
\* that is no number a ValueError at the second table.  With --input-log it does
\* the same without a capture, as the scripts after it.
RunB4C4 == [MonitorCapture EXCEPT !.opens = 12]
RecordsB4C4 == [Plain EXCEPT !.strict = {"grain_cost", "top100"},
                             !.lists = {"grain"}]
             @@ [plan |-> <<Row("grain"), Row("case"), Row("metrics"),
                            Marker("NEXT STEP")>>]
TablesB4C4 == <<Log, Write("grain_cost"), Write("top100"), Write("matrix"),
                Write("stability")>>
ReportB4C4 ==
    RecordsB4C4
    @@ [steps |-> Append(TablesB4C4,
                         Artifact("report", {"case", "grain"}, "raises"))]

\* run_b4c6a_audit.py and run_b4c7_audit.py read a log file.  Records after a
\* case line belong to that case.  The table of host results is written again
\* by the first when it has none in it, by the second only when it is not there.
ReadB4C6A == [MonitorCapture EXCEPT !.flash = "never", !.ends = "file",
                                    !.markers = <<>>]
RecordsB4C6A == Plain @@ [plan |-> <<Case("c1"), Row("transport"), Row("qualify"),
                                     Case("c2"), Row("transport"),
                                     Row("qualify")>>]
ReportB4C6A ==
    RecordsB4C6A
    @@ [steps |-> <<Write("loop_timing"), Write("backlog"), Write("controls"),
                    Write("equivalence"), Write("report")>>]
ReadB4C7 == ReadB4C6A
RecordsB4C7 == [RecordsB4C6A EXCEPT !.strict = {"high_f0"}]
ReportB4C7 ==
    RecordsB4C7
    @@ [steps |-> <<Write("bandwidth"), Write("profiles"), Write("high_f0"),
                    Write("controls"), WriteOnce("equivalence"),
                    Write("report")>>]

\* analyze_b4c8.py reads a log file and knows no cases; the table of slow blocks
\* is written for the voices that have some.
ReadB4C8 == ReadB4C6A
RecordsB4C8 == [Plain EXCEPT !.lists = {"memory", "slow", "qualify"}]
             @@ [plan |-> <<Row("memory"), Row("category"), Row("slow"),
                            Row("qualify")>>]
ReportB4C8 ==
    RecordsB4C8
    @@ [steps |-> <<Write("other_breakdown"), WriteIf("slow_blocks", {"slow"}),
                    Write("burst_correlations"), Write("memory"),
                    Write("report")>>]

-----------------------------------------------------------------------------
(* The analyses of the campaigns B4D.1 to B4D.5, whose lines name their case;  *)
(* a case that comes again is begun anew, but for the records that "kept"      *)
(* names, which are in dictionaries of their own.  The lines on memory name    *)
(* no case and add up over the boots.                                          *)

ReadB4D == ReadB4C6A
RecordsB4D1 == [Plain EXCEPT !.named = TRUE, !.lists = {"slow", "memory"}]
             @@ [plan |-> <<Row("memory"), Case("c1"), Row("dsp"),
                            Row("slow"), Case("c2"), Row("dsp")>>]
ReportB4D1 ==
    RecordsB4D1
    @@ [steps |-> <<Write("timing"), Write("slow_blocks"), Write("budgets"),
                    Write("memory"), Write("transport")>>]

RecordsB4D2 == [Plain EXCEPT !.named = TRUE, !.lists = {"section", "memory"}]
             @@ [plan |-> <<Row("memory"), Case("c1"), Row("dsp"),
                            Row("section"), Case("c2"), Row("dsp")>>]
ReportB4D2 ==
    RecordsB4D2
    @@ [steps |-> <<Write("cache_audit"), Write("timing"), Write("memory"),
                    Write("budgets")>>]

RecordsB4D3 == [Plain EXCEPT !.named = TRUE, !.lists = {"grain"},
                             !.kept = {"transport"}]
             @@ [plan |-> <<Case("c1"), Row("dsp"), Row("grain"),
                            Row("transport"), Case("c2")>>]
TablesB4D3 ==
    RecordsB4D3
    @@ [steps |-> <<Write("grain_population"), Write("f0_matrix"),
                    Write("transport")>>]

\* analyze_b4d3s.py sweeps sample rates.
RecordsB4D3S == [Plain EXCEPT !.named = TRUE, !.lists = {"grain"},
                              !.kept = {"reconcile"}]
              @@ [plan |-> <<Case("c1"), Row("dsp"), Row("grain"),
                             Row("reconcile"), Case("c2")>>]
TablesB4D3S ==
    RecordsB4D3S
    @@ [steps |-> <<Write("reconcile"), Write("rates"), Write("contingency")>>]

\* analyze_b4d4.py and analyze_b4d5.py begin anew only the case's own records.
RecordsB4D4 == [Plain EXCEPT !.named = TRUE, !.lists = {"class"},
                             !.kept = {"pitch_age", "class"}]
             @@ [plan |-> <<Case("c1"), Row("dsp"), Row("pitch_age"),
                            Row("class"), Case("c2")>>]
TablesB4D4 ==
    RecordsB4D4
    @@ [steps |-> <<Write("pitch_age_audit"), Write("block_classes"),
                    Write("after")>>]

RecordsB4D5 == [Plain EXCEPT !.named = TRUE, !.lists = {"paired"},
                             !.kept = {"pitch_age", "paired"}]
             @@ [plan |-> <<Case("c1"), Row("dsp"), Row("pitch_age"),
                            Row("paired"), Case("c2")>>]
TablesB4D5 ==
    RecordsB4D5
    @@ [steps |-> <<Write("pitch_age_fix"), Write("paired_blocks"),
                    Write("after")>>]

-----------------------------------------------------------------------------
(* The headless validation of Alpha 0.1A, and the plain captures *)

\* alpha01a_runner.py: RTS resets the board, the marker stops the capture.  The
\* summary of the stress test, its report here, says PASS unless a RESULT line
\* said otherwise; a time of the stress test that is no number is a ValueError.
\* The comparison with the host, run before the capture, only gives one of the
\* later tables a row or not.
CaptureAlpha01A ==
    [RunnerCapture EXCEPT !.opens = 1, !.resets = TRUE, !.ends = "stop",
                          !.interrupt = "kills", !.broken = "goes on",
                          !.live = FALSE, !.unopened = FALSE]
RecordsAlpha01A == [Plain EXCEPT !.lists = {"test"}, !.judges = TRUE,
                                 !.strict = {"block_timing"},
                                 !.counts = {"stress"}]
                 @@ [plan |-> <<Row("test"), Row("memory"), Row("stress"),
                                Marker("COMPLETE")>>]
ArtifactsAlpha01A ==
    RecordsAlpha01A
    @@ [steps |-> <<Log, Write("hardware_summary"), Write("cpu_profile"),
                    Write("block_timing"), Write("memory_report"),
                    Write("stack_report"), Write("report"), Write("tests")>>]

\* alpha01a1_runner.py: whatever goes wrong in a read ends the capture.
CaptureAlpha01A1 == [CaptureAlpha01A EXCEPT !.interrupt = "keeps",
                                            !.broken = "keeps"]
RecordsAlpha01A1 ==
    [RecordsAlpha01A EXCEPT !.judges = FALSE, !.counts = {},
                            !.strict = {"timing_breakdown", "wall_vs_audio"}]
ArtifactsAlpha01A1 ==
    RecordsAlpha01A1
    @@ [steps |-> <<Log, Write("timing_breakdown"),
                    Write("miss_classification"), Write("wall_vs_audio"),
                    Write("placement"), Write("wdt_stress"), Write("summary")>>]

\* read_serial.py and capture_b4d5.py read for a fixed time.
ReadSerial == [MonitorCapture EXCEPT !.flash = "never", !.markers = <<>>]
CaptureB4D5 == [ReadSerial EXCEPT !.live = TRUE]

\* b4d12_capture.py with a hard timeout, which it has only if it is given one.
CaptureB4D12 == [CaptureB4D5 EXCEPT !.markers = <<"END">>, !.ends = "stop"]
Campaign == Plain @@ [plan |-> <<Row("line"), Marker("END")>>, steps |-> <<>>]
Lines == Plain @@ [plan |-> <<Row("line"), Row("end")>>, steps |-> <<>>]

-----------------------------------------------------------------------------
AllScripts ==
    { MonitorB1 @@ CaptureOnly, FlashAndMonitorB1 @@ ReportB1,
      MonitorB2 @@ ReportB2, MonitorB3 @@ ReportB3, MonitorB4A @@ ReportB4A,
      MonitorB4B @@ ReportB4B, MonitorB4B1 @@ CaptureOnly,
      RunMicroshift @@ AnalysisMicroshift,
      MonitorB4B2 @@ ReportB4B2, MonitorB4B3 @@ ReportB4B3,
      MonitorB4B4A @@ ReportB4B4A, MonitorB4B4B @@ TableB4B4B,
      MonitorB4B4C @@ TableB4B4C, MonitorB4B4D @@ TableB4B4D,
      MonitorB4B4E @@ TablesB4B4E, MonitorB4B4F @@ TablesB4B4F,
      MonitorB4B4G @@ TablesB4B4G, MonitorB4B4H @@ TablesB4B4H,
      MonitorB4B4I @@ ReportB4B4I, MonitorB4B4J @@ VerdictB4B4J,
      MonitorB4B4K @@ VerdictB4B4K, MonitorB4B5 @@ VerdictB4B5,
      MonitorB4B6 @@ ReportB4B6, MonitorB4B6A @@ TableB4B6A,
      MonitorB4C1 @@ ReportB4C1, MonitorB4C3 @@ ReportB4C3,
      RunB4C3 @@ ReportRunB4C3, RunB4C3A @@ ReportB4C3A,
      RunB4C3B @@ ReportB4C3B, RunB4C4 @@ ReportB4C4,
      ReadB4C6A @@ ReportB4C6A, ReadB4C7 @@ ReportB4C7,
      ReadB4D @@ ReportB4D1, ReadB4D @@ ReportB4D2,
      ReadB4D @@ TablesB4D3, ReadB4D @@ TablesB4D3S,
      ReadB4D @@ TablesB4D4, ReadB4D @@ TablesB4D5,
      ReadB4C8 @@ ReportB4C8,
      CaptureB4D12 @@ Campaign,
      CaptureAlpha01A @@ ArtifactsAlpha01A,
      CaptureAlpha01A1 @@ ArtifactsAlpha01A1,
      ReadSerial @@ Lines, CaptureB4D5 @@ Lines }
=============================================================================
