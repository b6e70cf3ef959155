# VoxP4 in TLA+

VoxP4 is the firmware of a vocal effects processor on an ESP32-P4: an audio
engine that runs block by block, a worker that tracks pitch, and a control
protocol, VoxLink, over a UART to a controller with a display. Around it the
repository holds a reference client of the protocol and the scripts that run
the hardware tests and turn what the board prints into the reports its
documents cite. This directory holds the TLA+ models of the concurrent and
protocol core of the firmware and of these host programs, the TLC runs that
check them and the TLAPS proofs about them.

Paths below are relative to the repository's source directory; `VF` stands for
`components/vocal_fx` and `VL` for `components/voxlink`.

## Inventory

### The tasks of the firmware

| task | started by | code | touches |
|---|---|---|---|
| control task | `UartTransport::start`, from `main/voxlink_service.cpp`, at power-on | `UartTransport::run`: read, feed, drain, tick | the session, the product state, the producer's end of the parameter queue |
| coordinator | `app_main` | `main/i2s_bringup.cpp`: `vocal_fx_init`, the mode's parameters, `start_pipeline_tasks` | engine initialization, the queue's reset, and pushes of its own |
| audio task | `start_pipeline_tasks` | `vocal_fx_process`, each 1.5 ms block | the consumer's end of the queue, the pitch path (tap), the mailbox (read) |
| pitch worker | `start_pipeline_tasks` | `pitch_worker_task` → `vocal_fx_run_pitch_analysis` | the pitch path (hops), the mailbox (publish) |

No task takes a mutex: everything shared is an atomic word, a ring with one
producer and one consumer, or a sequence lock.

On the host, `tools/voxlink_cli.py` is one process per command, single-threaded,
with the P4's session at the other end of a serial line. The scripts of
`scripts/` are one sequential program each: flash, read lines until a marker or
a deadline, write artifacts. Theirs is the concurrency of a program with a board
that resets, a line that garbles, a port that goes away and a hand on Ctrl-C.

### The components

| component | state | operations | what makes it correct | modelled in |
|---|---|---|---|---|
| Parameter queue (`VF/src/parameter_queue.h`) | `entries_`, `head_`, `tail_` | `push`, `pop`, `reset` | a bounded FIFO; no entry is torn or overwritten while it is read | ParameterQueue, ParameterFifo |
| VoxLink session (`VL/src/voxlink_session.cpp`) and product state (`voxlink_state.cpp`) | transmit ring, sequence guard, connection, clock; values and revision | `feed`, the handlers, `take_tx`, `tick` | the controller's mirror converges on the product state, which agrees with the engine | VoxLinkSession |
| UART transport (`VL/src/voxlink_uart.cpp`) | the loop | `run` | every response leaves; a silent peer is noticed | VoxLinkUart |
| Frame parser (`VL/include/voxlink_parser.h`) | byte machine, 8-slot queue | `feed`, `pop` | one frame out for each valid frame in | its queue, in VoxLinkSession; the byte machine is planned |
| Registry, codec, CRC (`VL/src`) | constant tables | normalize, validate, encode, decode | normalization is idempotent and in range | not yet (pure) |
| Control service and binding (`main/voxlink_service.cpp`, `VF/control`) | `seeded` | submit, `voxlink_seed_defaults` | defaults, product state and engine agree after start-up | ControlBoot |
| Engine parameters (`VF/src/vocal_fx.cpp`) | targets, `ready` | `vocal_fx_init`, `vocal_fx_set_parameter`, `apply_pending_parameters` | every accepted change reaches the engine, last one last | ControlBoot |
| Pitch path gate (`vocal_fx.cpp:203-225`) | `pitch_users` | enter, leave, reset, re-initialize | a reset has the analysis to itself | PitchGate, PitchPath |
| Pitch mailbox (`vocal_fx.cpp:98-113, 1385-1471`) | lock, `seq`, fields | publish, try_latest | a copy is one publication and a fresh one | PitchMailbox, PitchShare |
| Analysis FIFO, tap, rolling window (`VF/pitch/analysis_fifo.h`, `pitch_analysis.cpp:190-305`) | ring of samples; window, count, hop | `push`, `pop`, `tap`, the first half of `run` | samples in order; no window spans a hole | AnalysisFeed, PitchPath |
| Voicing and mark tracking (`pitch_analysis.cpp:339-437, 764-952`) | `voiced_` and its counts; `previous_mark_`, `coherent_marks_`, `mark_failures_`, `coasting_hops_`, `mark_state_` | the second half of `run`, `update_marks` | a lock is backed by marks, marks go forward, a lost track is given up | PitchTrack |
| Mark ring (`pitch_analysis.cpp:610-631, 953-1061`) | 64 slots with a sequence counter each, a generation, packed indices | `add_mark`, `try_marks` | a copy is one moment of the ring; marks reach up to the pitch | PitchMarkRing, PitchShare |
| I2S transport (`VF/platform/audio_i2s.cpp`), pipeline start and stop (`main/i2s_bringup.cpp:429-570`) | DMA queues, task handles | ISR callbacks, `run`, start, stop | no block lost silently, stop joins every task | planned |
| Harmony articulation (`VF/harmony`) | small state machines per sample | process | bounded hold and release | planned |
| PSOLA, LPC, YIN, effects, dynamics | floating-point buffers | process | numeric | no: numerics |
| Reference client (`tools/voxlink_cli.py`) | `Transport.seq`, `Parser.buf` | `request`, the commands | what it prints is what the P4 held; every command ends | VoxLinkCli |
| Hardware-run scripts (`scripts/monitor_*.py`, `run_*.py`, `alpha01a*_runner.py`, `flash_and_monitor_b1.py`, the captures) and analyses (`analyze_b4c8.py`, `analyze_b4d1.py` to `b4d5.py`) | lines, parsed records, artifacts on disk | flash, open, read, parse, write, judge | a PASS was earned, a report has its log, rows are under their case | BenchRun, BenchScripts |
| Later log analyses (`scripts/analyze_b4d6.py` and on) | tables | join files of several captures | – | no: no verdict, no state besides the rows |
| Offline audio audits (`scripts/voicing_classification.py`, …), schema tools | arrays, tables | process | numeric | no: pure computation |
| Profiling, on-target audits, unit tests, wasm | – | – | – | no: not the running system; the on-target audits are the board of BenchRun |

### Interaction

The controller's SET_PARAM runs, in the control task, through the session:
decode, normalize, `submit` (a push into the parameter queue, which may refuse),
then product state, ACK and PARAM_CHANGED. The audio task drains the queue at
the next block boundary and moves its targets. The tick hook of the same loop
seeds the registry's defaults once `vocal_fx_is_ready()`. The coordinator resets
the queue in `vocal_fx_init` and pushes the parameters of its mode. The audio
task taps its input into the pitch analysis and the worker takes it out, both
through the gate. Each hop the worker analyses a window, decides whether it is
voiced, follows its periods with marks, adds the marks to the ring and publishes
its result in the mailbox; the audio task copies both in every block, in single
attempts that may fail.

The reference client talks to the same session as the controller does: it sends
a request with its sequence number and collects frames until one of them ends
the answer. A hardware-run script sees the firmware through the lines it
prints; the firmware does not know of the script. The artifacts are what the
next run finds on disk, and what `docs/` quotes.

### The hard parts

`PROJECT.json` lists them with their lines under `hazards`: accesses to the ring
with indices loaded earlier; two producers of a queue built for one; requests
acknowledged before the engine exists; answers lost at a full ring after the
state has changed; a reused sequence number; a peer that goes silent; readers
that copy while a writer writes; a reset among tasks that enter without a lock;
samples dropped when the worker is behind; a track lost and found again with
counters of its former life. On the host: answers of an interrupted command
that arrive in the next one; an answer that ends before its confirmation; a
verdict computed from lines of which some are missing, garbled, or from the
boot before a reset; artifacts of two runs side by side after a crash between
them; a deadline that every exit from a capture must respect.

## Modules

| module | models | role |
|---|---|---|
| `ParameterFifo` | what the queue promises | abstract specification |
| `ParameterQueue` | `parameter_queue.h`, one step per shared access | implements `ParameterFifo` (`ImplementsFifo`) |
| `ParameterQueue_proof` | | theorems |
| `VoxLinkSession` | session, product state, parser's queue | actions without a loop of their own |
| `VoxLinkUart`, `VoxLinkUart_proof` | `UartTransport::run` around the session, and the controller (external) | composition, specification, theorems, lemmas about the session |
| `ControlBoot`, `ControlBoot_proof` | control task, coordinator, audio task around the queue and the engine's targets | composition, specification, theorems |
| `PitchGate` | the gate, one step per access to its word | specification |
| `PitchMailbox` | the sequence lock, one step per atomic access | specification |
| `PitchTrack`, `PitchTrack_proof` | voicing and `update_marks`, hop by hop | specification, theorems |
| `PitchMarkRing` | the ring of marks, one step per atomic access | actions without a loop of their own |
| `PitchShare`, `PitchShare_proof` | `PitchMailbox` and `PitchMarkRing` between the worker and the audio task | composition, specification, theorems (of the mailbox too) |
| `AnalysisFeed` | `AnalysisFifo`, `tap`, the rolling window | actions without a loop of their own |
| `PitchPath`, `PitchPath_proof` | `AnalysisFeed` behind `PitchGate`: audio task, worker, coordinator | composition, specification, theorems (of the gate and the feed too) |
| `VoxLinkCli`, `VoxLinkCli_proof` | `voxlink_cli.py` command after command, around `VoxLinkSession`, over a line with faults | composition, specification, theorems |
| `BenchRun` | what the hardware-run scripts have in common, and the board (external) | specification |
| `BenchRun_proof` | | theorems |
| `BenchScripts` | each script as the record `BenchRun` is parameterised by | operators |
| `MC_…` | values of the constants | TLC |

### How state and actions correspond

**ParameterQueue.** `entries`, `head`, `tail` are the fields. `producer` and
`consumer` are program counters; `pushing`, `reading`, `resetTo` the locals of a
call. `PushBegin`/`PushFull` is the load of `tail_` and the test for room;
`WriteParameter`, `WriteValue` copy the two words of a `ParameterChange`;
`PushPublish` is the release store. `pop` is split the same way, `reset` into its
load and its store. A change is an opaque value and each word of an entry
records the change it was copied from, so that tearing shows. `reset` runs when
there is no audio task, so it takes the consumer's place; a push may overlap it.

**VoxLinkSession.** A frame is a record. Bytes appear only as a length, in
units of the transmit ring, because only the ring's limits depend on it; a
request carries its normalized value or the code it is rejected with. Each
handler of `handle_frame` is an action with its frame as argument. `enqueue` is
all or nothing per frame, as in the code, so a snapshot can lose frames in its
middle. Whether `submit` accepts is a choice between `AcceptSetParam` and
`SetParamQueueFull`. `rxAge` and `heartbeatAge` are `now_ms_ - last_rx_ms_` and
`now_ms_ - last_heartbeat_ms_`, no finer than the timeouts they are compared
with; the first tick sets the timebase. `submitted` and `stale` are history
variables: what the engine's queue last accepted, and the parameters whose last
PARAM_CHANGED found no room. The server's own sequence number and the
notifications nothing sends (`notify_param_changed`, `notify_preset_changed`, `send_meter`, `send_pitch`,
`send_dsp_status`) are left out. With heartbeats the only telemetry, sent at
most once a tick into a ring that has just been drained, the high-water mark of
`enqueue` is in the model, but it is no property of a run.

**VoxLinkUart.** `phase` is the place in the loop. `ReadChunk` is a read that
returns data (`FeedBegin` clears the guard), `ParseFrame` the parser queuing one
frame of the chunk, `Handle` one iteration of `feed`'s second loop, `Drain` one
unit of `take_tx` and `uart_write_bytes`, `RoundEnd` the tick. The controller
sends any sequence of the frames in `ClientSends`; it keeps a `mirror` of what
frames carry, taken when the last unit of a frame has arrived.

**ControlBoot.** A push takes two steps, the loads and the stores, so that two
tasks can overlap in it; a drain takes one, as ParameterQueue shows that it may.
`SetBegin`/`SetEnd` are `handle_set_param` with a `submit` that succeeds,
`SetRejected` one that does not. `SeedBegin`, `SeedLoad`, `SeedStore`,
`SeedRefused`, `SeedEnd` are `seed_defaults_when_ready` and the loop of
`voxlink_seed_defaults`. `InitReset`, `InitReady`, `ModeLoad`, `ModeStore`,
`ModeRefused`, `StartPipeline` are the coordinator. Its start may fail: `InitFails`
is a failing return of `vocal_fx_init`, all of which come before the reset of
the queue, `PipelineFails` one of `start_pipeline_tasks`; the coordinator then
returns, and the control task goes on without an audio task. `StopPipeline` is
`stop_pipeline_tasks`, at the end of a timed run or when there is an audio task
but no pitch task: nothing drains the queue from then on. `early` is a history variable: parameters
last SET before seeding was complete.

**PitchGate.** `users` and `resetting` are the two halves of the word.
`expected[u]` is the local `state` of `enter_pitch_path`; the weak swap may fail
for no reason. `Shut`, `ResetAlone`/`InitAlone`, `InitDone`, `Reopen` are the
steps of `reset_pitch_analysis` and `vocal_fx_init_pitch_analysis`; an
initialization clears `enable_pitch_analysis` and may leave it cleared. In
today's firmware the coordinator resets only while the pipeline is stopped; the
gate is written to be correct without that, and is checked without it.

**PitchMailbox.** The fields are written and read in any order between the
accesses to `seq`; a field holds the number of the publication that wrote it.
Nothing is reordered across the accesses to `seq`: the model is sequentially
consistent, and what a weak memory may do with the relaxed loads is outside it.
`vocal_fx_latest_pitch` repeats `vocal_fx_try_latest_pitch` until it succeeds.

**PitchTrack.** One hop is a `Measure` (the window's measurement and the voicing
decision), and then the steps of `update_marks`: `Coast` with its loop
`PredictMark`/`CoastEnd`, or `Lose`; or `Anchor`, `MarkTimeout` or `Follow` with
the search loop `Accept`, `Reject`, `RejectCoast`, `RejectUnlock`, `SearchEnd`.
The detector and the correlation are choices: a measurement is `"silence"`
(level too low), `"bad"`, `"fair"` (enough to stay voiced) or `"strong"` (enough
to begin), a search finds an offset within its radius or nothing. Positions are
relative to the analysis timestamp, so that the state is finite: each hop moves
them back by `HopStep`, and those `Far` behind are one. `lag` is how far the
input is ahead. `misses` is a history variable: failed searches since the last mark.
`period < 8` and the range 24 to 800 of the coasting loop hold for every period
of a detector of 65 to 1000 Hz and are left out. Stateful voicing is on, as in the product; the audit's
counters and events are left out.

**PitchMarkRing.** The steps of `add_mark` are its accesses in order, the words
of a slot in any order; those of `try_marks` likewise. `slots` is what is left of
the loop over the ring. A mark is the number of its addition, which stands for
its position. `entered`, `added` and `addedBefore` are history variables. The
range's start, a whole audio history back, excludes no mark and is left out.

**PitchShare.** The worker adds the marks of a hop (`RunHop`), then publishes the
pitch (`PublishPitch`), as `vocal_fx_run_pitch_analysis` does; `marksOf` keeps how
many marks are no later than each publication's timestamp (all of them, or all
but the newest, which a search may place past it). A block of the audio task is
one attempt at the pitch (`TakePitch`) and then one at the marks up to the
timestamp it has (`TakeMarks`), both of which may fail and leave what was there.

**AnalysisFeed.** A sample is its position after decimation. `PushBegin` is a
sample of `tap` and the load of `tail_`; without room it is dropped and leaves
its gap. `Take` and `TakeHop` are an iteration of the loop of `run`; `Kept` is
what a gap leaves of the window. `linear_` is scratch later in the hop, the
variable keeps what was analysed.

**PitchPath.** A block is `Try`, `Enter`, any number of samples, `Leave`, or a
refusal; a run of the worker likewise. `Coordinator` is `vocal_fx_reset` and
`vocal_fx_init_pitch_analysis`; what the reset does to the FIFO and the window
is one step with the store that opens the gate again, since nobody is inside
(`ResetFindsRest`).

**VoxLinkCli.** A command is a process: `Start` is `main()` up to the first
`send`, with a new `Transport` and `Parser`, and with what the host has received
so far discarded as opening the port does. A unit on the line is a part of a
frame of `VoxLinkSession`, the first of which holds the header. A fault loses a
unit or damages it in one of four ways that `_try_parse` tells apart: the SOF is
gone (`sof`), version or reserved bits are wrong (`header`), the length is
(`longer`), or only the CRC finds out (`body`). `ReadFull` and `ReadTimeout` are
`read_frames`, a read of 256 bytes or of what has come when the line stays
silent; `TryParse` and `TryParseNone` are one call of `_try_parse`, and `None`,
for whatever reason, ends the loop of `feed` as in the code; `Filter` is the
body of `request`'s loop for a batch; `PrintAnswer` is the command's handler
(`Answer`) and its exit code. `stress` sends and never reads, because
`read_frames(timeout=0)` does not enter its loop. `Kill` is Ctrl-C; the P4's
answer to the interrupted command is then still on its way. History variables
are `history`, the values at each revision; `fresh`, whether the P4 had nothing
under way when the command began; `clean`, whether besides nothing was damaged
or lost since; and `intact`, whether nothing was damaged or lost, and no snapshot
left without its end, since the last command that began so. A STATE_PARAM does
not say which snapshot it is of, and the client looks at neither its sequence nor
that of a STATE_END. So `PrintedIsTrue` is about `state` only as long as one of
the two, `fresh` or `intact`, holds (`apart`); what the other commands print it is about always.

**BenchRun and BenchScripts.** The scripts are variations of one program, so
there is one module of actions and a record for each script. `phase` follows
the script: `Flash`/`SkipFlash`/`FlashFails`, `Open`/`OpenFails` with the
number of attempts, the capture loop (`Hear`, `HearGarbled`, `Tick`,
`CaptureEnds`), then the artifacts in the script's order (`WriteArtifact`) and the
exit code (`Finish`). The first half of a record is the capture: how it
flashes, opens and resets (`flash`, `opens`, `resets`), what its marker does to
the deadline (`markers`, `ends`, `quiet`), what Ctrl-C or a broken port does
(`interrupt`, `broken`), whether the log is written line by line (`live`). The
second half is the analysis: the lines of the firmware (`plan`), which of two
equal ones is kept (`keep`, `lists`), whether a line names its case or belongs
to that of the last case line (`named`), the records a repeated case does not
begin anew (`kept`), what PASS asks for (`marked`, `present`, `under`, `needs`, `counts`,
`once`, `some`), the exit code (`exit`), the artifacts with what a missing record
does to each (`steps`), and those among them that a garbled record keeps the
script from (`strict`: `shlex.split`, `float` or the name of the record fails;
`mangled`). A family of lines the script treats alike is one row, and its
artifact one step, whatever is computed in between: a
measured value is good or bad, and percentiles, formatting and prose are left
out. `files` holds the run that wrote each artifact; `StepFails` is a disk that
refuses one, before the file is begun or within it. `FlashFails` is also the git
that `monitor_b4b4i.py` asks, before it flashes, for what its report quotes.
`monitor_b4b6.py` asks for 39 cases and three repeats, which are one row
(`case`): one of its lines makes it count. Its two stability runs are one row of which
nothing may be missing (`always`), and its configuration a row that must be there
(`present`), because the firmware goes on only with it.
A script that exists as a capture and an analysis of its log is the two in a
row: for one that only analyses, the capture is the reading of the file.
`spoiled`, `earned`, `completed`, `lost` and `boots` are history variables about
what the board really did.

## Runs

| run | shows | bounds |
|---|---|---|
| `parameter_queue` | entries whole, reads intact, FIFO refinement | 4 slots (wraps, fills, empties), 2 changes |
| `voxlink_uart` | mirror, revisions, product state and engine, sequence guard; a silent peer is dropped; responses leave | see below |
| `control_boot` | a change acknowledged after seeding reaches the engine; seeding completes and the queue drains | 2 parameters, a ring of 3, 3 SETs; a mode with no parameter or with any one |
| `control_boot_early` | finding: SETs before seeding | as `control_boot`, no mode parameter |
| `control_boot_writers` | finding: two producers | as `control_boot`, one mode parameter |
| `pitch_path` | exclusion, resets end; samples in order, windows without holes, hops apart, refused blocks | audio task and worker, any number of resets; a FIFO of 3, a window of 3, hops of 2, 6 samples between two resets |
| `pitch_share` | copies of pitch and marks whole, fresh and in step | 2 publishers, 1 reader, 2 fields, 3 publications; 3 slots, 2 words, 5 marks; counters of 6 values (ring and counters wrap) |
| `pitch_track` | lock, order of marks, failures, coasting | see below |
| `pitch_track_failures` | finding: failures outlive their track | the same |
| `voxlink_cli` | what the client prints under a revision is what the P4 held; answers on a clean line are whole; commands end | see below |
| `voxlink_cli_set` | finding: a confirmed SET is reported as not confirmed | the same line, `set` only |
| `bench` | evidence, verdicts, exit codes, rows and cases of all hardware-run scripts; a run ends | see below |

**Bounds of voxlink_uart.** In the firmware a unit is about 455 bytes: the ring of
8192 bytes is 18 units, the drain budget of 4096 bytes is 9, a CAPS answer (71
parameters, 2727 bytes) 6 and a STATE answer (1173 bytes) 4, each frame rounded
up to whole units. The run is smaller, so that limits are met by fewer
frames: a ring of 10, a budget of 5, so that a CAPS answer is cut by the end of
a round and a CAPS and a STATE answer overflow the ring, and a parser's queue of
3. Two parameters of two values are enough for a mirror to be wrong about one
and right about the other. The controller sends at most 4 frames, but of every
kind, and with a sequence number that can repeat within a batch. Ticks of 1 or 3
against a timeout of 2 and a heartbeat interval of 1: a tick may find a heartbeat
due, or the timeout passed, or both.

**Bounds of VoxLinkCli.** Two parameters of two values, two commands: the second
may meet what an interrupted first one left under way. CAPS_PARAM and
PARAM_CHANGED take two units and a read takes four, so that reads end within
frames. One fault: it can be a loss or a damage of any unit or request. What two
commands do not show is a third that prints two snapshots: `state` is interrupted,
`stress` changes a value, `state` prints the parameters of both under one
revision if the STATE_END of the first is lost or found no room. `PrintedIsTrue`
leaves that out by its premise (`apart`). The
ring holds two whole answers, so that `CleanAnswersWhole` is about the client.

**Bounds of the bench.** Two runs, because only a second run finds artifacts of a
first; two faults, because the interesting cases are pairs (a reset and a lost
line, a garbled line in the first run and an interrupt in the second). Two reads
that find nothing reach every deadline, one read of grace what comes after a
marker. The bounds count invocations of the script and faults; the lines a board
prints are bounded by the faults, as only a reset makes it print them again.

**Bounds of ControlBoot.** Three slots hold two entries: with two parameters,
seeding is refused as soon as one SET is in the queue, which in the firmware
takes 57 (128 slots, 71 parameters). `MaxSets` of 3 lets SETs fall before,
during and after seeding. The SETs being bounded, the system comes to rest:
these runs do not check for deadlock.

In `AcceptedSetsArrive` the mode has no parameter: with one, a push of the
coordinator may overlap one of the control task (`control_boot_writers`).
`BootSettles` is checked for both, and for starts that fail and pipelines that
are stopped at any point: it excludes only these two ends.

**Bounds of PitchShare.** `MaxPublications` and `MaxMarks` bound the counters that
number publications and marks. `NoLap` says that no read lasts for 2^31
publications, as a 32-bit counter needs, and `NoCopyLap` the same of the marks;
with 6 values both conditions are reached and enforced. When all publications
and marks are used up the audio task goes on reading.

**Bounds of PitchTrack.** The proportions are kept, not the numbers: a hop is
240 samples, periods are 48 to 738, a search reaches a fifth of a period, the
history is 16384. Periods of 8 and 10 with a hop of 3 or 7 give hops without a
prediction, with one, and searches past the boundary (a radius of 2); `History`
of 24 against a `Lag` of 20 times a mark out after a few hops; `Far` is beyond
every mark that is still followed. Counters saturate or wrap at `Byte` 4, above every
threshold of the code (in the firmware, where 255 failures in a row are out of
reach because the mark times out, the wrap never comes: the model is weaker).

**Bounds of PitchPath.** `MaxInput` is a bound on the samples between two resets:
six overflow the FIFO of 3, leave holes of any length behind any sample, and
fill two windows.

### Findings

1. *control_boot_early.* `voxlink_service.cpp:17-19` says that seeding makes
   registry, product state and engine agree. A SET acknowledged before seeding
   stays in the product state, while the engine ends with the default.
   `AcceptedSetsArrive` therefore excludes such parameters, until they are SET again.
2. *control_boot_writers.* `parameter_queue.h:14` says that the control task is
   the producer. The coordinator pushes its mode's parameters while the control
   task seeds, and an accepted default of another parameter can be lost.
3. *pitch_track_failures.* `pitch_analysis.md:86-88` says that three failed
   searches unlock a track. `update_marks` does not clear `mark_failures_` when the
   voice is lost, though it clears the audit's copy of it, nor when it anchors the
   next track: that one can be unlocked by its first failed search. A track that
   was locked is not affected (`LockedSurvivesTwo`).

4. *voxlink_cli_set.* `voxlink_v1.md:326-329` says of a SET that "the controller
   always receives a confirmation", and `:207` that PARAM_CHANGED is it. The
   server answers with ACK and then PARAM_CHANGED (`voxlink_session.cpp:362-375`);
   `request()` returns at the ACK (`voxlink_cli.py:271-272`) and drops the rest of
   the batch, so that `set` prints "no PARAM_CHANGED" and returns 1 after a SET that
   was confirmed.

Differences that need no run, since reading the two places shows them:

- `pitch_analysis.md:86-88` also has an onset and low confidence unlock a track,
  where `update_marks` looks at neither (at the confidence only with stateful
  voicing off); `voxlink_v1.md:312` gives the queue 64 slots where `vocal_fx.cpp:97`
  gives it 128, and `voxlink_cyd_integration.md` counts 49 parameters where the
  registry has 71.
- `voxlink_parser.h:10-11` says of the server that it "drains immediately, so its
  small queue never overflows". `feed` parses the whole chunk first; a read of 256
  bytes can hold 25 frames and the queue 7. `voxlink_v1.md:355-357` says the guard
  may clear at the start of a batch "because the transport drains and transmits
  all responses between input reads"; the drain stops after 4096 bytes.
- `voxlink_v1.md:443-448` asks of both ends that a parser handle back-to-back frames
  and recover after a bad one. The client's `feed` stops at a bad frame and looks at
  what follows it in the buffer only when a later read calls it again.
- `monitor_b4a.py` and `monitor_b4b.py` take an error count that was not printed
  for 0. `monitor_b4c1.py` and `monitor_b4c3.py` print "RESULT: PASS" and "DEADLINE
  MISSES: 0" whatever was captured, and keep no raw log; `alpha01a_runner.py` says
  "Result: PASS" unless a line says otherwise. The runners B2 to B4B.1 test `if not
  ser`, which a `Serial` object that failed to open passes: the log is truncated
  and the run then dies. `b4d12_capture.py` without `--timeout` does not end if its
  sentinel is lost (`RunEnds` is about a capture with one).
- `monitor_b4b6.py` counts a case without its B4B6_CASE record and does not judge
  its load, and takes drops that were not printed for 0 (`PassIsEarned` asks that
  the rows whose absence counts as good, and the one the others are looked at
  under, did come). After a reset it merges the records of two boots if the second did not
  print all of its own (the exemption `Mixed`, which is only about scripts whose
  verdict rests on several measurements, and only about captures that miss a line
  or the last marker). In `run_b4c6a_audit.py`
  and the B4C.7 audit a lost case line files the next case's records under the
  last one (the premise of `OwnRows`), and a reset within a case mixes its boots.
  After a reset `run_b4c3a_audit.py`, `run_b4c3b_audit.py` and `run_b4c4_audit.py` list
  the rows of both boots. `run_b4c4_audit.py:441-453` leaves "n/a" where the metric
  itself has a default (209-210).
- `voxlink_v1.md` gives a snapshot a beginning and an end with its revision;
  `cmd_state` prints every STATE_PARAM under the revision of the last STATE_BEGIN,
  and `request()` takes the STATE_END of any request for its own. After an
  interrupted `state` whose end was lost it mixes two snapshots.
- `analyze_b4d1.py:78` says that a repeated case "starts a new (later) run: reset
  its data". `analyze_b4d2.py` to `analyze_b4d5.py` keep some dictionaries outside the
  case and do not (`kept`; `CaseOfOneBoot` leaves these records out), among them the
  memory of the reverb that `analyze_b4d2.py:269` calls the "last run's".
  `analyze_b4d3s.py` prints "reconciliation: OK" also when no RECONCILE line came.

### Fairness

- *VoxLinkUart*: `WF(Loop)`. `run()` loops without end and every call in it
  returns. Input is not fair: the controller may stop at any time.
- *ControlBoot*: weak fairness of the control task's own steps, of the
  coordinator and of the drain, since each is a task that runs on; SETs are not
  fair. Nothing has to fail or to be stopped, so failing and stopping are not
  fair either, and `BootSettles` grants them. Strong fairness of a drain between two rounds of the control task: the
  task waits 5 ms for input in each round and a block lasts 1.5 ms, so blocks
  keep falling between rounds, where weak fairness would let each fall inside
  one, just before a refusal.
- *PitchTrack*: `WF(Next)`. Hops follow each other as long as the audio task
  feeds samples; within a hop the worker only computes. What a hop measures, and
  whether a search succeeds, is not fair: `SilenceUnlocks` assumes that the voice
  stays away, `CoastingEnds` that it stays.
- *VoxLinkCli*: weak fairness of the P4's loop, which never stops, and of the
  client's own steps: it never waits without a deadline. The user, the faults and
  the P4's heartbeats are not fair.
- *BenchRun*: `WF(Host)`, the script's own steps: it is a sequential program and
  each of its reads times out. Neither the board nor the port is fair: a run ends
  although the board prints nothing.
- *PitchPath*: a reset begun goes on, and a task inside runs on to the end of its
  block or run and leaves (the work between enter and leave is finite). Entering
  is not fair.

## Proofs

Each proof module extends its component and cites only named assumptions on the
constants. The argument is the same in each: an inductive invariant (`IInv`, `WindowInv`, `ShareInv`), shown to hold initially
and to be preserved by each action, one step per action; the theorem follows by
`PTL`.

- **ParameterQueue_proof** (`CapacityAssumption`, `NoChangeAssumption`).
  `TypeCorrect`, `EntriesWhole`, `ReadsIntact`, `PopsWhole`, for every capacity
  above 1. The invariants are not inductive alone: the proof needs that a push in
  progress has room (`head`'s successor is not `tail`, although `tail` was loaded
  earlier), that a pop in progress has an entry, that a reset's loaded head still
  lies between tail and head, and what a half-written slot already holds. Lemmas
  on `Distance` and `Increment` carry the modular arithmetic. `RingIsFifo`
  (`ImplementsFifo`): under the mapping of the ring to the sequence of its live
  entries a publication appends, an advance takes the head, a reset drops from
  the oldest end, and every other step changes nothing, the copy into a slot included,
  since no live entry is in the slot that is being filled.
- **PitchPath_proof** (`UserAssumption`, `FeedAssumption`, `PathAssumption`). Of the
  gate: `TypeCorrect`, `Counted`, `ResetExcludes`, for every finite set of tasks.
  The strengthening: the word
  counts the tasks inside (`CountExact`); while the resetter is not idle the
  reset bit is set; so no swap can succeed, however old its expected word, since that word has the
  bit clear. Of the path: `PathImplementsGate`: every step of the
  pitch path is a step of the gate or leaves it alone; hence `ResetExcludesPath`.
  `ResetFindsRest` adds that a push or a pop is under way only inside the gate,
  and `NoHole` that a task with a word from during the reset has not been inside
  since, for every capacity, window, hop and bound. `WindowsContiguous`
  (`WindowContiguous`) and `InOrder` (`SamplesInOrder`) rest on one invariant of
  the feed: the entries between tail and head are in increasing order and newer
  than whatever was taken before, a dropped entry included; the window holds
  consecutive samples, and the last one taken is its last. `HopsKeepApart`
  (`HopsApart`) adds that the samples counted since the last analysis are at
  most as many as the positions that have passed.
- **PitchShare_proof** (`MailboxAssumption`, `RingAssumption`, `ShareAssumption`). Of
  the mailbox: `PublishersExclusive`,
  `CopiesWhole`, `CopiesFresh`, for any publishers, readers, fields and even
  modulus. The strengthening ties `seq` to the unbounded counts of publications
  begun and completed (`seq` is their sum modulo `SeqModulus`), says that
  everything written or read is between the floor of a read and `begun`, and that
  a read whose counter has not moved has seen one publication only; `NoLap`
  turns equality of counters into equality of counts. With the ring:
  `MarksNotTorn` (`MarksWhole`), `MarksOfOneMoment` (`SnapshotExact`) and
  `MarksGoWithPitch` (`MarksReachPitch`), for every capacity of the ring, every
  even counter width and any number of marks and publications. The ring's half of the
  invariant says which mark each slot holds, counted back from the write index,
  and that the generation has moved away from what a copy loaded first by exactly the
  marks begun and ended since (`RingLag`), the counter of a slot by at most that
  (`SlotLag`). Equal generations then mean a quiet ring, in which what is copied
  and what is left together are the last marks (`RightSoFar`). That the marks reach up
  to the pitch needs the mailbox's invariant besides: a copy of the pitch is a
  publication that is complete, whose marks are in the ring.
- **PitchTrack_proof** (`TrackAssumption`, `RangeAssumption`). `TypeCorrect`,
  `LockEarned`, `MarksInOrder`, `LockHolds`, for every set of periods and hops
  such that a search reaches less far than a period and than a hop. The order of
  marks is not a matter of the state alone: the proof carries that the newest mark is
  the one the track goes on from, and that it lies less than a hop past the
  boundary, so that the next boundary, where an anchor may come, is past it.
  While a track is locked, the count of failures is the true one.

- **VoxLinkUart_proof** (`SessionAssumption`, `UartAssumption`). `TypeCorrect`, `MirrorsConverge`
  (`MirrorConverges`), `RevisionsOrdered` (`RevisionsInOrder`), `StateIsEngines`
  (`StateFollowsEngine`) and `AnswersUnique` (`OneAnswerPerSeq`), for every
  registry, all sizes of frames, ring, parser's queue and drain budget, and every
  controller. The lemmas about the session, which VoxLinkCli_proof uses too, say what `enqueue` makes of a list of frames (each is
  appended whole or dropped, and a dropped PARAM_CHANGED leaves its parameter
  stale) and which frames each handler sends. `MirrorConverges` and
  `RevisionsInOrder` are inductive with the types, once it is known that a frame
  appended to the ring takes the final view one frame further (`ViewAfterFrame`) and that
  a value changes only with its PARAM_CHANGED, sent or stale. `OneAnswerPerSeq` is not: an
  answer in the ring behind `carried` has its sequence in the guard
  (`AnswersGuarded`), so that the next request to be let through has another. A list of frames and a ring of units are walked by induction:
  `UpTo` and `Iterates` derive it from the library's minimum of a well-founded
  relation, for a set, which needs no operator as a parameter.
- **VoxLinkCli_proof** (`SessionAssumption`, `CliAssumption`; for `CleanAnswers` also
  `RoomAssumption`). `PrintsTrue`
  (`PrintedIsTrue`), for every registry, all sizes of frames, ring and read, any
  commands and any number of invocations, faults, interrupts and heartbeats. The
  invariant is about every frame that the client may still be given, wherever it
  is: in the ring, on the line, in the parser's buffer, in the batch, among the
  frames `request` has kept (`InPlay`). `AllTold`: a frame under a revision tells
  the P4's value at that revision. A damaged unit does not disturb it, since a
  frame is parsed only when its units are there, unharmed (`CrcMatches`). That is
  all that `hello`, `get` and `set` need, which print one frame. `state` prints
  many under the revision of one, and a STATE_PARAM does not say which snapshot it
  is of. Either the P4 had nothing under way when the command began, and there is one
  snapshot, of a state that has not changed since (`OneSnapshot`); or nothing has
  been lost since a command that began so, and then (`SnapshotsApart`) the ring, the line and the
  buffer together are a sequence of whole frames, each STATE_BEGIN and STATE_PARAM
  has a STATE_END behind it, and between any two that are at odds with each other
  lies a STATE_END, where `request` stops. The
  second is the delicate part: it is about the concatenation of four sequences out of
  which each step moves something into the next, and the lemmas `Joined`,
  `ChainedJoined`, `WholeJoined` and `OrderlyLater` carry that.
  `CleanAnswers` (`CleanAnswersWhole`) has an invariant of its own (`WholeIInv`) on
  top of the first one's types. A caps, state or get that began with a quiet P4 and has
  met no fault is either still waiting: its request is on the line or parsed, and all it
  has been given or is about to be given are heartbeats (`Waiting`). Or it is answered: every parameter it asked for has a
  frame among those received and those to come, none of them behind the frame that
  ends the answer (`ItemsFirst`), and if the last read has timed out, none of them
  is still on the line (`Answered`). The first becomes the second in one
  step, `P4Handle`, for which the ring must take the whole answer: `AnswerFits`
  follows `enqueue` through the frames of a snapshot, each of which finds room
  because the last one does. `RoomAssumption` says that there is room for the
  answer besides all the heartbeats of a run, the bound `MaxBeats`: a run longer than that
  is not covered. In the firmware a CAPS answer is 2727 of the ring's 8192 bytes and a
  heartbeat 10, which leaves room for 546 of them, one a second. Those that matter are the ones
  since the command began that the ring has not been drained of: one, as a rule, and
  the model counts the others for want of a measure of the time a round takes. The
  high-water mark does not give the room by itself, since it lets
  heartbeats take 6144 bytes. Without room the P4 drops the rest of an answer: a clean line does
  not mean a whole answer then, and the theorem does not say so.
- **ControlBoot_proof** (`BootAssumption`). `TypeCorrect` and `SetsArrive`
  (`AcceptedSetsArrive`) for every registry, capacity of the ring and any number of SETs,
  when the mode pushes nothing. The strengthening: the slot the
  control task has loaded is still the head and still has room (`OneProducer`);
  what is queued once the engine is ready is never reset (`Order`); every default that an
  attempt at seeding has passed is on its way (`SeedOnItsWay`); and for each parameter the
  value the engine will have when the ring is drained (`Effective`: the last entry of it, or
  else its target) is the product state's, unless the parameter is early (`Coherent`).
  That a push changes `Effective` for its own parameter only is `StoreAdds`. With a second producer the head is no
  longer the loaded one, which is finding 2.

- **BenchRun_proof** (`ScriptAssumption`, `LogFirst`, `CaseLineFirst`, `ReportAlways`,
  `VerdictOfOneBoot`). For every set of
  scripts of this form, every patience, and any number of runs and faults:
  `LogFirstOnDisk` (`EvidenceFirst`), `RowsUnderTheirCase` (`OwnRows`), `OneBootPerCase`
  (`CaseOfOneBoot`), `ExitCodeHonest` (`ExitIsHonest`) and `PassEarned`
  (`PassIsEarned`). The first needs that a log written line by line is of this
  run from the opening of the port on, and another from the second step on, and that the steps begin
  at the first. The second needs that a positional parser's case is the one of
  the board's last line, across resets; it rests on `CaseLineFirst`, without which a
  reset would file the first lines of the new boot under the old boot's case. The
  third needs that the rows of the case the board is in are of the present boot,
  whose case line dropped the others. The fourth needs that every step behind a run has
  left its log or report with this run's number, and that the row the code stands for
  is only there once the board has printed it. The fifth needs that what spoils a
  boot leaves a gate without a good row of that boot, so that a boot all of whose gates have
  one has earned its PASS; and that the gates' rows are of one boot. Scripts see
  to that in different ways, which `VerdictOfOneBoot` names: a single gate; a marker
  before the gates, after which a reset is not heard; a marker after them, with the
  last of equal lines kept; a first line that must not come twice. TLC evaluates the assumptions for
  the scripts of the repository.

The proofs were written after TLC had checked each formula. `Counted` and
`PublishersExclusive` (that the word counts the tasks inside, that publishers keep
out of each other's way) have no run of their own: they are part of what
`ResetExcludes` and `CopiesWhole` rest on. Only model-checked:
all liveness (fairness is out of the prover's reach).

## Not modelled

- The numerics (PSOLA, LPC, YIN, effects): floating point, one caller each.
- Weak memory. The code's acquire and release pairs justify sequential
  consistency for the ring and the gate; the sequence lock's relaxed loads are
  the exception named above.
- `UartTransport::stop` and the time-out in it: nothing calls it.
- The plain bool `ready`, read by another task: the model covers a late value.
- The byte machine of the firmware's parser, the registry, the codec: pure
  functions of their input; the client's parser is modelled by units.
- How long `stop_pipeline_tasks` waits for its tasks: the stop is one step.
- In the hardware-run scripts, what is computed between the records and a
  table, and the comparison with the host in `alpha01a_runner.py`, a process of
  its own that only gives a later table a row or not.
- `monitor` and `selftest` of the client: the first prints what comes until it is
  stopped, the second checks two constant frames.
- The second log of `analyze_b4d4.py` (`--forensic`) and of `analyze_b4d5.py` (`--run2`):
  the same analysis once more.
- The later log analyses, which join fixed files of several captures into tables;
  the offline audio audits and the schema tools, which compute.
- The pipeline's start and stop beyond what ControlBoot needs, and the I2S
  callbacks; profiling; the firmware's on-target audits (their output is the board
  of BenchRun); the wasm preview; the unit tests.

## What remains

In order of importance:

1. `VoxLinkParser`: the firmware's byte machine over a small alphabet, for any
   division of the input into chunks; resynchronization after a bad length,
   version or CRC. Registry normalization as an operator with its reference definition.
2. Pipeline start and stop (`main/i2s_bringup.cpp:429-570`) with task joins, and
   the I2S callbacks against the audio task.
3. A reset in `PitchShare`: `vocal_fx_reset` clears the marks and the audio task's
   pitch and leaves the mailbox, whose timestamp is then ahead of every mark; and
   the marks are copied outside the gate.
4. The plosive and unvoiced articulation machines; harmony's scale lookup; the
   integer bookkeeping of the PSOLA scheduler.
