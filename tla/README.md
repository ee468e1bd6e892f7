# Formal model of pcbench

TLA+ modules for the parts of pcbench whose correctness depends on order,
failure or concurrency, the TLC runs that check them on small instances, and
TLAPS proofs of the properties that hold for every instance. Source lines below
are those of `pcbench/`. `PROJECT.json` names the code behind every definition.

## 1. The system

pcbench is a command-line program, mostly sequential: `cli.main` parses
arguments, reads the state of the machine, runs tests one after the other,
assembles one payload, saves it and exits with a code. What makes it hard is at
its edges: worker processes and threads inside single tests, files shared by
several runs of the program, other machines, and faults or a Ctrl-C in the middle
of any of it.

| Part (source) | State | Operations | What is hard | What must hold |
|---|---|---|---|---|
| Burn-in (`soak.py`) | per worker: rounds, unreported errors; a queue; the parent's counts, verdict | unit, report, last report, drain, thermal abort, Ctrl-C, terminate, final drain | counts cumulative and errors incremental in one queue; feeder threads that share one write lock; SIGTERM against the last report | no wrong answer is dropped or counted twice; the verdict matches what happened; it ends unless a worker dies at the pipe |
| Scratch files (`workloads.bench_disk`, `iobench.run_job`, `storage.run`) | files and sizes, ages, free space, a shared working directory, wear | create, write, fsync, read, close, clean stale files, make and remove the directory | runs that share a directory; kills; a full disk; free space read early and used late | nothing left behind, no live file removed, wear capped, headroom kept |
| Queue depth (`workloads._random_read_iops_qd`, `DirectReader`, `iobench.run_job.worker`) | descriptors, positions, counters per thread, a stop event | open, probe, fall back, read, write, publish the count, join with a timeout, close | seek and read as two steps; a hung read against join; a probe that fails half-way; no memory for its buffer | reads go where they were meant to, counts are honest, who leaves a descriptor open, the caller ends |
| Limits (`limits.py`) | none | `safe_mem_mb`, `safe_disk_mb`, `total_write_mb` | clamps that meet, unknown sizes | shares of memory and of free space; the wear cap |
| Two-node test (`network.serve`, `measure_throughput`, `measure_latency`) | connections, backlog, bytes at both ends, probes | connect, send, echo, time out, vanish, Ctrl-C | a sequential server and parallel clients; late echoes; half-sent payloads | the two ends agree on what was transferred; nobody waits for ever |
| Loopback and internet (`network._throughput`, `_latency`, `internet_speed`; `sysbench.bench_context_switch`) | a helper thread, two events, budgets of bytes and time | send, drain, join, set, wait, clear; download, upload | a join that gives up; a set against a clear; failures of single measurements; a server that sends more than asked | what is timed was handed over; the caller ends; download and upload have a limit each; a failure costs one figure |
| History (`report.save_json`, `append_csv`, `compare.load_history`) | `benchmarks.csv`, its archives | look, read the header, archive, append | versions with other columns; runs at once; kills and full disks | every row stands under its own header; a saved row stays |
| Run loop (`cli.py`) | results, payload, exit code | guard, tests, sections, exports, exit | a failure in one step of a long run | every test is answered; finished results are saved; the exit code is that of the worst event |
| Configuration (`config.py`) | settings by origin | find, flatten, apply | three sources, one precedence | the command line wins, then the environment, then the file |
| Gates (`gates.py`) | none | parse, resolve, evaluate | malformed assertions, missing metrics | a mistake in an assertion costs no measurement |
| Regression (`regression.py`) | the history | choose a baseline, compare each column | runs of other settings, other selections, busy moments | a machine that has not changed is not accused; a loss is seen |
| Checkup (`checkup.py`, `interference.py`) and its readers (`system.py`, `thermal.py`, `health.py`, `container.py`, `provenance.py`, `drivelife.py`) | evidence by area, findings | gather, probe, check, rank, verdict | sources and checks that fail; the measurement heats and loads the machine it judges | no bad news is lost; the measurement is not blamed; the verdict is that of the worst finding |
| Menu (`wizard.py`, `tui.py`) | a stack of screens, the record of answers, a widget, bytes of keys | next, Back, Quit, confirm; keys, typed answers | skipped steps when going back; answers that no longer stand; a key that arrives in pieces | the command is made of the answers that stand; going back leads out; an answer is what the user chose |
| Sustained load, power (`sustained.py`, `power.py`) | windows, a pool, burn processes, a sampler | window, share, abort; start, ready, read, stop, join | thermal abort between windows; processes that come up late or are killed; two threads on one list | what was measured is kept and says what it is; load stops with the run |
| Core layout (`cores.py`) | the gain of each worker | measure, classify | causes that look alike | a cause that is named is there |
| Native engines (`native.py`, `accel.py`, `thermal.py`, `drivelife.py`) | an executable beside its source | build if older, run | compilers that fail or are killed; two runs at once | no figures of an engine older than its source |
| Plugins (`plugins.py`) | list of plugins | discover, run all | one bad plugin among good ones | a bad plugin costs only its own result |
| Installer (`install.py`, `optional.py`) | packages of two interpreters, the environment | look, ask, create, install one by one | what is asked of one interpreter and needed in another | one package that cannot be had costs one |
| GPUs and neural accelerators (`gpucompute.py`, `npu.py`, `onnx_model.py`) | devices, what each came to, a model file | measure one by one, classify, select, write the model | what a device is and where an operator ran is inferred; any of them fails; runs share the file | what is scored is what it is called; a failure costs one device |
| Exports (`export.py`) | a scraped file, a database, two files written in place | write, replace; insert, commit | kills and failures in the middle; runs with the same targets | what is scraped or queried is whole; what was reported is there |
| Kernels, scores | none between calls | compute | floating-point data | (section 7) |

How they interact. `cli.main` calls the tests and owns the results; tests ask
`limits` for sizes; the burn-in and the sustained load run pools of processes and
ask `thermal`/`limits` when to stop; the disk tests of two invocations meet in the
filesystem only; `append_csv` of every invocation meets every other in one file,
which the next run's regression check and the `--compare` table read.

## 2. The modules

| Module | Models | State and actions |
|---|---|---|
| `Soak` | `soak.run`, `_worker`, `verdict` | `pc[w]` is where a worker stands (`Round`, `Raise`, `Reset`, `Finish`, `FinalPut`, `Exit`); `buffer[w]` is the feeder thread's queue, `pipe` the queue's pipe, `feeder[w]` who has its write lock (`Feed`, `Release`; a killed worker keeps it); `phase` is where the parent stands (`Watch`, `Take`, `Drain`, `Measure`, `CtrlC`, `Stop`, `Empty`, `Last`, `Escape`); `Crash`, `Terminated`, `KeyboardInterrupt` and `TimeUp` come from outside. A wrong answer is <<worker, round, kind>>. |
| `SoakPromise` | what a burn-in promises | a ledger: answers found, counted, and a count that is closed once, eventually if nothing is `stuck` |
| `SoakProofs` | | theorems about `Soak` |
| `CliRun` | `main`, `config.apply`, the menu's round trip, plugins, gates, writers | `said` is what was said where; `pc` goes from the settings over the modes and the checks to the tests, the sections in `due`, the writers and the exit code (`Calls` says where it has called something that may take for ever); `probe` and `other` are the probe file and another run in the same directory |
| `MCCliRun` | | an invocation (`CliRun`), a checkup (`Checkup`) or a screen of the menu (`Widgets`), and which invocations and machines are explored |
| `CliProofs` | | theorems about `MCCliRun`: `CliRun`, `Checkup` and `Widgets` |
| `Wizard` | `wizard.py` | a stack of `frames`, each with its flow, step and the way it goes; the record of answers; `Meant` derives the command from the answers that stand, `Argv` as the code does |
| `Widgets` | `tui.py` | keys as bytes on a `wire`, taken by `_read_posix` with its timeout; list, checkboxes and text field with their typed stand-ins |
| `Limits` | `limits.py` and the sizes the tests derive | operators only |
| `DiskScratch` | `bench_disk`, `_clean_stale_files`, `run_job`, `storage.run`, for several invocations | one `pc` per run; `entries`, `size`, `old` are the directory, `held` the open files, `room` the filesystem; `workdir` says whether `storage.run` made the directory; `Minute` ages files, `Kill` ends a run anywhere |
| `DiskScratchProofs` | | theorems about `Limits` and `DiskScratch` |
| `MCDiskScratch` | | symmetry of the runs, and which combinations are explored |
| `QueueDepth` | threads of the sweep and of an I/O job, with `DirectReader` | `at[t]` follows a thread from `Open` and `Probe` (`Starve`: no memory for the buffer) through `Seek`/`Io` to `Close`; the caller is `Stop`, `Join`, `Joined`, `Sum`, `CloseShared`, and `Sync`, the fsync of a job that writes. `pread` (platform) and `job` (which code calls) are chosen at the start and never change |
| `QueueDepthProofs` | | theorems about `QueueDepth` |
| `Sums` | | theorems about sums over finite sets and least numbers, for the modules with `Proofs` in their name |
| `NetPeer` | `serve`, `_serve_one`, `measure_throughput`, `measure_latency` | clients connect to a backlog, send and wait for echoes; the server accepts one, reads it to its end; `up` and `back` count what is on its way |
| `NetPeerProofs` | | theorems about `NetPeer` |
| `History` | the save block of `main`, `save_json`, `append_csv`, `load_history` as a property | a file is known by the run that created it, so names (`csv`, `baks`) and descriptors (`fd`) are apart; one action per statement |
| `HistoryProofs` | | theorems about `MCHistory`: `History`, `Regression` and `Exports` |
| `Regression` | `regression.analyze`, `_baseline`, `_mad` | `history` grows run by run, each with settings, a moment and a state of the drive; `accused` is what the last run is told |
| `Exports` | the four writers of `export.py` as `main` calls them | `at[r]` goes from writer to writer; `temps` and `prom` are the files of the collector, `writer`, `pending` and `rows` the database, with its one write lock |
| `MCHistory` | | how a history is written (`History`, two versions among the runs), what a run is told from it (`Regression`), or the exports (`Exports`) |
| `Readers` | where each value of the checkup's evidence comes from | operators: for each platform the ways to a value, each a set of tools and files that must work; a SATA drive is `Overlooked` beside a readable NVMe |
| `Checkup` | `gather`, `probe`, the eleven checks, `analyse`, `verdict` | a table of rules (check, fact, evidence it needs, earlier branches, severity); sources, measurements and checks that fail |
| `Sustained` | `run_sustained` with its pool | `Load` and `Share(w)`; heat comes and goes, a worker may be killed, Ctrl-C |
| `Power` | `measure_under_load`, `energy_to_solution` | processes from `starting` to `ended`, ready and stop events; the sampler's two appends against the caller's reading |
| `Engines` | the four helpers that are compiled and run | `source` and `binary` with their times; several callers at once, compilers that fail or are killed |
| `Installer` | `install.main`, `optional.missing` | what either interpreter can import, the places in the chosen tiers whose package is still to be tried, the exit code |
| `Loopback` | `network._throughput`, `_latency`, `sysbench.bench_context_switch` | caller and thread, a connection of `Room` units or a pair of events |
| `Cores` | `scaling_curve`, `classify_cores` | machines of fast and slow cores and second threads; the gains, one by one, and the cause that is inferred |
| `Interference` | the samples around each test and what they are taken for | a load average that follows the number of running threads, in quarter minutes |
| `Internet` | `internet_speed` and what it measures | measurements in order, each may fail; bytes received, sent and answered to an upload, time elapsed |
| `Accelerators` | `gpucompute.run`, `npu.run`, `onnx_model.write_model` | devices or providers in `turn`, what each `measured`, the one that is `best`; another run may be at the model file |
| `MCSubprocesses` | | the last nine, one in a behaviour: `main` runs its sections one after the other and each starts from nothing |
| `SubprocessesProofs` | | theorems about `MCSubprocesses` and its parts |

How they fit together. `Wizard`'s command lines are the `Menu` of `CliRun`;
`CliRun`'s save step is what `History` takes apart; `History`'s rows are what
`Regression` reads; `Readers` is extended by `Checkup`; `Limits` is extended by
`DiskScratch`. Where two modules share no state, they are in one
composition only so that one run checks both: `subject` says which of them
moves, and the others stay in one state.

Conventions. An action is a whole statement or group of statements between which
nothing another actor does can be told apart; whatever the code does in a
`finally`, in an exception handler or on the way out of a function is in the
action that leaves. Variables that say what the machine is like (`pread`, `job`,
`parallel`, `meter`, `own`, `slowRate`, `host`) are chosen at the start and never change,
so that one run covers every case. Definitions whose names pair up, such as `Stale` and
`AnyAge`, are the code's expression and a plausible wrong one; the wrong ones occur in no
specification and are the mutants that `PROJECT.json` lists, at least one per property.

## 3. The runs

| Run | Instance | What it shows |
|---|---|---|
| `SoakTwoWorkers` | 2 workers, 1 round, 1 kind that may raise | `LossNeedsADeath`, `SurvivorsFullyCounted`, `NeverOvercounted`, `CreditedUnitsAreJudged`, `TypeOK`; `PromiseKept`: `Soak` implements `SoakPromise`, with its liveness |
| `CliRun` | every flag alone, in every origin and value, pairs of the 17 that meet in `main`, 5 answers of the menu | `ExitTellsTheWorst`, `TypoCostsNothing` (a bad setting ends the run before anything was measured), `ReportsLoadNothing`, `MainReturns` |
| `Wizard` | all flows | `CommandIsTheAnswers`, `BackLeadsOut` |
| `Disk` | 2 runs or one with 2 repeats, 2 process ids, filesystems of every size up to 8 MB, kills, ageing, with and without the working directory | `HeadroomKept`, `OkWroteEverything`, `NothingIsLeftBehind` (neither files nor directory), `FilesAreTheirOwners` (none is taken away or shared) |
| `QueueDepth` | 2 threads, batch 2, 2 operations, both platforms, sweep and job | `OwnDescriptorsLand`, `DescriptorsEndInOrder` (none is used after its close, none is left), `NeverOverstated`, `CallerEnds` |
| `NetPeer` | 2 streams, 1 prober with 2 probes of 2 pieces, backlog 2 | `SenderIsNotAhead`, `OwnEchoUnlessLost`, `EveryoneIsServed` |
| `History` | 3 runs of 2 versions, 2 seconds; histories of 4 runs; 2 runs that export | `RowsUnderTheirHeader`, `SavedIsKept`, `SteadyIsNotAccused`, `LossIsSeen`, `ExportsAreWhole` |
| `Checkup` | on every platform, machines with 2 troubles, with 2 tools, sources or checks that fail, or with one of each; widgets of 3 and 12 options on a screen of 3, 3 keys | `NoBadNewsIsLost`, `OwnLoadIsNotBlamed`, `VerdictIsTheWorst`; `AnswersAreTheUsers` (Widgets) |
| `Subprocesses` | see the bounds | `AbortCostsNothing` (Sustained), `PowerSaysWhatItIs` (Power), `FiguresAreOfWhatTheyName` (Engines, Accelerators), `OneFailureCostsOne` (Installer, Internet, Accelerators), `TrafficIsCapped` (Internet), `TimedIsHandedOver` (Loopback), `BlameIsFounded` (Cores, Interference), `WhatIsStartedEnds` (Sustained, Power, Loopback) |

Three runs are expected to find a violation; each is a disagreement between the
code and something the repository says, quoted in `PROJECT.json`:

| Run | The code |
|---|---|
| `SoakEveryMismatchCounted` | `zlib.decompress` raises on a corrupted stream (soak.py 65): the worker ends, its wrong answer is not counted, and the verdict can be STABLE |
| `MenuReturns` | Back on the main menu is raised out of `wizard.run` and of `main` (wizard.py 867) |
| `SettingsChange` | the composite is compared across settings its parts depend on (regression.py 48), so another `--disk-mb` is reported as a regression |

The modules define more statements of this kind that TLC refutes when they are
named as an INVARIANT or a PROPERTY of the runs' instances. They are no runs, to
keep a run for each distinct lesson. The comment above each quotes what it states.

| Module | Statement | Why it does not hold |
|---|---|---|
| `Soak` | `ReturnsAfterItsDuration` | a worker killed with the queue's write lock, or in the middle of a message, leaves the parent waiting (soak.py 166, 171) |
| `Soak` | `CtrlCKeepsFindings`, `AbortSawNoWrongAnswer`, `RunsItsDuration` | a message taken when Ctrl-C comes is dropped; an abort terminates workers that hold answers not yet reported; a run whose workers all crashed ends early |
| `CliRun` | `CommandLineWins` | a flag given with its default value counts as not given (config.py 211) |
| `CliRun` | `BadJobCostsNothing`, `GateErrorsUpFront` | a bad `--io-job` or a `fail_under` of nan is found out after the tests (cli.py 1192) |
| `CliRun` | `WritableIsNotRefused` | two runs share the name of the probe file (cli.py 580) |
| `Wizard` | `NothingUnconfirmed` | a shortcut of the main menu starts at once (wizard.py 737) |
| `Widgets` | `BackIsAKey` | a key whose bytes come late is taken for Esc (tui.py 141) |
| `DiskScratch` | `ConcurrentRunUndisturbed` | the cleaner's minute counts from the last write (workloads.py 568): a run that reads for longer loses its file |
| `DiskScratch` | `FilesystemNeverFull`, `RunUnderCap`, `OnlyTempsRemoved` | free space is read early; a job writes on in its time limit; the file of an I/O job, which `mkstemp` did not make, is removed too |
| `QueueDepth` | `SweepLandsWhereAsked`, `JobLandsWhereAsked` | without positional reads or writes threads share a position |
| `NetPeer` | `StreamsShareThePeer` | `serve` reads one connection to its end before it accepts the next (network.py 324) |
| `NetPeer` | `EchoIsOwn` | after a timeout the late echo is taken for the next probe's (network.py 469) |
| `History` | `HistoryReadsBack` | an append that fails after its `open` leaves an empty file, and the next row is its header (report.py 1170) |
| `Checkup` | `NoDriveIsOverlooked` | `smartctl` is asked only if no NVMe drive answered (drivelife.py 134-142): a SATA drive beside one is never looked at |
| `Checkup` | `ListedCausesAreFound`, `EveryCheckRanOrSaidSo` | two readings are asked for under names no reader uses (checkup.py 667); of a source that fails no check says what was not looked at |
| `Power` | `NoEstimateInAMeasurement` | one real reading makes an integral of estimates a measurement |
| `Engines` | `NeverRaised`, `CutShortIsMadeAgain` | an executable cut short is newer than its source, and running it raises (native.py 173) |
| `Installer` | `ResolvedWhereItGoes` | versions are looked up in the interpreter that installs (optional.py 216) |
| `Cores` | `NoFalseHybrid`, `NoFalseSmt` | a last fast core that adds 58%, as cores.py 107 measured one, looks like a slow core on a uniform machine; so do second threads without the physical count; a lossy last core looks like a second thread |
| `Interference` | `NoneBlamesItself` | the encoder uses several cores and is not among the tests that are exempt (interference.py 21) |
| `Accelerators` | `MatmulNeedsNoOpenCL` | `main` does not call `gpucompute.run` without pyopencl (cli.py 1117), so PyTorch's matmul is not measured there, which `_without_opencl` is for |
| `Accelerators` | `MemoryDecides`, `GpuFigureIsOfAGpu` | names are looked at before the memory (gpucompute.py 108); an OpenCL device of the CPU ranks before integrated GPUs (133) |
| `Accelerators` | `MeasuredIsReported`, `ModelStaysWhole` | a platform that fails discards what others measured (405); the model is written in place while another run may read it (onnx_model.py 153) |
| `Exports` | `ReportsAreWhole` | the Markdown and JUnit files are written in place |
| `Internet` | `NeverRaises`, `UploadIsAQuarter`, `AnswersAreCapped` | an address that cannot be parsed or encoded raises; the probe is sent on top of the quarter; the answer to an upload is read to its end (network.py 699) |

### Bounds, and why they are enough

- *Soak*: one round and a last report per worker is two messages, the least with
  which a cumulative and an incremental count can disagree; with two workers every
  race of one worker's last report with another's death exists. `MaxRounds` bounds
  the rounds; the proofs have no bound.
- *CliRun*: `SomeInvocations` has every flag alone, which meets every check of its own, and
  every pair of those that `main` looks at together. Two tests are the least of which one
  fails and one does not.
- *Wizard*: no bound on going back and forth, since a state is the stack and the record.
- *Widgets*: `MaxKeys` bounds the keys of a widget, which is enough to move past the edge of the shown
  part (`Room`) and to choose, and for a key cut in two between two others.
- *DiskScratch*: `Capacity` bounds the filesystem; sizes are a few blocks of
  `DISK_BLOCK_MB`, so that the last block may be short and every clamp is met from
  both sides. Two runs are the least that share a directory, and two process ids let
  one come back. `MaxJobWrites` bounds what a job writes after its file is filled.
  `RepeatsAlone` keeps a run of two repeats and another run from overlapping; what runs
  do to each other happens within one repeat.
- *QueueDepth*: two offsets, where positions matter; a batch of two separates "stops
  between reads" from "stops between batches"; two threads share the position of one
  descriptor. `MaxOps` bounds the operations of a thread.
- *NetPeer*: a buffer smaller than a payload makes a sender wait in mid-payload; two
  pieces make an echo arrive in parts; two probes let the first one's echo meet the
  second; three clients against a backlog of two fill it. `MaxSends` bounds the
  payloads of a stream.
- *History*: with three runs one archive can overwrite another; `Seconds`
  bounds the clock, and two values are enough for archives to collide or not.
- *Regression*: `MaxRuns` is four: the least history with which `analyze` judges
  (three earlier runs) and one that may be another's exception.
- *Checkup*: `SomeMachines` has two troubles or failures in all: two troubles are the least
  of which one can hide the other, two failures let a fallback fail too.
- *Sustained*: windows up to `MaxWindows`, twice the heat at which it aborts.
- *Power*: three processes can be one ready, one late and one not started;
  `MaxSamples` readings can be one real among estimates.
- *Engines*: `MaxClock` ticks order two writes of the source and a build; two callers.
- *Loopback*: fewer units in flight (`Room`) than are sent (`MaxUnits`); `Rounds` is more
  than the turns after which the events are in the same state again.
- *Cores*: up to four fast and three slow cores, with `SlowRates` on both sides of both
  thresholds and a last fast core that adds a full core, loses a third to shared caches, or adds
  the 58% that cores.py 107 measured (`LastRates`); on these the linear prefix ends before, at and after the physical count.
- *Installer*: `SomeSelections` has one tier, a tier named twice and tiers that have a package in
  common, so that one is tried once though it is in two places.
- *Interference*: `MaxTests` tests of up to `MaxQuarters` quarter minutes, after which
  a load average of a minute has taken over most of a change.
- *Internet*: a budget of a probe and one whose quarter is more than a probe; `Replies`, the answers to
  an upload, have nothing to say or more than any budget.
- *Accelerators*: two devices or providers, with `Speeds` below and above what a run on the
  CPU comes to (`Noise`, which stays under `ENGAGE`).
- *Exports*: two runs are the least that compete for the lock and that can have one process id
  one after the other.

### Fairness and deadlock

Fairness is assumed of what the operating system schedules or what a timeout
enforces, never of people, faults or other machines.

- *Soak*: weak fairness of each worker, its feeder, the parent, the delivery of
  SIGTERM, and the clock. Crashes, heat, raising units and key presses are never owed. A
  feeder waits for the write lock, and whoever dies with it keeps it: the promise to end is made
  for the runs in which nobody did (`Stuck`).
- *CliRun*: weak fairness of what `main` does between its calls (`FairAll` in `MCCliRun`). That a
  call returns is not owed: `--net-server` serves until somebody stops it (cli.py 840), a menu waits for
  its user, and a measurement, a test or a section may hang. So `MainReturns` says that the program
  ends or stays in such a call for good.
- *Wizard*: weak fairness of leaving and of skipping, which are steps of the program;
  the user owes nothing.
- *QueueDepth*: weak fairness of the caller only. Its joins time out (workloads.py
  995), so it must end although threads hang; the threads are owed nothing. Nor is `Sync`: the
  `os.fsync` of a job that writes (iobench.py 293) has no timeout, and `CallerEnds` excepts a caller
  that stays in it.
- *NetPeer*: weak fairness of the server, of the clients' own steps (their socket
  timeouts included) and of the stop event at the end of the measurement. Nobody
  has to press Ctrl-C, and machines that vanish are never owed.
- *Subprocesses*: weak fairness of `run_sustained` and of each share, of
  `measure_under_load` and of each burn process, and of both threads of
  Loopback. A worker that was killed is never owed, and `LoadEnds` excepts the run it
  leaves waiting (sustained.py 174).

Deadlock is checked in the other runs: where a program has ended, the model has an
explicit step that changes nothing. `Subprocesses` does not check it, because
its parts end and have no such step: that they end where they should is what
`WhatIsStartedEnds` says.

## 4. What is proved

`SoakProofs`, for any set of workers, any kinds and any number of rounds:

- `TypeCorrect`: `Spec => []TypeOK`.
- `CreditIsJudged`: `Spec => []CreditedUnitsAreJudged`. The verdict's "N validated work
  units with zero wrong answers" never counts a round whose wrong answers the parent
  has not seen.
- `NothingIsDropped`: `Spec => []LossNeedsADeath`.
- `NothingIsCountedTwice`: `Spec => []NeverOvercounted`.
- `SurvivorsAreCounted`: `Spec => []SurvivorsFullyCounted`.
- `LedgerIsKept`: `Spec => Promise!Spec`, the refinement: the initial states of `Soak` map to
  those of `SoakPromise`, and each step to a step of the ledger or to none. Needed is that
  what the parent adds to its list was really found.

`CreditedUnitsAreJudged` and `LossNeedsADeath` are not inductive. The invariant
`IInv`, used with `TypeOK`, has three parts: `NoneAhead` (no message and no count
of the parent is ahead of its worker's rounds, and a feeder holds its own worker's messages only),
`Places` (a worker that may still report holds no wrong answer of a round it has not
completed; a worker in `lossy` has left its loop; a thermal abort or a Ctrl-C ends
the watching) and, while no Ctrl-C came, `Credit` and `Held` for each wrong answer:
wherever a message, in the hand, the pipe or the feeder, would credit its round, the
wrong answer was reported already or travels no later than that message; and
it has been sent, is still in the list of a worker that will send it, or its
worker is in `lossy`. The order is the point: the parent takes the largest
round count it has seen, so a report that overtook the one with the error would
break the claim, and the invariant says that none does. Each action has a lemma (`QuietSteps`, `PutSteps`, `FeedStep`,
`TakeStep`, `DrainStep`, `DropSteps`, `ListStep`, `CtrlCStep`), and `InvStep` joins them.

That a worker dies with the write lock, or in a message, changes none of this: what it held is lost
with it, and nobody reads it.

The count of errors needs a second invariant. `Real`: whatever is reported, in the hand or in
the pipe was found by the worker it names. `AllOnce`: while no Ctrl-C came, a wrong answer is
in at most one of the parent's list, its hand, the pipe, its worker's feeder and a list that
will still be sent; since the parent adds what it takes, a second place is a second count
later. `AllTold` and `Quiet` are for the last drain: a worker that left its loop in order has
told its final rounds or the message that does is on its way, and when the parent stopped
because no process was alive, no feeder can send more, so that an empty pipe is the end.
Assumed: `SoakAssumption` (raising kinds are kinds; the bound is a number).

`DiskScratchProofs`, about `Limits`, for every request, machine and number of repeats:

- `MemoryShare`: a clamped buffer is at most 1/`MEM_PARTS` of the memory, on machines
  where the floor is not larger than that.
- `WearIsCapped`: what the disk test writes over all repeats is within the cap, as long
  as the cap allows the smallest file to each repeat.
- `DisclosureCovers`: the volume that is disclosed beforehand is not less than what is
  written.
- `ClampedFileFits`: if the smallest file fits with its headroom, the clamped one does:
  the test is never skipped because the clamp was too generous.

They rest on lemmas on minima, maxima and division (`MinMax`, `DivFacts`, `Monotone`,
`DivMonotone`, `DiskClamp`). Assumed: `LimitsAssumption`.

and about `DiskScratch`, for any runs, process ids, numbers of repeats and space:

- `TypeCorrect`; `NothingStays`: `Spec => []NothingIsLeftBehind`; `FilesBelongToRuns`:
  `Spec => FilesAreTheirOwners`, an action property. The invariant says what a run holds by
  where it is (`Holds`), that live processes have different ids (`Distinct`), that every entry
  is held by a run or was left by one that was killed (`Owned`), and that the shared directory
  is there for somebody (`DirUsed`). Names are made of process ids that come back, so a name
  alone does not say whose file it is.
- `HeadroomStays`: `Spec => []HeadroomKept`. `SpaceInv`: names to come are unused, a job's
  file is as long as what was written of it, and free space is never negative: the sum of all
  sizes grows by what one write adds (`Sums`).
- `OkMeansWritten`: `Spec => []OkWroteEverything`, from `Written`, which follows the bytes of
  a run alone on its filesystem from its plan to its result, with `ClampedFileFits`: the
  plan leaves a third of the space free, so that no write of it fails.

Assumed: `DiskAssumption` (finite sets of runs, ids and repeats, limits that are numbers).

`QueueDepthProofs`, for any finite set of threads, any batch and any number of operations:

- `DescriptorsAreClosed`: `Spec => []DescriptorsEndInOrder`; `OwnDescriptorsAreTheirOwn`:
  `Spec => OwnDescriptorsLand`, an action property. A thread owns a descriptor exactly where
  `Holds` says so, whatever failed between the open and the probe, and beside that the one for
  whose buffer there was no memory (`Lost`), which nothing closes; its own descriptor stands
  where the thread put it (`Aimed`); the caller goes on without a thread only if that is over
  or a join gave up (`Parted`).
- `RateIsNotOverstated`: `Spec => []NeverOverstated`. `Backed`: a thread's count, and its
  count with the batch under way, is at most what it transferred; the total compares term by term.

Assumed: `QueueAssumption` (the shared descriptor is no thread, a batch is not empty).

`NetPeerProofs`, for any clients, probers, payloads and buffers:

- `TypeCorrect`; `SenderKeepsPace`: `Spec => []SenderIsNotAhead`; `EchoIsItsOwn`:
  `Spec => []OwnEchoUnlessLost`. The invariant is conservation. `Flow`: what a stream has
  handed over, the finished payloads and the part of the one under way, has been read or
  is in the buffer. `Echoed`: the units a prober has sent are heard, on their way back or
  on their way there; before the first loss they are those of the probe under way, which is
  why its echo is its own.

Assumed: `NetAssumption` (streams and probers are different clients, the bounds are numbers).

`HistoryProofs`, for any runs, versions and clock:

- `SavedRowsAreKept`: `Spec => []SavedIsKept`. A file with a saved row, or open for one, has
  a name, unless two runs archived in one second (`Kept`); an archive belongs to the run
  whose stamp it carries (`Archived`), so a rename onto it is such a collision.
- `RowsStandUnderTheirHeader`: `Spec => []RowsUnderTheirHeader`, from `Orderly`: as long as no
  two runs append at once and none was cut in the middle, what the appending run has
  seen of the file still holds when it writes (`Knows`), only the file in its hands
  is empty (`Filled`), and every listed file is whole.

- `TheSteadyAreNotAccused`: `AllSpec => []SteadyIsNotAccused`, for a history of any length. `Told`:
  what the last run was told is `analyze` of its row and the rows before it, each of which was
  made on the machine as it was (`Made`). What a row is compared with is made of earlier rows like
  it (`CandidatesAre`); if most of them have one value, that is the median (`MedianIsMost`), so the
  baseline is a speed at rest (`BaselineIsAtRest`).
- `TheLossIsSeen`: `AllSpec => []LossIsSeen`: the baseline is the full speed, most
  deviations from it are zero (`NoSpreadOfMost`), and half of it is below any tolerance.
- `TheExportsAreWhole`: `AllSpec => []ExportsAreWhole` (`Published`: live exporters have
  different process ids, so a part of a file under an id is its holder's; `Ready`: a run that is
  about to replace the scraped file has written all of its part, and one about to commit has
  both of its rows in the transaction).

Assumed: `HistoryAssumption` (the clock is bounded by a number, no run is called "none").

`CliProofs`, for any set of invocations and anything that the menu may return:

- `ExitCodeTellsTheWorst`: `AllSpec => []ExitTellsTheWorst`; `TyposCostNothing`:
  `AllSpec => []TypoCostsNothing`; `ReportsNeverLoad`: `AllSpec => []ReportsLoadNothing`.
  `CliInv` has three parts. `Settled`: where the settings of the command line, the environment,
  the file and the menu have been merged, and which of them are known to be well-formed.
  `Measured`: nothing was measured before the modes and the checks, so what was measured was asked
  for by an invocation that wants no report. `Judged`: a result that was printed has been
  through the gates, and the code says how. `ModeIs` is the order of the modes in `main`: it
  is what makes a report win over everything that measures.

and for any machines, with whatever troubles and whatever broken:

- `BadNewsIsReported`: `AllSpec => []NoBadNewsIsLost`; `OwnLoadStaysUnblamed`:
  `AllSpec => []OwnLoadIsNotBlamed`; `TheVerdictIsTheWorst`: `AllSpec => []VerdictIsTheWorst`.
  `CheckupInv`: `Gathered` says which evidence is held after each section, by what the machine is
  and what answers on its platform; `Analysed` says that the findings are those of the rules whose
  evidence was held, and that a rule which gives way to another has that one among them;
  `Sentence` ties the verdict to the findings. What gives way is the point of the first: a
  critical rule gives way to none (`RulesAreSane`), and of each warning that does, the rule
  before it is about the same trouble and worse (`Subsumed`). Known is what a reader gets to: of
  a SATA drive beside a readable NVMe none does (`Overlooked`), and nothing is claimed. The program's own load is read
  from two sources that come before the measurement (`OrderOnce`).

and for a screen of the menu with any number of options, any height and any number of keys:

- `TheAnswersAreTheUsers`: `AllSpec => []AnswersAreTheUsers`. `Asked` is about the widget: its
  cursor and its marks are options, and an answer is one the question allows (`Reacts`, for
  every key; `Prompts`, for every typed line, with `OrderedIs`: a set of numbers put in
  order has each of them once, which is why an answer names no option twice). `Listens`
  is about the keys: as long as the reader was not cut short, what was heard is how
  the keys pressed begin, and the bytes that it holds, that have arrived and that are still to
  come are those of the other keys (`Outstanding`: they can be split into chunks, with the
  names of the keys in their order). A chunk is taken as a whole and never for less
  (`Chunk`, `KeysSpell`); what follows an escape begins no sequence unless it is one, so an escape
  that is joined to the next byte leaves the screen all the same (`Takes`, `Reacted`). A key
  that leaves is of a byte that only that key has (`Leaving`). `OneMore` and `OneLess`
  are a key that is pressed and one that is heard; `HeadMoves` and `PartsJoin` say
  that moving bytes and cutting keys in two changes nothing about the whole.

Assumed: `InvocationsAssumption` (a number typed that is none, or a switch typed with a value, never
gets past `parse_args`) and `ScreensAssumption` (a question has options and a screen has room for one).

`SubprocessesProofs`, for any instance of the nine parts of `MCSubprocesses` with `Bounds`
(`PartSteps`: a step of the whole is a step of one part or leaves it alone):

- `TransfersAreLimited`: `Spec => []TrafficIsCapped` (`InternetInv`: received and uploaded by stage;
  the body is cut to the ceiling whatever the probe's speed was, `BodyFits`). It limits each
  direction for itself, and the download by its budget and the rest of a chunk, the upload by the
  probe and the ceiling; what a server answers to an upload is read without a limit.
- `TimedWasHandedOver`: `Spec => []TimedIsHandedOver` (`Drained`: taken and on its way is what
  was sent; `Echoed`: one byte is in flight exactly while the caller waits for it;
  `Alternating`: where the two threads are, with the two events, is one of four cases).
- `WindowsAreKept`: `Spec => []AbortCostsNothing` (`SustainedInv`: the windows measured are
  the time that is gone).
- `FiguresSayWhatTheyAre`: `Spec => []PowerSaysWhatItIs` (`PowerInv`: as long as the load was
  not told to stop a process that is ready burns; the sampler's two lists differ only
  between its two appends, and they agree once it was joined).
- `FiguresNameTheirEngine`: `Spec => []FiguresAreOfWhatTheyName` (`EnginesInv`: an executable
  that is not older than the source was made of that version or a later one, and so was the one a
  caller found good; `AcceleratorsInv`: devices are timed in order and nothing is
  best before all of them were).
- `FailuresCostThemselves`: `Spec => []OneFailureCostsOne`. For the installer, of any selection of
  tiers, `PackagesInv`: what was tried and what is still to be tried are what was missing, each
  once, and what comes later is later in the order of the tiers (`PlacesAreOrdered`), which is
  why a package that makes another unnecessary comes before it. For Internet and Accelerators,
  `FailuresInv` and the invariants above.
- `CausesAreReal`: `Spec => []BlameIsFounded`. For Cores, of machines of any size, `CoresInv`: the
  n-th gain is what the n-th worker adds. With siblings that add less than a core the leading run
  ends at the last core or one before it (`LinearIs`); and if all cores are alike, the slow group
  is the last core alone at most, which is not slow enough for a hybrid unless its rate is below
  `HybridPercent`: the others average a full rate at most (`TotalAtMost`). Where it is below, the
  code does call a uniform machine hybrid (`NoFalseHybrid`).
- `CulpritsAreThere`: for Interference. Undisturbed, the load average tends to the one thread
  that is running and stays below the threshold.

Assumed: `Bounds`. Some of its conditions are about the world: `Threshold` is at least the
code's `LOAD_DELTA_THRESHOLD`, a quarter for each core; what a run on the CPU comes to
(`Noise`) is below `ENGAGE`, as npu.py takes it to be; a second thread of a core adds less
than `LinearPercent` of one. Of the last fast core nothing is assumed.

`Sums` has the facts about sums over a finite set that `QueueDepthProofs` and
`DiskScratchProofs` rest on, and the greatest element that `SubprocessesProofs` needs. They
are inductions, which the library states with an operator for a parameter that the provers
cannot instantiate; here they go by the least counterexample instead. The library's
`WFMin` for the numbers gives a least number of any set of numbers (`LeastNumber`), hence
a smallest set among those for which a claim would fail (`SmallestSet`), and taking one element
out of it contradicts that.

Checked by TLC only:

- liveness, which the prover does not handle under fairness: the fair part of `PromiseKept`,
  `MainReturns`, `BackLeadsOut`, `CallerEnds`, `EveryoneIsServed`, `WhatIsStartedEnds`;
- `CommandIsTheAnswers` of `Wizard`, which has no constants: TLC visits all of its states, so
  that there is no instance left to prove it for;
- the statements that hold of no instance, which the runs `SoakEveryMismatchCounted`, `MenuReturns`
  and `SettingsChange` refute.

## 5. Abstractions a reader should know

- The four units of the burn-in are a set of kinds; that a kind goes wrong is a
  choice. The temperature is one bit. A killed feeder may leave half a message, as one longer than
  the pipe's atomic write does, and the write lock, as on POSIX; on Windows the queue has none, and
  the model has more behaviours than the program. The last drain's 5 s (soak.py 202) are taken to be
  enough for what is in the pipe.
- CliRun has three values of a flag: its default, a good one and one its parser
  refuses; what a section measures is nothing but that it ran, failed or raised.
- Wizard has one answer for all texts with the same effect, and a command line is the set of
  its words. Widgets has the keys of xterm; drawing is left out.
- DiskScratch has the filesystem of POSIX, where an open file can be removed. Only
  runs of pcbench write to it. A Ctrl-C comes inside the `try`: one between
  `mkstemp` and the `try` (workloads.py 476-478), or in the `finally`, would leave the file as a kill does.
- QueueDepth keeps of the many ways `DirectReader` opens a file that one may open a
  descriptor of its own, share the caller's, fail in its probe, or get no memory for its buffer
  between the two (workloads.py 716, 774; on macOS there is no buffer, and the model has more
  behaviours than the program).
- NetPeer and Loopback rely on TCP for order and integrity; a direction of a connection is a
  number of units.
- History has the whole seconds of `timestamp_utc`; a row is the run that wrote it. The
  write of header and row is one step, because both are in one buffer far below its
  size.
- Regression's speeds are whole numbers and its columns are grouped by what they
  depend on. Checkup's evidence is the set of thresholds that are passed, and its findings are a
  set: the order among equally severe ones is left open. Cores has no noise in the gains, and
  Interference rounds the load to thousandths.
- Engines' sources and executables are versions; what a helper prints is its data.
- Installer's packages stand for those of their tier that are got in the same way, and one is known by its
  place, a tier of the selection and a package of the tier.
- Accelerators' devices are the three things their class is made of. Power's burners do not die between their ready event and the reading. Exports' files are the run
  that wrote them and whether it wrote all; live runs have process ids of their own, as they
  do on one machine.

## 6. Plan

What is left, most important first:

1. `DiskScratch`: the wear cap for every run, which `WearIsCapped` gives for the sizes.
2. `History` and `Regression` as one behaviour, in which the history that a run is
   judged by is the one the interrupted runs before it left.

## 7. Not modelled

- Kernels and encoders (`apps`, `standards`, `datascience`, `mlbench`, `numeric`,
  `cryptobench`, the GPU kernels, the C engines' inner loops), the statistics
  (`stats`) and the scores (`scoring`, `reference`, `diagnose`): sequential
  computations on floating-point numbers that keep no state.
- `monitor.py`: a loop of one thread over the clock. Its power column stays empty: it asks
  the reading for `watts` (156), which `power.measure` returns as `package_w`.
- Readers whose values no decision of the program depends on (`hwinfo`, `numa`,
  `counters`, most of `health`).
- Rendering (`report`'s tables and HTML, `export`'s formats, `tui`'s painting): wording
  and layout.
- The comparison of figures in `gates.py`, the syntax of configuration files, the
  arithmetic of `_autoscale`.
- Temperatures in `interference.py`, and the pinned map of `cores.py`.
- `network.run_external`, which does less than the internet test with the same parts.
