# Scrutiny in TLA+

Scrutiny (`src/`, Go and one eBPF program) watches a running process, writes what
it did over one or several runs as a *baseline*, captures it again as an
*observation*, and compares the two: anomalies, a score, a verdict and a
Wazuh-style alert level.  This directory models the parts of it that keep state
or decide something, checks them with TLC on small instances, and proves some of
the results with TLAPS for every size.

## 1. Inventory

| component (source) | state | operations | interacts with |
|---|---|---|---|
| eBPF syscall sensor (`internal/sensor/ebpf/tracer.go`, `bpf/syscall_trace.c`) | maps `active`, `pid_filter`, `ns_info`; rings `events`, `file_events`; two channels; `stopCh`; the observation Collect builds | the probes `trace_sys_enter`, `maybe_emit_file`, `trace_sys_exit`; `NewSyscallTracer`, `SetTargetNS`, `TrackPID`, `Start`, `readLoop`, `fileReadLoop`, `Collect`, `recordSyscallEvent`, `Stop` | probes fill the rings on every CPU, two goroutines empty them into channels, Collect's select loop drains these |
| file classification (`ebpf/fsclassify.go`) | none | `buildFilesystem` | called by Collect on the recorded accesses |
| syscall table (`ebpf/syscall_table.go`) | none | number to name | generated |
| strace sensor (`internal/sensor/strace`) | the strace process, its stderr pipe, the observation, `done` | `Collect`, the scanner goroutine, `parseLine`, `record` | external process; goroutine and Collect share the observation |
| network collector (`internal/sensor/network`) | four maps of what was seen | `poll`, `finalize`, the parsers | reads `/proc/<pid>/fd` and the namespace's tables |
| process and memory collectors (`internal/sensor/procfs`) | children by pid, first uid, regions by range, peaks | two polls, two select loops | read `/proc` |
| Sysmon sensor (`internal/sensor/sysmon`) | none between captures | `Collect`, `MapEvents` | queries the Windows event log after the window |
| accumulator (`internal/baseline/merge.go`) | about twenty maps and counters | `New`, `AddRun`, `Build`, `Confidence`, `varianceNotes` | fed by `runBaseline`, once per run |
| analysis engine (`internal/analysis/analyze.go`) | none | `Analyze` and its seven diffs, weights, order, score, verdict, alert | reads two records |
| commands (`cmd/scrutiny/main.go`) | the record being built, the files | `runBaseline`, `runObserve`, `runAnalyze`, `captureAll`, `captureKernel` | compose everything above |
| schema (`internal/schema/baseline.go`) | none | record types, default weights | used everywhere |
| capability probe (`internal/sensor/capability.go`) | none | kernel version, capabilities and context to a backend | read by the commands |
| context detection (`internal/context`) | none | files and environment to a platform | read by the commands |
| stubs for other systems | none | return an error or nothing | |

What is hard here, and what makes each part correct:

* **Sensor.** Probes of several threads interleave with each other, with two
  goroutines, with Collect's timer and with Stop; both rings and both channels
  drop silently when full; the map that pairs an exit with its enter is keyed by
  thread and never cleaned.  Correct: an exit event carries the number and the
  latency of *its* call, the two events of a call keep their order, nothing is
  counted that did not happen, everything acquired is released on every path,
  a capture ends and leaves no goroutine behind.
* **strace.** An external process that may ignore SIGINT, writes into a pipe that
  may be full, cuts and resumes lines of interleaved threads, and begins them
  differently once it follows more than one.  Correct: each call printed in a form
  the parser takes is counted once, the shared map is never accessed by two
  goroutines, Collect returns.
* **Collectors.** `/proc` is read in several steps while the target changes.
  Correct: nothing of other processes is reported and no socket that is not
  in use, what lasts is reported as it is, results are read when they are complete, the select loops end.
* **Accumulator.** A union over many maps, each merged and rebuilt by hand, with
  run counts that decide the confidence.  Correct: nothing is dropped but the two
  fields Build leaves out, nothing is invented, counts are exact, notes are true,
  "high" means equal syscalls in three runs.
* **Engine.** Go's map order, a noise list that overlaps the watch list, capped
  sums, thresholds.  Correct: deterministic, monotone, the watch list wins, noise
  is inert.
* **Sysmon.** The events are asked for after the window, newest first, with a
  margin, by a process that takes time to start, and attributed by process ids
  that Windows hands out again.  Correct: nothing is reported that the target or
  a child of it did not do between the margin and the query, a query in time of a
  readable log misses nothing, and what is listed of an object is what happened to
  it last.
* **Probe and detection.** Rules in an order over the marks of a machine, and
  a gate (kernel 4.15) weaker than what the object needs (ring buffers, 5.8).
  Correct: the backend that is chosen works, eBPF is given up for a named
  reason only, and the paths marked as crossing to Windows are those that do.
* **File lists.** A map range in any order over accesses whose operation the
  kernel program chose.  Correct: the lists are a function of what was done.
* **Commands.** A target that exits between runs, another backend or host on
  the second capture, a query that fails, a record whose fields are replaced by
  another's.  Correct: a report names exactly what no baseline run had shown, so a
  baseline run analysed against its own baseline shows nothing new but what Build
  dropped; a high-confidence report rests on three runs.

## 2. Modules

```
Observer  <--implements-- SyscallTracer <- MCSyscallTracer    SyscallTracer_proofs
          <--implements-- StraceSensor  <- MCStraceSensor      StraceSensor_proofs
Collectors     <- MCCollectors                                Collectors_proofs
Ordered                                                       Ordered_proofs
Ordered <- SysmonMap <- MCSysmonMap                           SysmonMap_proofs
Ordered, Host, FileClassify <- KernelCapture <- MCKernelCapture  KernelCapture_proofs
Schema <- Accumulator                                         Accumulator_proofs
Schema, Ordered <- Analysis <- AnalysisEngine <- MCAnalysisEngine    Pipeline_proofs
Accumulator, Host, Analysis <- Pipeline <- MCPipeline                Pipeline_proofs
```

**Observer** is what every syscall sensor promises: the target makes calls, a
capture counts some of them, none more often than it was made, and what it has
returned no longer changes (`SafeSpec`); `Spec` adds that it does return.
SyscallTracer and StraceSensor contain the refinement mapping (`AsObserver`): the
tracer counts enters and file accesses (two paths through two rings, one promise),
strace counts lines.

**Ordered** defines sorting and selecting by the place each element gets, where a
recursive definition could not be proved about: `Pick` and `PickBack` keep some
elements of a sequence, forwards or backwards (Get-WinEvent answers the newest
event first), `Arranged` lists a set, `StableSort` sorts a sequence (the lists of
a capture, the anomalies of a report).  SysmonMap, KernelCapture and Analysis use
it.

**SyscallTracer** models one capture of the eBPF sensor.  `main` is the position
of Collect, from `NewSyscallTracer` (one action per resource, each with its
error path) to the last close of `Stop`; `held` are the collection, links and
readers.  A thread in a probe is in state "enter", "file" or "exit", so that the
probes of different threads interleave between the clock read, the map update
and the ring reservation.  `active` is the BPF map, with its bound and its
silently failing update; `Gtid` is its key.  `ring`, `events` and their file
counterparts are queues that drop when full (`HasRoom`).  `obs` holds what
`recordSyscallEvent` keeps; `accesses` is the slice.  `issued`, `finished` and
`recorded` are history.  Init lets threads be anywhere in their life, and the
probes are live before namespace and pid are set, as in the code.  A new thread's
first event is a return from clone without an enter; `exit` never comes back.
After closing a reader the error may or may not be identical to
`ringbuf.ErrClosed`: both outcomes of the comparison are allowed.

**StraceSensor** models strace (external: its line discipline, the pipe, SIGINT
and SIGKILL) and the Go side: StartStrace, Interrupt, the two cases of the select
with the kill, Drain, Wait, and the scanner's ScanLine and ScanEOF.  A line is
its kind, its name and its leader: `Leader` is strace's rule that a line on stderr
begins with `[pid N] ` if more than one thread is followed when it is begun.
`ParseLine` says which lines count, and none with that leader does.  `Clone` adds a
thread.  `printed` (calls printed in full without that leader), `made` and `alone`
(never two threads at a time) are history.

**Collectors** models `captureAll`: three goroutines and `wg`, in each poll one
action per file that can disagree with the next (inode set and tables; list of
children, link and hash; uid; maps), and a target that changes in between.  A
socket is what its row shows: listening, connected, raw, or "idle" for all that
`parseProcNet` skips (other TCP states, unconnected UDP), and `OwnSockets` keeps the
rows of own inodes that are `Reported`.  A collector's deadline is seen only in the case that takes it, so `Finish` may be
taken in any turn of the loop.  `fatalf` ends the goroutines with the program.
`parseMaps` is `Recorded`, `RegionOf` and `ReadMaps` over what can be mapped at a
range: file, deleted file or anonymous memory, its permissions, and whether it is
large.  `ran` is history: the executables a child's pid ran, in order.

**SysmonMap** models the Windows sensor.  Sysmon is external: processes start
(perhaps with an id that is free again) and act, and each event is logged with
ids only.  `kin` of an event and `reused` are history; the mapping cannot see
them.  `Query` computes the start of its reach from the time it really starts
(`Reach`, with the duration truncated to seconds), gets the log since then
(`Since`) backwards (`Answer`), fails, or, since it runs with SilentlyContinue, gets
nothing of a log it must not read and no error (`answer` says which), and `MapEvents` is the two passes of the code: `Tracked`
children first, then events by `Attributed`, of some kinds only the first per
object (`FirstOf`), of others every one (`CountOf`).

**Host** holds the decisions over a machine as pure operators: `Detect` with the
rules for Wine, the two kinds of WSL and containers in their order,
`IsInteropPath`, `Probe` with all reasons to refuse eBPF, `DetectAndProbe`, and the
exit code of `Syscheck` with and without --json.  `Real` says which hosts exist: a
kernel takes the tracer from root, CAP_BPF or CAP_SYS_ADMIN, though the probe does
not ask for the last.
**FileClassify** holds what a file system call becomes: `Emitted` is the kernel
program's choice of operation and flags, `BucketsFor` the lists it falls into,
`Counts` the first half of buildFilesystem.  **KernelCapture** composes the two
into one capture: a host, an override, the chosen backend, accesses, the map
range in any order (`Visit`), the sort.

**Schema** has the records both sides of a file share: `Capture`, and the names
of the maps and lists in it.

**Accumulator** models `merge.go` map by map: `AddRun` is one action, `Build`,
`VarianceNotes` and `Confidence` are operators.  Lists are counted per entry, as
the code does, and not per run.  Maps that are treated alike are one function
over `ListDims`, `UnionDims` or `Buckets`.

**Analysis** holds the engine's pure operators: the diffs of all dimensions,
`WeightOf`, `SeverityFromWeight`, `Suppress`, `SortAnomalies`, `RiskScore`,
`VerdictFor`, `Summarize`, `WazuhLevel`, `Analyze`.  A loop that skips entries is
a selection (`Only`, `Without`, and `Once` for the `flagged` maps) with one anomaly
for each entry left (`ForEach`); `RiskScore` sums by counting `Points`, as many
pairs for each active anomaly as its weight.  **AnalysisEngine** runs it with the
one freedom the code has, the order of the map range (`VisitSyscall`); its
specification is `EngineSpec`, for Accumulator has a `Spec`.

**Pipeline** composes the commands with Accumulator, Host and Analysis:
`detectAndProbe` on a host, a loop of captures
constrained by what the backend delivers there (`CapturedBy`; a failed Sysmon
query is an empty capture, off Windows the only one, and one of an unreadable log
too), a target that may exit
between runs, a fatal capture error, the record as `runBaseline` really assembles
it, an observation on any host with any --backend, and the analysis of the two
files.  Collectors and sensors enter it as sets of captures.

## 3. Runs

All runs that must pass say CHECK_DEADLOCK FALSE: every modelled program
terminates.

| run | instance | distinct states | shows |
|---|---|---|---|
| `tracer` | two interchangeable target threads, one foreign, two numbers (one never returns), ring 2, channel 1, `active` 1, two calls | 1.6 M | `TypeOK`, `ExitPairsWithItsEnter`, `EnterBeforeExit`, `ExitCountIsCompletions`, `CountsAreSound` |
| `tracer_live` | one thread, two file calls, every queue of size 1, two accesses, all setup failures, fairness | 244 k | `IsObserver`, `ReadersExit`, `ReleasedOnReturn`, `OffsetsOrdered` |
| `strace` | two threads, the second there from the start or cloned, two names, pipe 3, five calls, SIGINT may be ignored, fairness | 238 k | `RecordedExactlyOnce`, `NoConcurrentAccess`, `StraceReturns`, `IsObserver` |
| `collectors` | one socket in two modes (listening, idle), one foreign, one child with two executables, one range with three mappings (none, a writable executable file, a large deleted one), two uids, one change and the exit of the target, fairness | 318 k | `SocketsAreTheTargets`, `LastingStateReported`, `ChildrenAreReal`, `ResultsAreFinal`, `CaptureEnds` |
| `sysmon` | target and one more process id, three events, a margin of two ticks, a window of one (half a second), clock to 3 | 2.3 M | `ReportedWasDone`, `WindowCovered`, `ListsShowTheLast` |
| `capture` | 5,960 hosts with each of 4 overrides, two accesses out of nine | 1.6 M | `ListsTellWhatHappened`, `InteropIsTheBoundary`, `SelectionWorks` |
| `analysis` | 16 baselines, about 750 observations, every order | 195 k | `Deterministic`, `WatchListIsMalicious`, `NoiseIsInert`, `MoreIsNeverBetter` |
| `pipeline` | 19 captures, samples of 1, four hosts, no override or `--backend sysmon`, one to three runs | 168 k | of the accumulator `AccTypeOK`, `SyscallRunsAreRuns`, `NotesAreTrue`, `HighMeansSameSyscalls`, `OnlyTwoFieldsDropped`, `NothingInvented`, `OffsetsSpanRuns`; of the commands `OwnRunsRaiseOnlyDropped`, `ReportedIffNew`, `HighReportIsEarned` |

Bounds and why they suffice.  `MaxCalls`, `MaxRuns` and `MaxChanges` only bound
how long the environment goes on.  Every queue is smaller than the number of
records that can be on their way, so each of them overflows and each drop is
explored; `active` holds one entry for two threads, so the map is full.  Two
calls of the same thread, or one each of two threads, are what it takes for an
exit to find a wrong entry or two events to change places.  Three runs are the
smallest number for which "high" is possible.  In `collectors` the exit of the
target comes on top of `MaxChanges`.  In `analysis` each dimension occurs with
something new, something known and nothing; `Growing` names the observations
among which `MoreIsNeverBetter` compares pairs.  `TidReuse` is a switch: thread
ids can be reused, and with it on a property fails (section 5).

The captures of `pipeline` differ in what a merge can get wrong: a syscall that
one run lacks, offsets that are negative in some runs, a sample too many, a child
whose hash changes, a list key twice, a heap that shrank, a weakened host and
accesses to other processes.  In `strace` five calls are what it takes for one
thread to be alone, joined by a second and alone again around a cut line.

In `sysmon` a tick is half a second, so that the window is one tick that the
truncation cuts off and the query can be early, in time and late; three events
are what it takes for a creation, an act of the child and a second act on the
same object, before, in and after the window.  Collect starts at any time, also
so late that the reach before the window is real log, and the query up to two
ticks after the window has closed, when it no longer has the start of a child.
`Payload` gives
every kind of event an object and, where the code looks at it, both values of the
field.  In `capture` two accesses make every pair of lists and both orders of the
map range; the hosts are all combinations that `Real` admits, with a kernel on
each side of both version gates.  In `collectors` a child changes once, which is
enough for link and hash to be of different executables; the reuse of a child's
pid in one window takes two, and is covered by the proof of `ChildrenAreReal`.

Symmetry is used in `tracer`, over the two target threads, and in
`strace_threads`, over its threads; no property of these runs is a liveness
property and no definition names a thread.

Fairness.  Weak fairness of Collect, of the goroutines and of setup and stop:
the Go scheduler runs them.  Weak fairness of timers: they fire.  Collect's
timeout case and `Finish` of the collectors: Go's select picks at random among
ready cases, so a case that is ready again and again is taken (strong fairness
for `Finish`, whose loop leaves the select to poll).  For strace: it is started
(WF of `StartStrace`, straight-line code), goes on writing and, when it heeds SIGINT and is not blocked in write(2), detaches; it
may not heed it at all; SIGKILL always works.  Nothing is assumed of the target,
which may stop, run on or exit.

## 4. Proofs

Every theorem holds for all constants that satisfy the assumptions of its module:
any number of threads, calls, sockets, runs, events, any queue sizes, any order.
The assumptions only say what the constants are: sizes are natural numbers, the
empty values are none of the values they stand in for.  Three go further, each as
far as the code does: in Collectors a range without mapping has no permissions
(`Unmapped`); in StraceSensor the states of a thread outside a call are not names
of syscalls; in SysmonMap there is such a thing as a process creation.  Analysis
assumes that the features are finitely many and their names ordered, and
AnalysisEngine that weights are natural numbers and observations captures, as in
the files the program writes.  Two theorems have a hypothesis, `~TidReuse`; the run `tracer_reuse` shows that
`ExitCountIsCompletions` fails without it.

### eBPF sensor (`SyscallTracer_proofs`)

* `TypeCorrect`: `Spec => []TypeOK`.  TypeOK is inductive.  Besides the types it
  says that rings, channels and slice respect their capacity and that a probe in
  its exit part finds its entry of `active`, which needs that no two threads
  share a key.
* `ReleaseCorrect`: `Spec => []ReleasedOnReturn`, strengthened by
  *AcquiredInOrder*: while NewSyscallTracer runs, what is held is a proper prefix
  of AcquireOrder.  A lemma shows that each error path then closes exactly what is
  held, and the order of Stop that the collection is the last to be closed.
* `PairingCorrect`: `~TidReuse => (Spec => []ExitPairsWithItsEnter)`.  The
  property is not inductive: the exit probe trusts `active`.  The invariant adds
  *TrackedOnly* (only target threads have entries), *EntriesFresh* (while exit_link
  is up, an entry belongs to the call its thread is in, with that call's number
  and time, or to a thread that is gone for good) and *EventsPaired* (every event in ring,
  loop, channel or record is paired).  EntriesFresh is where the assumption
  is needed.
* `OrderCorrect`: `Spec => []EnterBeforeExit`.  Ring, the event readLoop has in
  hand, and channel are one queue.  *PathStep* says what any step can do to it:
  append the event of a probe, leave one out, or move its head to the record;
  `PathSteps` shows it of every action, and what follows reasons about the queue
  and no longer about the parts it is made of.  *CallsKnown* and *EventsKnown* say that an event is of
  a call issued, and that a thread still in trace_sys_enter has no event of its
  call in the queue.
* `CountsCorrect`: `Spec => []CountsAreSound`.  *OncePerCall*: no two events of
  one kind are of the same call, so *CountsRecorded* (a count is the number of
  events recorded) bounds it by a number of calls.  File accesses take a path of
  their own, with the same argument (*FilePathSteps*, *FilesKnown*).
* `ExitCountCorrect`: `~TidReuse => (Spec => []ExitCountIsCompletions)`, from
  pairing and *ExitsKnown*: an exit event is of a call that has finished.
* `OffsetsCorrect`: `Spec => []OffsetsOrdered`.  With one target thread
  *ProbesOrdered* and *QueueOrdered* keep the events in the order of their clock
  values, and *OffsetsKnown* ties the offsets of a record to events recorded.
* `ImplementsObserver`: `Spec => AsObserver!SafeSpec`.  An issued call is a Make, a
  CollectEvent or CollectFile a Count or a stutter, the end of Stop or an error path
  the Return, every other step a stutter; that Count's guard is met is
  `CountsCorrect`.

### strace (`StraceSensor_proofs`)

* `NoConcurrentCorrect`: `Spec => []NoConcurrentAccess`, one inductive conjunct.
* `RecordedCorrect`: `Spec => []RecordedExactlyOnce`.  *InStep* says what strace,
  scanner and Collect know of each other (strace writes only while attached, the
  scanner ends behind it); *Counting* that, name by name, lines counted and
  lines on their way are the calls printed, until the kill; *NoneCutOff* that a
  line is cut off by the detach only, hence once.  A target that never had
  two threads never gets a `[pid N]` leader, so there what was printed is what was
  made, but for the calls it is in.
* `ImplementsObserver`: `Spec => AsObserver!SafeSpec`, from the same invariant.

### Collectors (`Collectors_proofs`)

* `SocketsCorrect`: `Spec => []SocketsAreTheTargets`, from *OnlyEver*: the set of
  inodes a poll works with is of sockets the target had at some time, so the
  filter lets nothing else pass, even when the tables are read later, and
  what it lets pass was then listening, connected or raw.
* `ResultsCorrect`: `Spec => []ResultsAreFinal`.  *WgCounts* says the WaitGroup's
  counter is the number of goroutines still running, as long as the program
  was not ended; zero then means none.
* `ChildrenCorrect`: `Spec => []ChildrenAreReal`, for any number of children,
  executables and changes, so the reuse of pids included.  *KidsRan* adds that the
  link read last is in the child's history and that a running child is at the end
  of it; a lemma carries the property over steps in which histories only grow.
* `LastingCorrect`: `Spec => []LastingStateReported`.  *HasKept*: what has
  not changed since the start is part of the target as it is now (*KeptIsNow*), and
  each collector, depending on where in its first poll it is, has read it or is
  still to read it.

### Host and file lists (`KernelCapture_proofs`)

* `SelectionCorrect`: `Spec => []SelectionWorks`, for every host `Real` admits.
  Lemmas: the version gate of linuxProbe lets pass what the kernel takes, because
  a kernel with ring buffers meets the lower gate, so eBPF is given up only for the
  other two reasons, CAP_BPF and WSL2's marks, which may well turn away a kernel
  that would take the tracer; and what the probe chooses works (*Chosen*).
* `ListsCorrect`: `Spec => []ListsTellWhatHappened`, for every sequence of
  accesses.  *Folding* says that the lists tell (*Tells*) exactly the part of the
  map the range has been through, in whatever order; the sort keeps what they
  tell (`TellsSorted`).
* `InteropCorrect`: `Spec => []InteropIsTheBoundary`, from Folding.

### Sysmon (`SysmonMap_proofs`)

`Answer` is the log backwards.  `MapBack` says once, of all lists, which
events of the log they report; with it no proof speaks of the answer again.
*Logged* keeps the log in the order of time and, while no id was handed out twice,
a process what each of its events says it was (*Known*); *Returned* says whose
result it is.

* `ReportedCorrect`: `Spec => []ReportedWasDone`.  Then an event attributed to
  the target was caused by it or by a child (`MineClose`).
* `CoverageCorrect`: `Spec => []WindowCovered`, reused ids included.  An event of the
  target, or of a child whose start the answer has, is attributed to it
  (`CloseMine`), and a query in time reaches back to the opening (`ReachBack`).  Both
  this theorem and the next speak of answers that had the log.
* `LastCorrect`: `Spec => []ListsShowTheLast`.  The last of an object's events is
  the first in the answer.  The property had been stated without the condition
  on the child's start, and for unique process ids only.  The proof did not go
  through: a query so late that the start of a child is out of its reach does not
  know the child, and what it did to a key last is not listed, something the run
  at that time never got to.  On the other hand the process ids turned out not to
  matter.  Both are now in the property, and the run's bounds include such
  queries.

### Accumulator (`Accumulator_proofs`)

* `AccTypeCorrect`: `Spec => []AccTypeOK`, with lemmas on CapAppend, MergeSyscall
  and the merged maps.
* `SyscallRunsCorrect`: `Spec => []SyscallRunsAreRuns`, from the cardinality of
  the set of run indices that grows by at most the new one.
* `HighSound`: `Spec => []HighMeansSameSyscalls`.  With exact counts and no note a
  syscall's run set has as many elements as there are runs, so it is all of
  them.
* `TwoFieldsDroppedCorrect`: `Spec => []OnlyTwoFieldsDropped`, from *AllKept*: each map
  has what each run showed, which AddRun keeps for the earlier runs and establishes
  for its own.  The two fields are SecurityWeakened and ProcFSReads, the only ones
  that the analysis compares and Build does not set.
* `NothingInventedCorrect`: `Spec => []NothingInvented`, the converse.  AddRun adds
  to a map only what the run itself shows (`InventedStep`); of a child's hash this
  takes a lemma on the search for the pid's first child (`FirstChildShown`).
  Together the two say that a baseline is the union of its runs, without these
  two fields.
* `OffsetsSpanCorrect`: `Spec => []OffsetsSpanRuns`, from *AllSpan*: an entry
  exists exactly if a run has the syscall, and its offsets are bounds that some run
  attains.
* `NotesCorrect`: `Spec => []NotesAreTrue`, from *ListRunsCover*: a key counts for
  at least the runs it was in (and for more, since list entries are counted), so a
  count below the number of runs means that one run lacked it.

### Engine (`Pipeline_proofs`)

The engine appends, skips, sorts and sums; each theorem is about what of that does
not matter.  *Found* is the set of the anomalies that the diffs define for two
files, without order or repetition, and `FindingsFound` shows that the lists hold
exactly it: a `flagged` map loses only repetitions.  *EngineInv* says that each
syscall is visited once and the result is `Analyze` of the order they were visited
in.

* `ReportCorrect`: `EngineSpec => []ReportExact`.  A report has an anomaly for
  everything found and no other, and one that belongs before another comes before
  it (`AnomaliesSorted`: sorting is a permutation).
* `DeterministicCorrect`: `EngineSpec => []Deterministic`.  The comparison is
  total on what can be found: two anomalies that agree in suppression, weight,
  dimension, text and item are equal (`AheadTotal`, from the list of all wordings in
  *Wording*).  Two lists with the same elements, each as often, are sorted alike
  (`SortedAlike`), so the order of the map is gone (`AnalyzeAlike`).
* `WatchListCorrect`: `EngineSpec => []WatchListIsMalicious`.  The anomaly of a
  watch-listed syscall is in Found, critical and never suppressed, for every table
  of weights and noise list.
* `NoiseCorrect`: `EngineSpec => []NoiseIsInert`.  With nothing but noise
  all of Found is suppressed, so there are no points and nothing counts.
* `MoreCorrect`: `EngineSpec => []MoreIsNeverBetter`.  Not the set but the lists
  must grow, for equal anomalies score twice.  `Embeds(s, t)` is an injection of the
  positions of s into those of t that keeps the element; each diff *Grows* from an
  observation to one that extends it (one lemma per diff; that of a child's deviation is
  the hard one, since what is flagged depends on what came before, which is why
  `Extended` asks for a prefix), sorting does not disturb it, and the points of s
  embed into those of t (`PointsGrow`), whence score, verdict and level.

### Commands (`Pipeline_proofs`)

* `CommandsAccumulate`: `PipelineSpec => Spec` of the Accumulator, so that all of
  its theorems are about baselines the commands write.
* `HighReportCorrect`: `PipelineSpec => []HighReportIsEarned`, from *FilesTell*
  (the files say what the Accumulator holds and a capture showed, the report is
  what Analyze makes of the two) and `HighSound`.  The three runs are turns of the
  loop; that the target was seen in each is not said, and after failed or silently
  empty Sysmon queries it was not.
* `OwnRunsCorrect`: `PipelineSpec => []OwnRunsRaiseOnlyDropped`, from FilesTell,
  `TwoFieldsDroppedCorrect` and `AccTypeCorrect`: dimension by dimension, what a run
  showed is in the baseline, so nothing of type *NewFeature* is in Found
  (`OwnRunFindsOnlyDropped`), hence none is in the report (`ReportFound`), but for the
  two dropped fields, whose anomalies are there whenever the run has them
  (`OwnRunFindsDropped`).
* `NewCorrect`: `PipelineSpec => []ReportedIffNew`.  The anomalies of a type name
  what the diff of that type names (`FoundByType`, `TypeFound`), and that is what
  the observation shows and the baseline does not know (`NewByType`).  What it knows
  is what some run showed, by OnlyTwoFieldsDropped in one direction and NothingInvented
  in the other (`BaselineKnows`, `NewToRuns`).  So nothing is lost or added on the
  whole way from a capture to a report.

`Ordered_proofs` has the lemmas about what Ordered sorts and selects (`PickAll`,
`PickBackAll`, `ArrangedAll`, `StableSortAll`, `SortedAlike`) for every sequence and
order, and about `Embeds`.

### Only model-checked

Liveness, which the prover cannot handle: `ReadersExit`, `StraceReturns`,
`CaptureEnds`, and of `IsObserver` that Collect returns (its safety part is
proved for both sensors).  Every invariant of a run that passes is also the
statement of a theorem.

## 5. Where the code does something else than it says

Shown by a run that TLC must find violated:

* `tracer_reuse`: the entry that `exit` leaves in `active` is taken for the call
  of a later thread with the same id: a never completed `exit` is counted as
  completed, with a latency across two lives (`syscall_trace.c:274`).
* `strace_threads`: once strace follows several threads or children, its lines on
  stderr begin with `[pid N] `; no expression of `parse.go:41-44` takes that,
  `nameRE` then fails, and the calls are lost, although
  `strace/collect_linux.go:24-25` says that "the strace fallback records the
  target's process subtree".  A target with several threads leaves almost nothing in
  the capture.
* `sysmon_subtree`: `MapEvents` announces the subtree "analogous to strace -f"
  (`parse.go:52-54`) and tracks direct children only; what a grandchild does is
  not in the capture.
* `pipeline_watchlist`: `runBaseline` replaces the default watch list with the
  accumulator's, empty when no run had a syscall backend; ptrace is then merely
  unexpected (`main.go:231`).

Visible in the models, or in the code beside them, without a run of their own:

* Threads that exit leave their entries in `active`, which fills up
  (`UpdateActive`).
* `exit_group(0) = ?` adds to ExitCount (`Record`), and a line cut off by the
  detach is counted if its arguments contain " = " (`ParseLine`;
  `RecordedExactlyOnce` bounds it by one).
* A strace line over the scanner's 1 MiB ends the goroutine; `done` closes, so
  Collect does not kill, and `cmd.Wait` waits for a strace that is blocked on the
  full pipe (`strace/collect_linux.go:52,65,71`).  The model has no such lines.
* A later r-x poll clears the mark of an rwx range (`ReadMaps`); a child that
  execs between two reads has path and hash of two executables (`ChildPath`,
  `ChildHash`; `ChildrenAreReal` bounds how wrong that can be).
* Only the first uid transition is recorded, so one to another user hides a later
  one to root (`ReadEUID`), while `procfs/collector_linux.go:22-23` announces
  "any effective-UID transition".
* `CollectMemory` reads the peak in its polls only, not again at the deadline.
* Two raw sockets of one kind in a run count as two runs, and connections are
  never compared between runs (`Occurrences`, `VarianceNotes`).
* `Build` drops SecurityWeakened and ProcFSReads, which the analysis compares
  (`analyze.go:211,282`): a host that every baseline run found weakened, or a target
  that always opens other processes, raises an anomaly against its own baseline
  (`OwnRunsRaiseOnlyDropped` says just that).  `merge_test.go:174-175` guards the
  registry "against the same --runs>1 drop", without this field.
* A Sysmon query that fails is reported on the terminal and then counts as a run:
  three of them make a high-confidence empty baseline (`CapturedBy`).
* `Get-WinEvent` runs with `-ErrorAction SilentlyContinue`: a log that is missing or
  must not be read gives no events and no error, and the capture is empty
  (`Query`), which nothing tells from a target that did nothing.
* An error of the kernel backend in a later run ends the program with the runs
  captured so far (`CaptureFatal`).
* A process with CAP_SYS_ADMIN and without CAP_BPF is refused eBPF although its
  kernel would load the tracer (`capability.go:121`, `SelectionWorks`).
* `syscheck --json` exits with 0 also where there is no sensor (`main.go:98-104`,
  `Syscheck`).
* The query's margin reaches back before the window and it has no end, so what
  was done in the two seconds before the window, or after it until the query, counts
  as done in it, and perhaps for two consecutive runs (`Reach`, `Since`);
  `collect_windows.go:14-15` says "events in that window".  `ReportedWasDone` has the
  bounds that hold.
* Which of the created and deleted lists a key is in, and the hash and arguments
  of a child, are those of the newest event because the log is read backwards
  (`Answer`, `FirstOf`); `sort.go:9-10` says the output does not depend on the
  order of events.
* The report is ordered by weight, and a watch-listed syscall is critical with
  weight 8: it follows a high anomaly of weight 9, although `analyze.go:454-456`
  announces "severity-first" (`Less`).
* `capability.go:27-29` says the report tells the analysis engine what the sensor
  could not see; `Analyze` never reads it, and the perf-buffer tier that
  `capability.go:8` announces has no implementation (`EBPFRefused`).

## 6. Not modelled

Decoding of ring records and of the text of `/proc`, strace, PowerShell and
Sysmon; strace lines over 1 MiB; the syscall table (data) and its generator; JSON,
argument parsing and printing; identifiers, versions and time stamps; RSS and
promiscuous flags of the collectors (plain maxima and unions without
interleaving of their own); which paths and keys are sensitive (constants); the
stubs for other systems, whose errors are branches of `CapturedBy` and
`CaptureFatal`.

## 7. Plan

In place, in this order: the sensor (most concurrent) and its proofs, the
accumulator (decides the confidence) and its proofs, the engine, the commands that
compose them, the strace sensor, the collectors, the Sysmon sensor, the host and
what becomes of file accesses, Observer as what both syscall sensors promise; then
the proofs of every safety invariant and of the refinements, last those of the
engine, for which Analysis was restated with Ordered instead of recursive
operators, and of what a report names.

Next, in the order of what they would say: that what `CapturedBy` constrains is
what the sensors' own models deliver (today Pipeline takes the sets of captures as
given); and the parts of liveness that are safety (no state from which a capture
cannot end).
