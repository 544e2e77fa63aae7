------------------------------ MODULE Pipeline ------------------------------
(***************************************************************************)
(* The three commands of cmd/scrutiny/main.go in sequence: `baseline`      *)
(* captures the target over several runs and writes the union, `observe`   *)
(* captures it once more, possibly on another host or with another         *)
(* backend, and `analyze` compares the two files.                          *)
(***************************************************************************)
EXTENDS Accumulator, Host, Analysis

CONSTANTS
  Hosts,       (* machines the commands may be run on                        *)
  Overrides,   (* values of --backend                                        *)
  WatchList,   (* finalizeSuspiciousFlags, suspiciousNeverExpected           *)
  Requests     (* values of --runs                                           *)

ASSUME PipelineAssumption == \A h \in Hosts : h.machine \in Machines /\ Real(h)

VARIABLES
  step,        (* the command being run                                      *)
  wanted,      (* runs asked for                                             *)
  alive,       (* the target process exists                                  *)
  host,        (* where `baseline` runs,                                     *)
  backend, platform,   (* and what detectAndProbe reported there             *)
  baseFile, obsFile,   (* the files written, <<>> until then                 *)
  report       (* what `analyze` printed, <<>> until then                    *)

cmdVars == <<step, wanted, alive, host, backend, platform, baseFile, obsFile, report>>
vars == <<accVars, cmdVars>>

----------------------------------------------------------------------------
(* captureAll: without a kernel backend the syscall and file parts are nil,  *)
(* Sysmon has no syscalls, strace no files, and only Sysmon fills the        *)
(* registry, the connection duplicates and the process-access list.          *)
NoCalls(c) == c.watch = {} /\ \A k \in Item : c.observed[k].count = 0
NoFiles(c) == \A x \in Buckets : \A k \in Item : c.files[x][k] = 0
NoRegistry(c) ==
  /\ ~c.available /\ ~c.persist /\ ~c.weakened /\ c.procReads = 0
  /\ \A d \in {"regCreated", "regWritten", "regDeleted"} : c.sets[d] = {}

NothingElse(c) ==
  /\ \A d \in ListDims : c.lists[d] = <<>>
  /\ \A d \in UnionDims : c.sets[d] = {}
  /\ c.children = <<>> /\ c.rss = 0 /\ c.heap = 0

(* A Sysmon query that fails, as it always does off Windows, is reported on  *)
(* the terminal and leaves an empty capture; so does, silently, one whose    *)
(* log is missing or must not be read.                                       *)
CapturedBy(h, be, c) ==
  CASE be = "ebpf"   -> h.loads /\ c.watch = WatchList /\ NoRegistry(c)
    [] be = "strace" -> h.strace /\ c.watch = WatchList /\ NoRegistry(c) /\ NoFiles(c)
    [] be = "sysmon" -> \/ h.machine = "windows" /\ NoCalls(c)
                        \/ NoCalls(c) /\ NoFiles(c) /\ NoRegistry(c) /\ NothingElse(c)
    [] OTHER         -> NoCalls(c) /\ NoFiles(c) /\ NoRegistry(c)

Start ==
  /\ Init
  /\ step = "baseline"
  /\ wanted \in {IF r < 1 THEN 1 ELSE r : r \in Requests}
  /\ alive = TRUE
  /\ host \in Hosts
  /\ \E o \in Overrides :
       LET dp == DetectAndProbe(host, o) IN backend = dp.backend /\ platform = dp.platform
  /\ baseFile = <<>> /\ obsFile = <<>> /\ report = <<>>

(* One turn of runBaseline's loop.                                           *)
BaselineRun(c) ==
  /\ step = "baseline" /\ runs < wanted
  /\ runs > 0 => alive
  /\ CapturedBy(host, backend, c)
  /\ AddRun(c)
  /\ UNCHANGED cmdVars

(* captureKernel: an error of the eBPF or strace backend ends the program,   *)
(* and with it the runs captured so far.                                     *)
CaptureFatal ==
  /\ step = "baseline" /\ runs < wanted
  /\ runs > 0 => alive
  /\ backend \in {"ebpf", "strace"}
  /\ step' = "aborted"
  /\ UNCHANGED <<accVars, wanted, alive, host, backend, platform, baseFile, obsFile,
                 report>>

TargetExits ==
  /\ step = "baseline" /\ alive /\ alive' = FALSE
  /\ UNCHANGED <<accVars, step, wanted, host, backend, platform, baseFile, obsFile,
                 report>>

(* Mutant: the confidence is that of the runs asked for.                     *)
BaselineRecordAsked ==
  [data |-> Build, platform |-> platform, weights |-> DefaultAnomalyWeights,
   confidence |-> Confidence(wanted, Build.notes # {}), runCount |-> runs]

(* The record runBaseline writes: every observation NewBaseline prepared is  *)
(* replaced by Build's, the watch list included.                             *)
BaselineRecord ==
  [data |-> Build, platform |-> platform, weights |-> DefaultAnomalyWeights,
   confidence |-> Confidence(runs, Build.notes # {}), runCount |-> runs]

BaselineWritten ==
  /\ step = "baseline" /\ runs > 0
  /\ runs = wanted \/ ~alive
  /\ baseFile' = <<BaselineRecord>>
  /\ step' = "observe"
  /\ UNCHANGED <<accVars, wanted, alive, host, backend, platform, obsFile, report>>

(* runObserve, wherever and with whatever --backend it is run.               *)
Observe(c, h, o) ==
  /\ step = "observe"
  /\ LET dp == DetectAndProbe(h, o) IN
       /\ CapturedBy(h, dp.backend, c)
       /\ obsFile' = <<[data |-> c, platform |-> dp.platform]>>
  /\ step' = "analyze"
  /\ UNCHANGED <<accVars, wanted, alive, host, backend, platform, baseFile, report>>

(* runAnalyze.                                                               *)
AnalyzeFiles ==
  /\ step = "analyze"
  /\ report' = <<Analyze(baseFile[1], obsFile[1],
                           Listed(Called(obsFile[1].data)))>>
  /\ step' = "done"
  /\ UNCHANGED <<accVars, wanted, alive, host, backend, platform, baseFile, obsFile>>

PipelineNext ==
  \/ \E c \in Captures : BaselineRun(c)
  \/ CaptureFatal
  \/ TargetExits
  \/ BaselineWritten
  \/ \E c \in Captures, h \in Hosts, o \in Overrides : Observe(c, h, o)
  \/ AnalyzeFiles

PipelineSpec == Start /\ [][PipelineNext]_vars

----------------------------------------------------------------------------
(* Properties.                                                              *)

Reported(types) ==
  \E i \in DOMAIN report[1].anomalies : report[1].anomalies[i].type \in types
OwnRun == \E i \in DOMAIN log : obsFile[1].data = log[i]

(* Anomalies that mean "the baseline did not have this", or had fewer of it, *)
(* and those among them about the two fields that Build leaves out.          *)
NewFeature == {"unexpected_syscall", "new_listening_port",
               "new_outbound_connection", "raw_socket_opened",
               "promiscuous_mode_observed", "executable_written",
               "registry_persistence", "registry_new_write",
               "registry_defense_impair", "new_child_process",
               "procfs_read_other_pid", "unexpected_module_load"}
DroppedFeature == {"registry_defense_impair", "procfs_read_other_pid"}

(* Analysing a capture that the baseline was made of, whichever run it was   *)
(* and whatever the other runs saw, reports as new only what Build left out  *)
(* of the baseline, and that always: a weakened host and accesses to other   *)
(* processes are new each time although every baseline run had them.         *)
OwnRunsRaiseOnlyDropped ==
  (step = "done" /\ OwnRun) =>
    /\ ~Reported(NewFeature \ DroppedFeature)
    /\ Reported({"registry_defense_impair"}) <=> obsFile[1].data.weakened
    /\ Reported({"procfs_read_other_pid"}) <=> obsFile[1].data.procReads > 0

(* What a capture shows, by the type of the anomaly that reports it, and     *)
(* what of it is never reported: an executable that was only run, a          *)
(* sensitive key (it has set a flag).                                        *)
Shown(c) ==
  [unexpected_syscall      |-> SyscallsOf(c),
   new_listening_port      |-> ListOf(c, "ports"),
   new_outbound_connection |-> ListOf(c, "conns"),
   raw_socket_opened       |-> ListOf(c, "raw"),
   executable_written      |-> Present(c.files["exec"]),
   registry_new_write      |-> c.sets["regWritten"] \cup c.sets["regCreated"],
   new_child_process       |-> {k \in Item : \E i \in DOMAIN c.children :
                                               c.children[i][1] = k},
   unexpected_module_load  |-> c.sets["mapped"]]
Exempt(c, type) ==
  CASE type = "executable_written" ->
         Item \ (Present(c.files["written"]) \cup Present(c.files["created"]))
    [] type = "registry_new_write" -> SensitiveKeys
    [] OTHER -> {}
Named(type) ==
  {k \in Item : \E i \in DOMAIN report[1].anomalies :
     report[1].anomalies[i].type = type /\ report[1].anomalies[i].item = Rank[k]}

(* What is new is reported, and only that: whatever way it takes through     *)
(* accumulator, file and diff, the report names exactly what the target      *)
(* showed and had shown in none of the baseline runs.                        *)
ReportedIffNew ==
  step = "done" =>
    \A type \in DOMAIN Shown(obsFile[1].data) :
      Named(type) = {k \in Shown(obsFile[1].data)[type] \ Exempt(obsFile[1].data, type) :
                       \A i \in DOMAIN log : k \notin Shown(log[i])[type]}

(* A high-confidence report is about one platform and rests on at least      *)
(* three runs of the loop that were folded into the baseline and all had the *)
(* same syscalls, however many were asked for and whenever the target ended. *)
(* It does not say that each run saw the target: a failed Sysmon query is    *)
(* folded in as an empty capture and counts.                                 *)
HighReportIsEarned ==
  (step = "done" /\ report[1].confidence = "high") =>
    /\ baseFile[1].platform = obsFile[1].platform
    /\ Len(log) >= 3
    /\ \A i, j \in DOMAIN log : SyscallsOf(log[i]) = SyscallsOf(log[j])

(* "An always-suspicious syscall (ptrace, module loading, ...) is never just *)
(* "unexpected"": one that the baseline did not have makes the report        *)
(* malicious.                                                                *)
AlwaysSuspiciousIsMalicious ==
  step = "done" =>
    ((SyscallsOf(obsFile[1].data) \ Called(baseFile[1].data)) \cap WatchList # {}
       => report[1].verdict = "malicious")
=============================================================================
