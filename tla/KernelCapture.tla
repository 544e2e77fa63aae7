--------------------------- MODULE KernelCapture ---------------------------
(***************************************************************************)
(* One capture by the kernel backend, from the choice of the backend to    *)
(* the file lists: detectAndProbe, captureKernel, ebpf.Collect as far as   *)
(* files go, and buildFilesystem with Go's unordered range over its map.   *)
(* Which events the rings and channels lose on the way is SyscallTracer's. *)
(***************************************************************************)
EXTENDS Host, FileClassify, Ordered

CONSTANTS
  Hosts,        (* hosts, and                                                *)
  Overrides,    (* values of --backend to start with                         *)
  Path,         (* paths, numbered in their order                            *)
  Area,         (* Path -> "home", "mnt", "drive_c": where it lies           *)
  Sensitive,    (* paths isSensitivePath accepts                             *)
  Acts,         (* what the target may do                                    *)
  MaxActs       (* bound: accesses that reach Collect                        *)

ASSUME CaptureAssumption ==
  /\ \A h \in Hosts : h.machine \in Machines /\ h.kernel \in Nat \X Nat /\ Real(h)
  /\ Path \subseteq Nat /\ NoPath \notin Path /\ Sensitive \subseteq Path
  /\ Area \in [Path -> {"home", "mnt", "drive_c"}] /\ MaxActs \in Nat
  /\ \A a \in Acts : /\ a.call \in Calls /\ a.flags \subseteq Flags
                     /\ a.path \in Path \cup {NoPath}

VARIABLES
  host,      (* the machine                                                  *)
  override,  (* --backend                                                    *)
  phase,     (* "start", "window", "fold", "sort", "done", "fatal"           *)
  ctx,       (* what detectAndProbe returned                                 *)
  acts,      (* what the target did, as far as it reached Collect: history   *)
  accesses,  (* Collect's slice of the same                                  *)
  visited,   (* keys of the counts map the range has produced                *)
  lists      (* the FilesystemObservation                                    *)

vars == <<host, override, phase, ctx, acts, accesses, visited, lists>>

Entry(path, count) ==
  [path |-> path, count |-> count, sensitive |-> path \in Sensitive,
   interop |-> IsInteropPath(Area[path], ctx.platform)]

Init ==
  /\ host \in Hosts /\ override \in Overrides /\ phase = "start"
  /\ ctx = [platform |-> "", backend |-> ""]
  /\ acts = <<>> /\ accesses = <<>> /\ visited = {}
  /\ lists = [b \in Buckets |-> <<>>]

(* detectAndProbe, and captureKernel's switch.  Only eBPF delivers files; it *)
(* fails on a host that does not take the object, as strace does where it is *)
(* not installed, and both end the program.  (strace without the right to    *)
(* trace is no error.  The later failures of ebpf.Collect, which end the     *)
(* program too, are SyscallTracer's.)                                        *)
Begin ==
  /\ phase = "start"
  /\ ctx' = DetectAndProbe(host, override)
  /\ phase' = CASE ctx'.backend = "ebpf"   -> IF host.loads THEN "window" ELSE "fatal"
                [] ctx'.backend = "strace" -> IF host.strace THEN "done" ELSE "fatal"
                [] OTHER -> "done"
  /\ UNCHANGED <<host, override, acts, accesses, visited, lists>>

Access(a) ==
  /\ phase = "window" /\ Len(acts) < MaxActs
  /\ acts' = Append(acts, a)
  /\ accesses' = Append(accesses, Emitted(a))
  /\ UNCHANGED <<host, override, phase, ctx, visited, lists>>

WindowEnds ==
  /\ phase = "window" /\ phase' = "fold"
  /\ UNCHANGED <<host, override, ctx, acts, accesses, visited, lists>>

(* The keys of the counts map; the map range produces them in any order.     *)
Keys == {k \in Buckets \X Path : Counts(accesses, Path)[k] > 0}

Visit(k) ==
  /\ phase = "fold" /\ k \in Keys \ visited
  /\ lists' = [lists EXCEPT ![k[1]] = Append(@, Entry(k[2], Counts(accesses, Path)[k]))]
  /\ visited' = visited \cup {k}
  /\ UNCHANGED <<host, override, phase, ctx, acts, accesses>>

(* sort.Slice by path.  Mutant: by count.                                    *)
SortedByCount(list) ==
  StableSort(list, {p \in (DOMAIN list) \X (DOMAIN list) : list[p[1]].count < list[p[2]].count})
Sorted(list) ==
  StableSort(list, {p \in (DOMAIN list) \X (DOMAIN list) : list[p[1]].path < list[p[2]].path})

Return ==
  /\ phase = "fold" /\ visited = Keys
  /\ lists' = [b \in Buckets |-> Sorted(lists[b])]
  /\ phase' = "done"
  /\ UNCHANGED <<host, override, ctx, acts, accesses, visited>>

Next ==
  \/ Begin
  \/ \E a \in Acts : Access(a)
  \/ WindowEnds
  \/ \E k \in Buckets \X Path : Visit(k)
  \/ Return

Spec == Init /\ [][Next]_vars

----------------------------------------------------------------------------
(* Properties.                                                               *)

(* What an act does to its path, in terms of the system call.                *)
Does(a, b) ==
  CASE b = "deleted" -> a.call \in Deletes
    [] b = "exec"    -> a.call \in Execs
    [] b = "created" -> \/ a.call \in Renames \cup {"creat"}
                        \/ a.call \in {"open", "openat"} /\ "CREAT" \in a.flags
    [] b = "written" -> \/ a.call \in Renames \cup {"creat"}
                        \/ a.call \in {"open", "openat"}
                             /\ a.flags \cap {"WRONLY", "RDWR", "TRUNC"} # {}
    [] b = "read"    -> a.call \in Opens
                          /\ (a.call # "openat2" => a.flags = {})
Times(b, p) == Cardinality({i \in DOMAIN acts : acts[i].path = p /\ Does(acts[i], b)})

(* The lists are a function of what the target did: each path once per list, *)
(* in order, with the number of accesses, whatever order the map range had.  *)
(* An access that creates, changes, deletes or executes is never a mere read *)
(* (openat2 apart, whose flags the kernel program does not see).             *)
ListsTellWhatHappened ==
  phase = "done" /\ ctx.backend = "ebpf" =>
    \A b \in Buckets :
      /\ \A i, j \in DOMAIN lists[b] : i < j => lists[b][i].path < lists[b][j].path
      /\ \A p \in Path : Times(b, p) > 0 => \E i \in DOMAIN lists[b] : lists[b][i].path = p
      /\ \A i \in DOMAIN lists[b] : /\ lists[b][i].count = Times(b, lists[b][i].path)
                                    /\ lists[b][i].count > 0

(* A path is marked as crossing to Windows exactly when it does: under /mnt/ *)
(* on both kinds of WSL that name themselves, in the prefix under Wine, and  *)
(* never on plain Linux; and the platform then announces such paths.         *)
InteropIsTheBoundary ==
  phase = "done" => \A b \in Buckets : \A i \in DOMAIN lists[b] :
    LET e == lists[b][i] IN
      /\ host.wine # {} => (e.interop <=> Area[e.path] = "drive_c")
      /\ host.wine = {} /\ host.machine \in {"wsl1", "wsl2"} => (e.interop <=> Area[e.path] = "mnt")
      /\ host.wine = {} /\ host.machine = "linux" => ~e.interop
      /\ e.interop => FilesystemSensor[ctx.platform] = "interop"

(* Without --backend the chosen backend works on the host, and a host whose  *)
(* kernel takes the tracer gets it, but for two: a WSL2 that shows no sign of *)
(* BPF, and a process with CAP_SYS_ADMIN alone, which the kernel would let   *)
(* load it and which linuxProbe turns away.  The exit code of syscheck tells *)
(* a host without any sensor from the others, except with --json.            *)
SelectionWorks ==
  override = NoOverride /\ phase # "start" =>
    /\ phase # "fatal"
    /\ host.loads => \/ ctx.backend = "ebpf"
                     \/ ctx.platform = "wsl2" /\ ~host.bpf
                     \/ ~host.root /\ "bpf" \notin host.caps
    /\ host.machine = "wsl1" => ctx.backend # "ebpf"
    /\ \A json \in BOOLEAN :
         Syscheck(host, json) = 2 <=> ctx.backend = "none" /\ ~json
=============================================================================
