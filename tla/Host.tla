-------------------------------- MODULE Host --------------------------------
(***************************************************************************)
(* internal/context and internal/sensor/capability.go: which platform      *)
(* Scrutiny believes it runs on, and which sensor backend it selects.      *)
(*                                                                         *)
(* A host is a record of what the two read from it (external):             *)
(*   machine    "linux", "windows", "wsl1", "wsl2", or "oldwsl2": a WSL2   *)
(*              kernel from before its version string said WSL2            *)
(*   wine       marks of Wine: "env" (WINELOADER, WINEPREFIX), "path" (own *)
(*              executable or the command line of process 1)               *)
(*   virt       systemd-detect-virt is installed                           *)
(*   container  marks of one: "file" (left by Docker, Podman), "cgroup"    *)
(*              (a name in that of process 1), "cgroup2" (the unified       *)
(*              hierarchy), "namespace" (a cgroup namespace of its own)     *)
(*   kernel     <<major, minor>>                                           *)
(*   root, caps the user is root; effective capabilities                   *)
(*   strace     strace is installed                                        *)
(*   bpf        a bpf mount or a kernel configuration file is there        *)
(*   loads      the kernel accepts the tracer                              *)
(*   sysmon     a Sysmon service is running                                *)
(***************************************************************************)
EXTENDS Integers

Machines == {"linux", "windows", "wsl1", "wsl2", "oldwsl2"}

KernelMeetsMin(k, min) == \/ k[1] > min[1]
                          \/ k[1] = min[1] /\ k[2] >= min[2]

(* Hosts that can exist: WSL1 is kernel 4.4, the object needs ring buffers,  *)
(* and the kernel takes it from root, CAP_BPF or CAP_SYS_ADMIN.              *)
Real(h) ==
  /\ h.machine = "wsl1" => h.kernel = <<4, 4>>
  /\ h.machine = "oldwsl2" => h.kernel = <<4, 19>>
  /\ h.machine = "wsl2" => KernelMeetsMin(h.kernel, <<5, 4>>)
  /\ h.loads => /\ h.machine \in {"linux", "wsl2"}
                /\ KernelMeetsMin(h.kernel, <<5, 8>>)
                /\ h.root \/ h.caps \cap {"bpf", "sys_admin"} # {}
  /\ h.machine = "windows" => h.wine = {} /\ h.container = {} /\ ~h.virt /\ ~h.strace /\ ~h.bpf
  /\ h.machine # "windows" => ~h.sysmon

----------------------------------------------------------------------------
(* Context detection.                                                        *)

DetectWSL2(h) ==
  \/ h.machine = "wsl2"                                (* "WSL2" in a version *)
  \/ h.virt /\ h.machine \in {"wsl1", "oldwsl2"}       (* virt says "wsl" ... *)
       /\ h.machine # "wsl1"                           (* ... not "Microsoft" *)
DetectWSL1(h) == h.machine = "wsl1"
DetectWine(h) == h.wine # {}
DetectContainer(h) ==
  h.container \cap {"file", "cgroup"} # {} \/ {"cgroup2", "namespace"} \subseteq h.container

(* detectWindows, and detectLinux, which tries its platforms in this order.  *)
Detect(h) ==
  IF h.machine = "windows"  THEN "native_windows"
  ELSE IF DetectWine(h)     THEN "wine"
  ELSE IF DetectWSL2(h)     THEN "wsl2"
  ELSE IF DetectWSL1(h)     THEN "wsl1"
  ELSE IF DetectContainer(h) THEN "container"
  ELSE "native_linux"

(* How the capability tables of the platforms describe the file sensor.      *)
FilesystemSensor ==
  [native_linux |-> "full", wsl1 |-> "interop", wsl2 |-> "interop", wine |-> "interop",
   container |-> "namespaced", native_windows |-> "full"]

(* Paths that cross the boundary to Windows: those under /mnt/ on WSL, those *)
(* of the Wine prefix on Wine.  Mutant: the fixed prefix everywhere.         *)
IsInteropPathFixed(area, platform) == area = "mnt"
IsInteropPath(area, platform) ==
  \/ platform \in {"wsl1", "wsl2"} /\ area = "mnt"
  \/ platform = "wine" /\ area = "drive_c"

----------------------------------------------------------------------------
(* The capability probe.                                                     *)

HasCap(h, cap) == cap \in h.caps \/ h.root

PickFallback(h) ==
  IF h.strace /\ HasCap(h, "ptrace") THEN "strace" ELSE "none"

(* Why linuxProbe does without eBPF.  Its kernel gate is 4.15, that of perf  *)
(* buffers; the tracer needs ring buffers, which the live load finds out.    *)
(* Mutant: no live load.                                                     *)
EBPFRefusedOnPaper(h, platform) ==
  \/ platform = "wsl1"
  \/ ~KernelMeetsMin(h.kernel, <<4, 15>>)
  \/ ~HasCap(h, "bpf")
  \/ platform = "wsl2" /\ ~h.bpf
EBPFRefused(h, platform) == EBPFRefusedOnPaper(h, platform) \/ ~h.loads

Probe(h, platform) ==
  IF h.machine = "windows" THEN IF h.sysmon THEN "sysmon" ELSE "none"
  ELSE IF EBPFRefused(h, platform) THEN PickFallback(h)
  ELSE "ebpf"

(* detectAndProbe of the commands: --backend replaces the probe's choice.    *)
NoOverride == ""
DetectAndProbe(h, override) ==
  [platform |-> Detect(h),
   backend  |-> IF override = NoOverride THEN Probe(h, Detect(h)) ELSE override]

(* The exit code of syscheck, which knows no --backend; with --json it       *)
(* returns before it looks at the sensors.                                   *)
Syscheck(h, json) == IF ~json /\ Probe(h, Detect(h)) = "none" THEN 2 ELSE 0
=============================================================================
