-------------------------- MODULE MCKernelCapture --------------------------
(* Every host that differs in what detection and probe read, an ordinary, a  *)
(* /mnt and a Wine path, and one act of each kind.                           *)
EXTENDS KernelCapture

MCArea == <<"home", "mnt", "drive_c">>

MCHosts ==
  {h \in [machine : Machines, wine : {{}, {"env"}}, virt : BOOLEAN,
          container : {{}, {"file"}, {"cgroup2"}, {"cgroup2", "namespace"}},
          kernel : {<<4, 4>>, <<4, 19>>, <<5, 15>>}, root : BOOLEAN,
          caps : {{}, {"bpf"}, {"ptrace"}, {"sys_admin"}, {"bpf", "ptrace"}, {"sys_admin", "ptrace"}},
          strace : BOOLEAN, bpf : BOOLEAN,
          loads : BOOLEAN, sysmon : BOOLEAN] : Real(h)}

Act(call, flags, path) == [call |-> call, flags |-> flags, path |-> path]
MCActs ==
  {Act("open", {}, 1), Act("openat", {"RDWR"}, 1), Act("open", {"CREAT", "WRONLY"}, 2),
   Act("openat2", {"WRONLY"}, 3), Act("creat", {}, 1), Act("unlinkat", {}, 3),
   Act("renameat2", {}, 2), Act("execve", {}, 1), Act("execveat", {}, NoPath)}
=============================================================================
