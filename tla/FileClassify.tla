---------------------------- MODULE FileClassify ----------------------------
(***************************************************************************)
(* What becomes of a file syscall: maybe_emit_file of the eBPF object      *)
(* chooses operation and flags, bucketsFor of fsclassify.go the lists.     *)
(* An act of the target is the call it makes, the flags it passes and the  *)
(* path, NoPath when the kernel could not read it.                         *)
(***************************************************************************)
EXTENDS Integers, Sequences, FiniteSets

CONSTANT NoPath

Flags   == {"WRONLY", "RDWR", "CREAT", "TRUNC"}
Buckets == {"read", "written", "created", "deleted", "exec"}
Opens   == {"open", "openat", "openat2"}   (* the calls that take flags      *)
Deletes == {"unlink", "unlinkat"}
Execs   == {"execve", "execveat"}
Renames == {"rename", "renameat", "renameat2"}
Calls   == Opens \cup {"creat"} \cup Deletes \cup Execs \cup Renames

(* The switch over the syscall numbers.  openat2 has its flags in memory and *)
(* sends none.                                                               *)
Emitted(a) ==
  [op |-> CASE a.call \in Deletes -> "delete" [] a.call \in Execs -> "exec"
            [] a.call \in Renames -> "rename" [] OTHER -> "open",
   flags |-> CASE a.call \in {"open", "openat"} -> a.flags
               [] a.call = "creat" -> {"CREAT", "WRONLY", "TRUNC"}
               [] OTHER -> {},
   path |-> a.path]

BucketsFor(f) ==
  CASE f.op = "delete" -> {"deleted"}
    [] f.op = "exec"   -> {"exec"}
    [] f.op = "rename" -> {"created", "written"}
    [] f.op = "open"   ->
         LET b == {x \in {"created", "written"} :
                     \/ x = "created" /\ "CREAT" \in f.flags
                     \/ x = "written" /\ f.flags \cap {"WRONLY", "RDWR", "TRUNC"} # {}}
         IN  IF b = {} THEN {"read"} ELSE b

(* The first half of buildFilesystem.                                        *)
Counts(accesses, paths) ==
  [k \in Buckets \X paths |->
     Cardinality({i \in DOMAIN accesses : /\ accesses[i].path = k[2]
                                          /\ k[1] \in BucketsFor(accesses[i])})]
=============================================================================
