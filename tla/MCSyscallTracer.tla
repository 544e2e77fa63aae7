-------------------------- MODULE MCSyscallTracer --------------------------
(***************************************************************************)
(* Instances of SyscallTracer for TLC.  t1 and t2 are threads of the       *)
(* target, other is a thread of another process.                           *)
(***************************************************************************)
EXTENDS SyscallTracer, TLC

CONSTANTS t1, t2, other, openat, exit

(* The two target threads are interchangeable.                              *)
Sym == Permutations({t1, t2})
=============================================================================
