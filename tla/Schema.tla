------------------------------- MODULE Schema -------------------------------
(***************************************************************************)
(* The records of internal/schema that the Accumulator fills and the       *)
(* analysis engine compares, reduced to what either looks at.              *)
(*                                                                         *)
(* A feature (syscall name, port key, connection key, path, ...) is an     *)
(* Item; the four per-syscall sums, the two maxima and the two samples of  *)
(* SyscallRecord are represented by one of each.  A nil sensor result is   *)
(* the capture with that part empty.                                       *)
(***************************************************************************)
EXTENDS Integers, Sequences, FiniteSets

CONSTANTS
  Item,        (* the keys of every map                                      *)
  Hash,        (* executable hashes of child processes                       *)
  NoHash       (* a path with no recorded child                              *)

(* Lists of entries that have a key each, and may repeat it.                 *)
ListDims  == {"ports", "conns", "raw"}
(* Sets of keys.                                                             *)
UnionDims == {"promisc", "privileges", "regions", "mapped", "large",
              "regCreated", "regWritten", "regDeleted"}
Buckets   == {"read", "written", "created", "deleted", "exec"}

(* schema.SyscallRecord: `count` stands for the summed fields, `last` for    *)
(* the maxima, `args` for the samples.  count = 0: not in the map.           *)
SyscallRecord == [count: Nat, first: Int, last: Int, args: Seq(Item)]
NoRecord      == [count |-> 0, first |-> 0, last |-> 0, args |-> <<>>]

(* What one capture of the target found.                                     *)
Capture == [watch:     SUBSET Item,
            observed:  [Item -> SyscallRecord],
            lists:     [ListDims -> Seq(Item)],
            sets:      [UnionDims -> SUBSET Item],
            files:     [Buckets -> [Item -> Nat]],
            children:  Seq(Item \X Hash),
            rss:       Nat, heap: Int,
            available: BOOLEAN, persist: BOOLEAN,
            weakened:  BOOLEAN, procReads: Nat]
=============================================================================
