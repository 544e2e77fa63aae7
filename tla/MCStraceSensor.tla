--------------------------- MODULE MCStraceSensor ---------------------------
(***************************************************************************)
(* Instances of StraceSensor for TLC.                                      *)
(***************************************************************************)
EXTENDS StraceSensor, TLC

CONSTANTS t1, t2, write, exit

(* The threads are interchangeable.                                         *)
Sym == Permutations(Thread)
=============================================================================
