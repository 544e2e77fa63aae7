------------------------------ MODULE Observer ------------------------------
(***************************************************************************)
(* What every syscall sensor promises, whatever it is built from: while    *)
(* the target makes calls, a capture counts some of them, none more often  *)
(* than it was made, and returns; what it has returned no longer changes.  *)
(* Calls may go uncounted: the sensors drop silently under load.           *)
(*                                                                         *)
(* The promise is that of the `Collect` functions of internal/sensor/ebpf  *)
(* and internal/sensor/strace; SyscallTracer and StraceSensor implement it. *)
(***************************************************************************)
EXTENDS Naturals

CONSTANT Kind   (* what is counted separately *)

VARIABLES
  made,      (* per Kind: calls the target made so far           *)
  counted,   (* per Kind: calls in the observation               *)
  running    (* Collect has not returned                         *)

vars == <<made, counted, running>>

Init ==
  /\ made = [k \in Kind |-> 0] /\ counted = [k \in Kind |-> 0]
  /\ running = TRUE

(* The target is not ours: it makes calls before, during and after. A call   *)
(* may be of several kinds, one that opens a file is also a file access.     *)
Make(ks) ==
  /\ made' = [k \in Kind |-> IF k \in ks THEN made[k] + 1 ELSE made[k]]
  /\ UNCHANGED <<counted, running>>

Count(k) ==
  /\ running /\ counted[k] < made[k]
  /\ counted' = [counted EXCEPT ![k] = @ + 1]
  /\ UNCHANGED <<made, running>>

Return == running /\ running' = FALSE /\ UNCHANGED <<made, counted>>

Next == \/ \E ks \in SUBSET Kind : Make(ks)
        \/ \E k \in Kind : Count(k)
        \/ Return

(* What must never happen, and with it that Collect returns.                 *)
SafeSpec == Init /\ [][Next]_vars
Spec     == SafeSpec /\ WF_vars(Return)
=============================================================================
