---------------------------- MODULE MCCollectors ----------------------------
(***************************************************************************)
(* Instances of Collectors for TLC.                                        *)
(***************************************************************************)
EXTENDS Collectors

CONSTANTS s1, f1, p1, x1, x2, a1

Map(backing, write, exec, big) ==
  [backing |-> backing, write |-> write, exec |-> exec, big |-> big]

(* Nothing, a library made writable, code in a large deleted file.           *)
MCMappings == {Unmapped, Map("file", TRUE, TRUE, FALSE), Map("deleted", TRUE, TRUE, TRUE)}
=============================================================================
