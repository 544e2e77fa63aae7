----------------------------- MODULE MCPipeline -----------------------------
(***************************************************************************)
(* Captures for the pipeline.  As a syscall, feature 1 is ptrace (on the   *)
(* watch list) and 2 is an ordinary one.                                   *)
(***************************************************************************)
EXTENDS Pipeline

Features == 1 .. 2
Ranks == [k \in Features |-> k]

Blank ==
  [watch |-> {}, observed |-> [k \in Item |-> NoRecord],
   lists |-> [d \in ListDims |-> <<>>], sets |-> [d \in UnionDims |-> {}],
   files |-> [x \in Buckets |-> [k \in Item |-> 0]], children |-> <<>>,
   rss |-> 0, heap |-> 0, available |-> FALSE, persist |-> FALSE,
   weakened |-> FALSE, procReads |-> 0]

(* A call's record: one argument sample, and offsets that differ by run and  *)
(* may be negative.                                                          *)
Rec(on, at) ==
  IF on THEN [count |-> 1, first |-> -at, last |-> 1 - at, args |-> <<1>>] ELSE NoRecord

(* What the kernel backends and the procfs collectors deliver.  Two raw      *)
(* sockets of one kind give one key twice, as they do in a list that the     *)
(* collector keys by inode; with the child, file 1 is written and run and    *)
(* file 2 only run.                                                          *)
Linux(s, p, c) ==
  [Blank EXCEPT !.watch = {1},
                !.observed = [k \in Features |-> Rec(k \in s, Len(p))],
                !.lists = [ports |-> p, conns |-> <<>>, raw |-> p \o p],
                !.sets = [d \in UnionDims |-> IF d = "promisc" THEN {1} ELSE {}],
                !.files = [x \in Buckets |-> [k \in Features |->
                    IF x = "exec" \/ (x = "written" /\ k = 1) THEN Len(c)
                    ELSE 0]],
                !.children = c, !.rss = Len(c), !.heap = 1 - 2 * Len(c)]
LinuxCaptures ==
  {Linux(s, pc[1], pc[2]) :
     s \in {{}, {1}, {2}},
     pc \in {<<<<>>, <<>>>>, <<<<1>>, <<<<1, "h1">>>>>>,
             <<<<>>, <<<<1, "h2">>, <<2, "h1">>>>>>}}

(* No kernel backend: metadata only.                                         *)
BareCaptures ==
  {[Blank EXCEPT !.lists = [ports |-> p, conns |-> p, raw |-> <<>>]] :
     p \in {<<>>, <<1>>}}

(* Sysmon: repeated connections, registry keys (1 is sensitive), flags and   *)
(* accesses to other processes.                                              *)
SysmonCaptures ==
  {[Blank EXCEPT !.available = TRUE, !.persist = q, !.weakened = q,
                 !.procReads = Len(n),
                 !.lists = [ports |-> <<>>, conns |-> n, raw |-> <<>>],
                 !.sets = [d \in UnionDims |->
                     IF d \in {"regWritten", "mapped"} THEN r ELSE {}]] :
     q \in BOOLEAN, n \in {<<>>, <<1, 1>>}, r \in {{}, {1, 2}}}

AllCaptures == LinuxCaptures \cup BareCaptures \cup SysmonCaptures

(* A Linux host whose kernel takes the tracer, one where nothing is allowed, *)
(* and Windows with Sysmon.                                                  *)
Plain == [machine |-> "linux", wine |-> {}, virt |-> FALSE, container |-> {},
          kernel |-> <<5, 15>>, root |-> FALSE, caps |-> {}, strace |-> FALSE,
          bpf |-> FALSE, loads |-> FALSE, sysmon |-> FALSE]
AllHosts == {Plain, [Plain EXCEPT !.strace = TRUE, !.caps = {"ptrace"}],
             [Plain EXCEPT !.root = TRUE, !.loads = TRUE],
             [Plain EXCEPT !.machine = "windows", !.sysmon = TRUE]}
=============================================================================
