-------------------------- MODULE MCAnalysisEngine --------------------------
(***************************************************************************)
(* Small baselines and observations for the analysis engine.  Features 1   *)
(* to 4 serve every dimension: as a syscall 1 is watch-listed and benign   *)
(* and 2 is benign, as a raw socket 1 is a packet socket, as a path 1 is a *)
(* known interop path and 2 an unknown one, and so on.                     *)
(***************************************************************************)
EXTENDS AnalysisEngine

Features == 1 .. 4
Hashes == {"h1", "h2", NoDigest}
Ranks == [k \in Features |-> k]

Lists == {"ports", "conns", "raw"}
Sets  == {"promisc", "privileges", "regions", "mapped", "large",
          "regCreated", "regWritten", "regDeleted"}
Files == {"read", "written", "created", "deleted", "exec"}
Rec(n) == [count |-> n, first |-> 0, last |-> 0, args |-> <<>>]

Data(calls, lists, sets, files, kids) ==
  [watch |-> {1}, observed |-> [k \in Features |-> Rec(IF k \in calls THEN 1 ELSE 0)],
   lists |-> lists, sets |-> sets,
   files |-> [x \in Files |-> [k \in Features |-> IF k \in files[x] THEN 1 ELSE 0]],
   children |-> kids, rss |-> 0, heap |-> 0, available |-> TRUE,
   persist |-> FALSE, weakened |-> FALSE, procReads |-> 0]

NoFiles == [x \in Files |-> {}]
NoSets  == [x \in Sets |-> {}]

BaseData(calls, ports, kid) ==
  [Data(calls, [d \in Lists |-> IF d = "ports" THEN ports ELSE {}],
        [NoSets EXCEPT !["mapped"] = {1}, !["regWritten"] = {1}],
        [NoFiles EXCEPT !["exec"] = {1}], <<>>)
     EXCEPT !.children = [k \in Features |-> IF k = 1 THEN kid ELSE NoHash]]

(* Baselines with and without a port and a readable child binary, of both    *)
(* confidences, one with a weights map that lists a single type.             *)
MCBaselines ==
  {[data |-> BaseData(c, p, h), platform |-> "linux", confidence |-> q,
    weights |-> w] :
     c \in {{}, {3}}, p \in {{}, {1}}, h \in {"h1", NoDigest},
     q \in {"high", "low"}, w \in {NilWeights, [new_child_process |-> 6]}}

Obs(calls, lists, sets, files, kids, flag, plat) ==
  [data |-> [Data(calls, lists, sets, files, kids) EXCEPT
               !.persist = flag, !.weakened = flag,
               !.procReads = IF flag THEN 1 ELSE 0],
   platform |-> plat]
NoLists == [d \in Lists |-> <<>>]

(* Observations that vary one dimension at a time over varying syscalls.     *)
MCObservations ==
  LET S == {{}, {2}, {1, 2}, {2, 3, 4}, {1, 2, 3, 4}} IN
  {Obs(c, [ports |-> p, conns |-> <<>>, raw |-> r],
       [NoSets EXCEPT !["promisc"] = m], NoFiles, <<>>, FALSE, "linux") :
     c \in S, p \in {<<>>, <<1>>, <<1, 2>>}, r \in {<<>>, <<2>>, <<2, 1>>},
     m \in {{}, {1}}}
  \cup
  {Obs(c, [NoLists EXCEPT !["conns"] = n],
       [NoSets EXCEPT !["mapped"] = m, !["regions"] = g, !["regWritten"] = m,
                      !["regCreated"] = g, !["privileges"] = m],
       [NoFiles EXCEPT !["written"] = w, !["created"] = {1}, !["exec"] = w],
       k, f, t) :
     c \in {{2}, {1, 3}}, n \in {<<>>, <<1, 1>>}, m \in {{}, {1, 2}}, g \in {{}, {1}},
     w \in {{}, {1}, {1, 2}},
     k \in {<<>>, <<<<1, "h2">>>>, <<<<1, "h2">>, <<2, "h1">>>>},
     f \in BOOLEAN, t \in {"linux", "wsl2"}}

(* Observations that extend each other in several dimensions at once.        *)
GrowingObservations ==
  {Obs(c, [ports |-> p, conns |-> <<>>, raw |-> r],
       [NoSets EXCEPT !["promisc"] = {1}, !["regCreated"] = g],
       [NoFiles EXCEPT !["written"] = g, !["exec"] = g], k, f, "linux") :
     c \in {{}, {2, 4}, {1, 2, 4}}, p \in {<<>>, <<1, 2>>}, r \in {<<>>, <<1>>},
     g \in {{}, {2}}, k \in {<<>>, <<<<1, "h1">>, <<1, "h2">>>>}, f \in BOOLEAN}
AllObservations == MCObservations \cup GrowingObservations
=============================================================================
