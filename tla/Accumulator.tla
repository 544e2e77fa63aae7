---------------------------- MODULE Accumulator ----------------------------
(***************************************************************************)
(* internal/baseline/merge.go: the Accumulator that folds the captures of  *)
(* successive baseline runs into one union baseline, counts in how many    *)
(* runs a feature appeared, and derives variance notes and a confidence.   *)
(*                                                                         *)
(* The maps that only remember "this key was seen" are sets.  A nil sensor  *)
(* result is the capture with that part empty: AddRun leaves the same state *)
(* for both.                                                               *)
(***************************************************************************)
EXTENDS Schema

CONSTANTS
  Captures,    (* the captures a run may produce                             *)
  MaxSamples,  (* maxSamples                                                 *)
  MaxRuns      (* bound: runs folded in                                      *)

ASSUME AccumulatorAssumption ==
  /\ IsFiniteSet(Item) /\ NoHash \notin Hash
  /\ MaxSamples \in Nat /\ MaxRuns \in Nat
ASSUME CapturesAssumption ==
  \A c \in Captures :
    /\ c \in Capture
    /\ \A k \in Item : Len(c.observed[k].args) <= MaxSamples

VARIABLES
  runs, syscalls, syscallRuns, suspicious,
  listRuns,    (* portRuns, connRuns, rawRuns: a key is in the map iff > 0   *)
  unions,      (* promisc, privSeen, memRegions, ..., regDeleted             *)
  files,       (* filesRead, ..., filesExec: Count by NormalizedPath         *)
  children,    (* children: path -> SHA256                                   *)
  peakRSS, heapGrowth, regAvailable, regPersist,
  log          (* history: the captures folded in, in order                  *)

accVars == <<runs, syscalls, syscallRuns, suspicious, listRuns, unions, files,
             children, peakRSS, heapGrowth, regAvailable, regPersist, log>>

----------------------------------------------------------------------------
(* New.                                                                     *)
Init ==
  /\ runs = 0
  /\ syscalls = [k \in Item |-> NoRecord]
  /\ syscallRuns = [k \in Item |-> 0]
  /\ suspicious = {}
  /\ listRuns = [d \in ListDims |-> [k \in Item |-> 0]]
  /\ unions = [d \in UnionDims |-> {}]
  /\ files = [b \in Buckets |-> [k \in Item |-> 0]]
  /\ children = [k \in Item |-> NoHash]
  /\ peakRSS = 0 /\ heapGrowth = 0
  /\ regAvailable = FALSE /\ regPersist = FALSE
  /\ log = <<>>

Larger(a, b)  == IF b > a THEN b ELSE a
Smaller(a, b) == IF b < a THEN b ELSE a

(* Mutant: the cap is forgotten.                                             *)
CapAppendUncapped(dst, src) == dst \o src

(* capAppendStr, capAppendI64: append until maxSamples are held.             *)
CapAppend(dst, src) ==
  dst \o SubSeq(src, 1, Smaller(Len(src), Larger(0, MaxSamples - Len(dst))))

(* Mutant: the later run's first offset replaces the earlier one.            *)
MergeSyscallLatestFirst(m, r) ==
  [count |-> m.count + r.count, first |-> r.first,
   last |-> Larger(m.last, r.last), args |-> CapAppend(m.args, r.args)]

MergeSyscall(m, r) ==
  [count |-> m.count + r.count,
   first |-> Smaller(m.first, r.first),
   last  |-> Larger(m.last, r.last),
   args  |-> CapAppend(m.args, r.args)]

(* Mutant: a name already known is not counted again.                        *)
CountSyscallOnce(k, r) ==
  IF r.count > 0 /\ syscallRuns[k] = 0 THEN 1 ELSE syscallRuns[k]

(* syscallRuns[name]++ for every name of the run's map.                      *)
CountSyscall(k, r) ==
  IF r.count > 0 THEN syscallRuns[k] + 1 ELSE syscallRuns[k]

(* One increment per list entry, so as many as the run repeats the key.      *)
Occurrences(s, k) == Cardinality({i \in DOMAIN s : s[i] = k})

(* Mutant: a new path gets the hash of the run's first child.                *)
FirstChildOfRun(c, k) ==
  IF children[k] # NoHash \/ \A i \in DOMAIN c.children : c.children[i][1] # k
  THEN children[k] ELSE c.children[1][2]

(* The first child seen at a path keeps its hash.                            *)
FirstChild(c, k) ==
  LET at == {i \in DOMAIN c.children : c.children[i][1] = k}
  IN  IF children[k] # NoHash \/ at = {} THEN children[k]
      ELSE c.children[CHOOSE i \in at : \A j \in at : i <= j][2]

(* Mutant: the union keeps only the latest run.                              *)
UnionLatest(old, new) == new
UnionOf(old, new) == old \cup new

AddRun(c) ==
  /\ runs < MaxRuns
  /\ runs' = runs + 1
  /\ suspicious' = IF c.watch # {} THEN c.watch ELSE suspicious
  /\ syscallRuns' = [k \in Item |-> CountSyscall(k, c.observed[k])]
  /\ syscalls' = [k \in Item |->
        IF c.observed[k].count = 0 THEN syscalls[k]
        ELSE IF syscalls[k].count > 0 THEN MergeSyscall(syscalls[k], c.observed[k])
        ELSE c.observed[k]]
  /\ listRuns' = [d \in ListDims |-> [k \in Item |->
        listRuns[d][k] + Occurrences(c.lists[d], k)]]
  /\ unions' = [d \in UnionDims |-> UnionOf(unions[d], c.sets[d])]
  /\ files' = [b \in Buckets |-> [k \in Item |-> files[b][k] + c.files[b][k]]]
  /\ children' = [k \in Item |-> FirstChild(c, k)]
  /\ peakRSS' = Larger(peakRSS, c.rss)
  /\ heapGrowth' = Larger(heapGrowth, c.heap)
  /\ regAvailable' = (regAvailable \/ c.available)
  /\ regPersist' = (regPersist \/ c.persist)
  /\ log' = Append(log, c)

----------------------------------------------------------------------------
(* Build.                                                                   *)

(* Mutant: the runs are compared one short.                                  *)
UnstableOffByOne(times) == {k \in Item : times[k] > 0 /\ times[k] < runs - 1}

(* Mutant: a key of every run counts as one that some run lacked.            *)
UnstableAtMost(times) == {k \in Item : times[k] > 0 /\ times[k] <= runs}

(* Keys of a counter map that some run did not have.                         *)
Unstable(times) == {k \in Item : times[k] > 0 /\ times[k] < runs}

(* varianceNotes looks at syscalls, listening ports and raw sockets.         *)
VarianceNotes ==
  IF runs <= 1 THEN {}
  ELSE {<<"syscalls", k>> : k \in Unstable(syscallRuns)}
         \cup {<<"ports", k>> : k \in Unstable(listRuns["ports"])}
         \cup {<<"raw", k>>   : k \in Unstable(listRuns["raw"])}

Keys(times) == {k \in Item : times[k] > 0}

(* Result.  Build never sets SecurityWeakened or ProcFSReads.                *)
Build ==
  [watch     |-> suspicious,
   observed  |-> syscalls,
   lists     |-> [d \in ListDims |-> Keys(listRuns[d])],
   sets      |-> unions,
   files     |-> files,
   children  |-> children,
   rss       |-> peakRSS, heap |-> heapGrowth,
   available |-> regAvailable, persist |-> regPersist,
   weakened  |-> FALSE, procReads |-> 0,
   notes     |-> VarianceNotes]

Confidence(n, hasVariance) ==
  IF n >= 3 THEN (IF hasVariance THEN "medium" ELSE "high")
  ELSE IF n = 2 THEN "medium" ELSE "low"

----------------------------------------------------------------------------
Next == \E c \in Captures : AddRun(c)
Spec == Init /\ [][Next]_accVars

----------------------------------------------------------------------------
(* Properties.                                                              *)

(* Which features capture c has in dimension d.                              *)
SyscallsOf(c) == {k \in Item : c.observed[k].count > 0}
ListOf(c, d)  == {k \in Item : \E i \in DOMAIN c.lists[d] : c.lists[d][i] = k}

(* The runs in which a syscall appeared, and those with a given list key.    *)
RunsWithSyscall(k) == {i \in DOMAIN log : k \in SyscallsOf(log[i])}
RunsWithKey(d, k)  == {i \in DOMAIN log : k \in ListOf(log[i], d)}

AccTypeOK ==
  /\ runs \in Nat /\ log \in Seq(Captures) /\ runs = Len(log)
  /\ syscalls \in [Item -> SyscallRecord]
  /\ \A k \in Item : Len(syscalls[k].args) <= MaxSamples
  /\ syscallRuns \in [Item -> Nat] /\ suspicious \in SUBSET Item
  /\ listRuns \in [ListDims -> [Item -> Nat]]
  /\ unions \in [UnionDims -> SUBSET Item]
  /\ files \in [Buckets -> [Item -> Nat]]
  /\ children \in [Item -> Hash \cup {NoHash}]
  /\ peakRSS \in Nat /\ heapGrowth \in Nat
  /\ regAvailable \in BOOLEAN /\ regPersist \in BOOLEAN

(* syscallRuns is the number of runs the syscall appeared in, the statement  *)
(* of the package comment.                                                   *)
SyscallRunsAreRuns ==
  \A k \in Item : syscallRuns[k] = Cardinality(RunsWithSyscall(k))

(* A key counts for at least as many runs as it appeared in, so a note about *)
(* it is never a false alarm.                                                *)
NotesAreTrue ==
  \A n \in VarianceNotes : \E i \in DOMAIN log :
    n[2] \notin (IF n[1] = "syscalls" THEN SyscallsOf(log[i])
                 ELSE ListOf(log[i], n[1]))

(* A high-confidence baseline is one whose every run had the same syscalls.  *)
HighMeansSameSyscalls ==
  Confidence(runs, VarianceNotes # {}) = "high" =>
    /\ Len(log) >= 3
    /\ \A i, j \in DOMAIN log : SyscallsOf(log[i]) = SyscallsOf(log[j])

(* The union keeps what any run saw, in every part of a capture but two:     *)
(* SecurityWeakened and ProcFSReads, both filled by Sysmon and compared by   *)
(* the analysis, are not carried over by Build, whatever the runs saw.       *)
OnlyTwoFieldsDropped ==
  /\ \A i \in DOMAIN log :
       /\ SyscallsOf(log[i]) \subseteq {k \in Item : Build.observed[k].count > 0}
       /\ \A d \in ListDims : ListOf(log[i], d) \subseteq Build.lists[d]
       /\ \A d \in UnionDims : log[i].sets[d] \subseteq Build.sets[d]
       /\ \A b \in Buckets : \A k \in Item :
            log[i].files[b][k] <= Build.files[b][k]
       /\ \A j \in DOMAIN log[i].children :
            Build.children[log[i].children[j][1]] # NoHash
       /\ log[i].rss <= Build.rss /\ log[i].heap <= Build.heap
       /\ log[i].persist => Build.persist
       /\ log[i].available => Build.available
  /\ ~Build.weakened /\ Build.procReads = 0

(* Nor does it have anything that no run saw, which would hide it from every *)
(* later analysis: each entry, the hash of a child included, is of some run. *)
NothingInvented ==
  /\ \A k \in Item : Build.observed[k].count > 0 => RunsWithSyscall(k) # {}
  /\ \A d \in ListDims : \A k \in Build.lists[d] : RunsWithKey(d, k) # {}
  /\ \A d \in UnionDims : \A k \in Build.sets[d] :
       \E i \in DOMAIN log : k \in log[i].sets[d]
  /\ \A b \in Buckets : \A k \in Item :
       Build.files[b][k] > 0 => \E i \in DOMAIN log : log[i].files[b][k] > 0
  /\ \A k \in Item : Build.children[k] # NoHash =>
       \E i \in DOMAIN log : <<k, Build.children[k]>> \in {log[i].children[j] :
                                 j \in DOMAIN log[i].children}
  /\ Build.watch # {} => \E i \in DOMAIN log : log[i].watch = Build.watch
  /\ Build.persist => \E i \in DOMAIN log : log[i].persist

(* The merged record spans the records of the runs: its offsets bound        *)
(* theirs, and are the offsets of some run.                                  *)
OffsetsSpanRuns ==
  \A k \in Item : \A i \in RunsWithSyscall(k) :
    /\ syscalls[k].first <= log[i].observed[k].first
    /\ log[i].observed[k].last <= syscalls[k].last
    /\ \E j \in RunsWithSyscall(k) : syscalls[k].first = log[j].observed[k].first
    /\ \E j \in RunsWithSyscall(k) : syscalls[k].last = log[j].observed[k].last
=============================================================================
