------------------------- MODULE Accumulator_proofs -------------------------
(***************************************************************************)
(* Theorems about the Accumulator for every set of captures and any number *)
(* of runs.                                                                *)
(***************************************************************************)
EXTENDS Accumulator, Ordered_proofs

(* Merging two samples keeps within maxSamples, whatever their lengths.      *)
LEMMA CapAppendBounded ==
  ASSUME NEW S, NEW dst \in Seq(S), NEW src \in Seq(S),
         Len(dst) <= MaxSamples
  PROVE  /\ CapAppend(dst, src) \in Seq(S)
         /\ Len(CapAppend(dst, src)) <= MaxSamples
<1> DEFINE n == Smaller(Len(src), Larger(0, MaxSamples - Len(dst)))
<1>1. n \in 0 .. Len(src) /\ n <= MaxSamples - Len(dst)
  BY AccumulatorAssumption DEF Smaller, Larger
<1>2. /\ SubSeq(src, 1, n) \in Seq(S)
      /\ Len(SubSeq(src, 1, n)) = n
  BY <1>1
<1> HIDE DEF n
<1>3. /\ dst \o SubSeq(src, 1, n) \in Seq(S)
      /\ Len(dst \o SubSeq(src, 1, n)) = Len(dst) + n
  BY <1>2
<1> QED BY <1>1, <1>3, AccumulatorAssumption DEF CapAppend, n

(* Merging two records of one syscall gives a record.                        *)
LEMMA MergeSyscallType ==
  ASSUME NEW m \in SyscallRecord, NEW r \in SyscallRecord,
         Len(m.args) <= MaxSamples
  PROVE  /\ MergeSyscall(m, r) \in SyscallRecord
         /\ Len(MergeSyscall(m, r).args) <= MaxSamples
<1>1. /\ CapAppend(m.args, r.args) \in Seq(Item)
      /\ Len(CapAppend(m.args, r.args)) <= MaxSamples
  BY CapAppendBounded DEF SyscallRecord
<1>2. /\ m.count + r.count \in Nat
      /\ Smaller(m.first, r.first) \in Int
      /\ Larger(m.last, r.last) \in Int
  BY DEF SyscallRecord, Smaller, Larger
<1> QED BY <1>1, <1>2 DEF MergeSyscall, SyscallRecord

(* Occurrences counts list entries.                                          *)
LEMMA OccurrencesType ==
  ASSUME NEW S, NEW s \in Seq(S), NEW k
  PROVE  Occurrences(s, k) \in Nat
<1>1. IsFiniteSet(DOMAIN s)
  BY FS_Interval
<1>2. IsFiniteSet({i \in DOMAIN s : s[i] = k})
  BY <1>1, FS_Subset
<1> QED BY <1>2, FS_CardinalityType DEF Occurrences

(* FirstChild keeps a hash or takes one of the run's.                        *)
LEMMA FirstChildType ==
  ASSUME NEW c \in Capture, NEW k \in Item,
         children \in [Item -> Hash \cup {NoHash}]
  PROVE  FirstChild(c, k) \in Hash \cup {NoHash}
<1> DEFINE at == {i \in DOMAIN c.children : c.children[i][1] = k}
<1>1. c.children \in Seq(Item \X Hash)
  BY DEF Capture
<1>2. \A i \in DOMAIN c.children : c.children[i][2] \in Hash
  BY <1>1
<1>3. CASE children[k] # NoHash \/ at = {}
  BY <1>3 DEF FirstChild
<1>4. CASE ~(children[k] # NoHash \/ at = {})
  <2>1. PICK x \in at : TRUE
    BY <1>4
  <2>2. at \subseteq Nat
    BY <1>1
  <2> HIDE DEF at
  <2>3. PICK i \in at : \A j \in at : i <= j
    BY <2>1, <2>2, SmallestOf
  <2>6. (CHOOSE m \in at : \A j \in at : m <= j) \in at
    BY <2>3
  <2> QED BY <1>2, <1>4, <2>6 DEF FirstChild, at
<1> QED BY <1>3, <1>4

----------------------------------------------------------------------------
(* AddRun keeps the types: in particular no sample outgrows maxSamples and   *)
(* the run counter is the number of captures folded in.                      *)
LEMMA AddRunType ==
  ASSUME AccTypeOK, NEW c \in Captures, AddRun(c)
  PROVE  AccTypeOK'
<1>1. c \in Capture /\ \A k \in Item : Len(c.observed[k].args) <= MaxSamples
  BY CapturesAssumption
<1>2. runs' \in Nat /\ log' \in Seq(Captures) /\ runs' = Len(log')
  BY DEF AddRun, AccTypeOK
<1>3. /\ syscalls' \in [Item -> SyscallRecord]
      /\ \A k \in Item : Len(syscalls'[k].args) <= MaxSamples
  <2> SUFFICES ASSUME NEW k \in Item
               PROVE  /\ syscalls'[k] \in SyscallRecord
                      /\ Len(syscalls'[k].args) <= MaxSamples
    BY DEF AddRun
  <2>1. syscalls[k] \in SyscallRecord /\ Len(syscalls[k].args) <= MaxSamples
    BY DEF AccTypeOK
  <2>2. c.observed[k] \in SyscallRecord
    BY <1>1 DEF Capture
  <2>3. /\ MergeSyscall(syscalls[k], c.observed[k]) \in SyscallRecord
        /\ Len(MergeSyscall(syscalls[k], c.observed[k]).args) <= MaxSamples
    BY <2>1, <2>2, MergeSyscallType
  <2> QED BY <1>1, <2>1, <2>2, <2>3 DEF AddRun
<1>4. syscallRuns' \in [Item -> Nat]
  BY DEF AddRun, AccTypeOK, CountSyscall
<1>5. suspicious' \in SUBSET Item
  BY <1>1 DEF AddRun, AccTypeOK, Capture
<1>6. listRuns' \in [ListDims -> [Item -> Nat]]
  <2> SUFFICES ASSUME NEW d \in ListDims, NEW k \in Item
               PROVE  listRuns[d][k] + Occurrences(c.lists[d], k) \in Nat
    BY DEF AddRun
  <2>1. c.lists[d] \in Seq(Item)
    BY <1>1 DEF Capture
  <2>2. Occurrences(c.lists[d], k) \in Nat
    BY <2>1, OccurrencesType
  <2> QED BY <2>2 DEF AccTypeOK
<1>7. unions' \in [UnionDims -> SUBSET Item]
  BY <1>1 DEF AddRun, AccTypeOK, Capture, UnionOf
<1>8. files' \in [Buckets -> [Item -> Nat]]
  BY <1>1 DEF AddRun, AccTypeOK, Capture
<1>9. children' \in [Item -> Hash \cup {NoHash}]
  BY <1>1, FirstChildType DEF AddRun, AccTypeOK
<1>10. peakRSS' \in Nat /\ heapGrowth' \in Nat
  BY <1>1 DEF AddRun, AccTypeOK, Capture, Larger
<1>11. regAvailable' \in BOOLEAN /\ regPersist' \in BOOLEAN
  BY <1>1 DEF AddRun, AccTypeOK, Capture
<1> QED
  BY <1>2, <1>3, <1>4, <1>5, <1>6, <1>7, <1>8, <1>9, <1>10, <1>11 DEF AccTypeOK

(* AccTypeOK holds in every state, for every set of captures.                *)
THEOREM AccTypeCorrect == Spec => []AccTypeOK
<1>1. Init => AccTypeOK
  <2> SUFFICES ASSUME Init PROVE AccTypeOK
    OBVIOUS
  <2>1. NoRecord \in SyscallRecord /\ Len(NoRecord.args) <= MaxSamples
    BY AccumulatorAssumption DEF NoRecord, SyscallRecord
  <2>2. /\ runs \in Nat /\ log \in Seq(Captures) /\ runs = Len(log)
        /\ syscalls \in [Item -> SyscallRecord]
        /\ \A k \in Item : Len(syscalls[k].args) <= MaxSamples
    BY <2>1 DEF Init
  <2>3. /\ syscallRuns \in [Item -> Nat] /\ suspicious \in SUBSET Item
        /\ listRuns \in [ListDims -> [Item -> Nat]]
        /\ unions \in [UnionDims -> SUBSET Item]
        /\ files \in [Buckets -> [Item -> Nat]]
    BY DEF Init
  <2>4. /\ children \in [Item -> Hash \cup {NoHash}]
        /\ peakRSS \in Nat /\ heapGrowth \in Nat
        /\ regAvailable \in BOOLEAN /\ regPersist \in BOOLEAN
    BY DEF Init
  <2> QED BY <2>2, <2>3, <2>4 DEF AccTypeOK
<1>2. AccTypeOK /\ [Next]_accVars => AccTypeOK'
  <2>1. ASSUME AccTypeOK, Next PROVE AccTypeOK'
    BY <2>1, AddRunType DEF Next
  <2>2. ASSUME AccTypeOK, UNCHANGED accVars PROVE AccTypeOK'
    BY <2>2 DEF AccTypeOK, accVars
  <2> QED BY <2>1, <2>2
<1> QED BY <1>1, <1>2, PTL DEF Spec

----------------------------------------------------------------------------
(* The runs a syscall appeared in are finitely many.                         *)
LEMMA RunsWithSyscallFinite ==
  ASSUME AccTypeOK, NEW k \in Item
  PROVE  /\ RunsWithSyscall(k) \subseteq 1 .. Len(log)
         /\ IsFiniteSet(RunsWithSyscall(k))
         /\ IsFiniteSet(1 .. Len(log))
         /\ Cardinality(1 .. Len(log)) = Len(log)
<1>1. DOMAIN log = 1 .. Len(log) /\ Len(log) \in Nat
  BY DEF AccTypeOK
<1>2. IsFiniteSet(1 .. Len(log)) /\ Cardinality(1 .. Len(log)) = Len(log)
  <2> DEFINE n == Len(log)
  <2>1. n \in Nat
    BY <1>1
  <2> HIDE DEF n
  <2>2. IsFiniteSet(1 .. n) /\ Cardinality(1 .. n) = IF 1 > n THEN 0 ELSE n - 1 + 1
    BY <2>1, FS_Interval
  <2>3. Cardinality(1 .. n) = n
    BY <2>1, <2>2
  <2> QED BY <2>2, <2>3 DEF n
<1>3. RunsWithSyscall(k) \in SUBSET (1 .. Len(log))
  BY <1>1 DEF RunsWithSyscall
<1> QED BY <1>2, <1>3, FS_Subset

(* AddRun adds the new run to those of exactly the syscalls it has.          *)
LEMMA RunsWithSyscallStep ==
  ASSUME AccTypeOK, NEW c \in Captures, AddRun(c), NEW k \in Item
  PROVE  RunsWithSyscall(k)' = IF c.observed[k].count > 0
                               THEN RunsWithSyscall(k) \cup {Len(log) + 1}
                               ELSE RunsWithSyscall(k)
<1>1. log \in Seq(Captures) /\ Len(log) \in Nat
  BY DEF AccTypeOK
<1>2. /\ DOMAIN log = 1 .. Len(log)
      /\ DOMAIN log' = DOMAIN log \cup {Len(log) + 1}
      /\ \A i \in DOMAIN log : log'[i] = log[i]
      /\ log'[Len(log) + 1] = c
      /\ Len(log) + 1 \notin DOMAIN log
  BY <1>1 DEF AddRun
<1>3. \A i \in DOMAIN log :
        k \in SyscallsOf(log'[i]) <=> k \in SyscallsOf(log[i])
  BY <1>2
<1>4. k \in SyscallsOf(log'[Len(log) + 1]) <=> c.observed[k].count > 0
  BY <1>2 DEF SyscallsOf
<1>5. RunsWithSyscall(k)' = {i \in DOMAIN log' : k \in SyscallsOf(log'[i])}
  BY DEF RunsWithSyscall, SyscallsOf
<1> QED BY <1>2, <1>3, <1>4, <1>5 DEF RunsWithSyscall

(* One step of the argument that syscallRuns counts runs.                    *)
LEMMA AddRunCounts ==
  ASSUME AccTypeOK, SyscallRunsAreRuns, NEW c \in Captures, AddRun(c)
  PROVE  SyscallRunsAreRuns'
<1> SUFFICES ASSUME NEW k \in Item
             PROVE  syscallRuns'[k] = Cardinality(RunsWithSyscall(k)')
  BY DEF SyscallRunsAreRuns
<1>1. syscallRuns[k] = Cardinality(RunsWithSyscall(k))
  BY DEF SyscallRunsAreRuns
<1>2. syscallRuns'[k] = CountSyscall(k, c.observed[k])
  BY DEF AddRun
<1>3. CASE c.observed[k].count > 0
  <2>1. Len(log) + 1 \notin RunsWithSyscall(k)
    BY RunsWithSyscallFinite DEF AccTypeOK
  <2>2. Cardinality(RunsWithSyscall(k) \cup {Len(log) + 1})
          = Cardinality(RunsWithSyscall(k)) + 1
    BY <2>1, RunsWithSyscallFinite, FS_AddElement
  <2> QED BY <1>1, <1>2, <1>3, <2>2, RunsWithSyscallStep DEF CountSyscall
<1>4. CASE ~(c.observed[k].count > 0)
  BY <1>1, <1>2, <1>4, RunsWithSyscallStep DEF CountSyscall
<1> QED BY <1>3, <1>4

(* syscallRuns[name] is the number of runs the name appeared in, the count   *)
(* that varianceNotes compares with the number of runs.                      *)
THEOREM SyscallRunsCorrect == Spec => []SyscallRunsAreRuns
<1>1. Init => SyscallRunsAreRuns
  <2> SUFFICES ASSUME Init, NEW k \in Item
               PROVE  syscallRuns[k] = Cardinality(RunsWithSyscall(k))
    BY DEF SyscallRunsAreRuns
  <2>1. RunsWithSyscall(k) = {}
    BY DEF Init, RunsWithSyscall
  <2> QED BY <2>1, FS_EmptySet DEF Init
<1>2. AccTypeOK /\ SyscallRunsAreRuns /\ [Next]_accVars => SyscallRunsAreRuns'
  <2>1. ASSUME AccTypeOK, SyscallRunsAreRuns, Next PROVE SyscallRunsAreRuns'
    BY <2>1, AddRunCounts DEF Next
  <2>2. ASSUME SyscallRunsAreRuns, UNCHANGED accVars PROVE SyscallRunsAreRuns'
    BY <2>2 DEF SyscallRunsAreRuns, RunsWithSyscall, accVars
  <2> QED BY <2>1, <2>2
<1> QED BY <1>1, <1>2, AccTypeCorrect, PTL DEF Spec

----------------------------------------------------------------------------
(* Without a note every syscall was in every run: its count is the number of *)
(* runs, so the runs it appeared in are all of them.                         *)
LEMMA NoNotesNoDifference ==
  ASSUME AccTypeOK, SyscallRunsAreRuns, runs > 1, VarianceNotes = {},
         NEW k \in Item, RunsWithSyscall(k) # {}
  PROVE  RunsWithSyscall(k) = 1 .. Len(log)
<1>1. syscallRuns[k] = Cardinality(RunsWithSyscall(k)) /\ syscallRuns[k] \in Nat
  BY DEF SyscallRunsAreRuns, AccTypeOK
<1>2. syscallRuns[k] # 0
  BY <1>1, RunsWithSyscallFinite, FS_EmptySet
<1>3. k \notin Unstable(syscallRuns)
  <2>1. <<"syscalls", k>> \notin VarianceNotes
    OBVIOUS
  <2>2. ~(runs <= 1)
    BY DEF AccTypeOK
  <2> QED BY <2>1, <2>2 DEF VarianceNotes
<1>4. ~(syscallRuns[k] < runs)
  BY <1>1, <1>2, <1>3 DEF Unstable
<1>5. RunsWithSyscall(k) \in SUBSET (1 .. Len(log))
  BY RunsWithSyscallFinite
<1>6. Cardinality(RunsWithSyscall(k)) <= Cardinality(1 .. Len(log))
  BY <1>5, RunsWithSyscallFinite, FS_Subset
<1>7. Cardinality(RunsWithSyscall(k)) = Cardinality(1 .. Len(log))
  BY <1>1, <1>4, <1>6, RunsWithSyscallFinite DEF AccTypeOK
<1> QED BY <1>5, <1>7, RunsWithSyscallFinite, FS_Subset

(* A baseline marked high has at least three runs, and all of them had the   *)
(* same syscalls.                                                            *)
THEOREM HighSound == Spec => []HighMeansSameSyscalls
<1>1. AccTypeOK /\ SyscallRunsAreRuns => HighMeansSameSyscalls
  <2> SUFFICES ASSUME AccTypeOK, SyscallRunsAreRuns,
                      Confidence(runs, VarianceNotes # {}) = "high"
               PROVE  /\ Len(log) >= 3
                      /\ \A i, j \in DOMAIN log :
                           SyscallsOf(log[i]) = SyscallsOf(log[j])
    BY DEF HighMeansSameSyscalls
  <2>1. runs >= 3 /\ VarianceNotes = {}
    BY DEF Confidence
  <2>2. runs \in Nat /\ runs = Len(log) /\ DOMAIN log = 1 .. Len(log)
    BY DEF AccTypeOK
  <2>3. ASSUME NEW i \in DOMAIN log, NEW j \in DOMAIN log, NEW k \in Item,
               k \in SyscallsOf(log[i])
        PROVE  k \in SyscallsOf(log[j])
    <3>1. i \in RunsWithSyscall(k)
      BY <2>3 DEF RunsWithSyscall
    <3>2. RunsWithSyscall(k) = 1 .. Len(log)
      BY <3>1, <2>1, <2>2, NoNotesNoDifference
    <3> QED BY <3>2, <2>2 DEF RunsWithSyscall
  <2>4. \A i, j \in DOMAIN log : SyscallsOf(log[i]) = SyscallsOf(log[j])
    <3> SUFFICES ASSUME NEW i \in DOMAIN log, NEW j \in DOMAIN log
                 PROVE  SyscallsOf(log[i]) = SyscallsOf(log[j])
      OBVIOUS
    <3>1. SyscallsOf(log[i]) \subseteq Item /\ SyscallsOf(log[j]) \subseteq Item
      BY DEF SyscallsOf
    <3> QED BY <2>3, <3>1
  <2> QED BY <2>1, <2>2, <2>4
<1> QED BY <1>1, AccTypeCorrect, SyscallRunsCorrect, PTL

----------------------------------------------------------------------------
(* AddRun appends the capture to the history and leaves the rest of it.      *)
LEMMA LogStep ==
  ASSUME AccTypeOK, NEW c \in Captures, AddRun(c)
  PROVE  /\ log \in Seq(Captures) /\ Len(log) \in Nat
         /\ DOMAIN log = 1 .. Len(log)
         /\ DOMAIN log' = DOMAIN log \cup {Len(log) + 1}
         /\ Len(log) + 1 \notin DOMAIN log
         /\ \A i \in DOMAIN log : log'[i] = log[i] /\ log[i] \in Capture
         /\ log'[Len(log) + 1] = c /\ c \in Capture
<1>1. log \in Seq(Captures) /\ Len(log) \in Nat
  BY DEF AccTypeOK
<1>2. /\ DOMAIN log = 1 .. Len(log)
      /\ DOMAIN log' = DOMAIN log \cup {Len(log) + 1}
      /\ \A i \in DOMAIN log : log'[i] = log[i] /\ log[i] \in Captures
      /\ log'[Len(log) + 1] = c
      /\ Len(log) + 1 \notin DOMAIN log
  BY <1>1 DEF AddRun
<1> QED BY <1>1, <1>2, CapturesAssumption

(* A key that a list has is counted at least once.                           *)
LEMMA OccurrencesPositive ==
  ASSUME NEW S, NEW s \in Seq(S), NEW k, \E i \in DOMAIN s : s[i] = k
  PROVE  Occurrences(s, k) >= 1
<1>1. IsFiniteSet(DOMAIN s)
  BY FS_Interval
<1>2. IsFiniteSet({i \in DOMAIN s : s[i] = k})
  BY <1>1, FS_Subset
<1>3. {i \in DOMAIN s : s[i] = k} # {}
  OBVIOUS
<1>4. Occurrences(s, k) # 0
  BY <1>2, <1>3, FS_EmptySet DEF Occurrences
<1> QED BY <1>4, OccurrencesType

(* A child of the run at a path leaves that path with a hash.                *)
LEMMA FirstChildKnown ==
  ASSUME NEW c \in Capture, NEW k \in Item,
         children[k] # NoHash \/ \E i \in DOMAIN c.children : c.children[i][1] = k
  PROVE  FirstChild(c, k) # NoHash
<1> DEFINE at == {i \in DOMAIN c.children : c.children[i][1] = k}
<1>1. c.children \in Seq(Item \X Hash)
  BY DEF Capture
<1>2. \A i \in DOMAIN c.children : c.children[i][2] # NoHash
  BY <1>1, AccumulatorAssumption
<1>3. CASE children[k] # NoHash
  BY <1>3 DEF FirstChild
<1>4. CASE children[k] = NoHash
  <2>1. PICK x \in at : TRUE
    BY <1>4
  <2>2. at \subseteq Nat
    BY <1>1
  <2> HIDE DEF at
  <2>3. PICK i \in at : \A j \in at : i <= j
    BY <2>1, <2>2, SmallestOf
  <2>4. (CHOOSE m \in at : \A j \in at : m <= j) \in at
    BY <2>3
  <2>5. FirstChild(c, k) = c.children[CHOOSE m \in at : \A j \in at : m <= j][2]
    BY <1>4, <2>1 DEF FirstChild, at
  <2> QED BY <1>2, <2>4, <2>5 DEF at
<1> QED BY <1>3, <1>4

(* What capture x showed is in the maps of the Accumulator.                  *)
Kept(x) ==
  /\ \A k \in Item : x.observed[k].count > 0 => syscalls[k].count > 0
  /\ \A d \in ListDims : \A k \in Item :
       k \in ListOf(x, d) => listRuns[d][k] > 0
  /\ \A d \in UnionDims : x.sets[d] \subseteq unions[d]
  /\ \A b \in Buckets : \A k \in Item : x.files[b][k] <= files[b][k]
  /\ \A j \in DOMAIN x.children : children[x.children[j][1]] # NoHash
  /\ x.rss <= peakRSS /\ x.heap <= heapGrowth
  /\ x.persist => regPersist
  /\ x.available => regAvailable

(* A run adds what it showed and takes nothing away.                         *)
LEMMA KeptStep ==
  ASSUME AccTypeOK, NEW c \in Captures, AddRun(c), NEW x \in Capture,
         Kept(x) \/ x = c
  PROVE  Kept(x)'
<1>1. c \in Capture
  BY CapturesAssumption
<1>2. \A k \in Item : x.observed[k].count > 0 => syscalls'[k].count > 0
  <2> SUFFICES ASSUME NEW k \in Item, x.observed[k].count > 0
               PROVE  syscalls'[k].count > 0
    OBVIOUS
  <2>1. syscalls[k] \in SyscallRecord /\ c.observed[k] \in SyscallRecord
    BY <1>1 DEF AccTypeOK, Capture
  <2>2. syscalls[k].count > 0 \/ c.observed[k].count > 0
    BY DEF Kept
  <2>3. syscalls'[k] = IF c.observed[k].count = 0 THEN syscalls[k]
                       ELSE IF syscalls[k].count > 0
                            THEN MergeSyscall(syscalls[k], c.observed[k])
                       ELSE c.observed[k]
    BY DEF AddRun
  <2>4. MergeSyscall(syscalls[k], c.observed[k]).count
          = syscalls[k].count + c.observed[k].count
    BY DEF MergeSyscall
  <2>5. syscalls[k].count \in Nat /\ c.observed[k].count \in Nat
    BY <2>1 DEF SyscallRecord
  <2> QED BY <2>2, <2>3, <2>4, <2>5
<1>3. \A d \in ListDims : \A k \in Item :
        k \in ListOf(x, d) => listRuns'[d][k] > 0
  <2> SUFFICES ASSUME NEW d \in ListDims, NEW k \in Item, k \in ListOf(x, d)
               PROVE  listRuns'[d][k] > 0
    OBVIOUS
  <2>1. listRuns'[d][k] = listRuns[d][k] + Occurrences(c.lists[d], k)
    BY DEF AddRun
  <2>2. c.lists[d] \in Seq(Item) /\ listRuns[d][k] \in Nat
    BY <1>1 DEF AccTypeOK, Capture
  <2>3. Occurrences(c.lists[d], k) \in Nat
    BY <2>2, OccurrencesType
  <2>4. CASE Kept(x)
    BY <2>1, <2>2, <2>3, <2>4 DEF Kept
  <2>5. CASE x = c
    <3>1. Occurrences(c.lists[d], k) >= 1
      BY <2>2, <2>5, OccurrencesPositive DEF ListOf
    <3> QED BY <2>1, <2>2, <2>3, <3>1
  <2> QED BY <2>4, <2>5
<1>4. \A d \in UnionDims : x.sets[d] \subseteq unions'[d]
  BY DEF AddRun, UnionOf, Kept
<1>5. \A b \in Buckets : \A k \in Item : x.files[b][k] <= files'[b][k]
  <2> SUFFICES ASSUME NEW b \in Buckets, NEW k \in Item
               PROVE  x.files[b][k] <= files'[b][k]
    OBVIOUS
  <2>1. /\ files[b][k] \in Nat /\ c.files[b][k] \in Nat /\ x.files[b][k] \in Nat
        /\ files'[b][k] = files[b][k] + c.files[b][k]
    BY <1>1 DEF AccTypeOK, Capture, AddRun
  <2>2. x.files[b][k] <= files[b][k] \/ x.files[b][k] = c.files[b][k]
    BY DEF Kept
  <2> QED BY <2>1, <2>2
<1>6. \A j \in DOMAIN x.children : children'[x.children[j][1]] # NoHash
  <2> SUFFICES ASSUME NEW j \in DOMAIN x.children
               PROVE  children'[x.children[j][1]] # NoHash
    OBVIOUS
  <2> DEFINE k == x.children[j][1]
  <2>1. x.children \in Seq(Item \X Hash)
    BY DEF Capture
  <2>2. k \in Item
    BY <2>1
  <2>3. children[k] # NoHash \/ \E i \in DOMAIN c.children : c.children[i][1] = k
    BY DEF Kept
  <2>4. children'[k] = FirstChild(c, k)
    BY <2>2 DEF AddRun
  <2> HIDE DEF k
  <2>5. FirstChild(c, k) # NoHash
    BY <1>1, <2>2, <2>3, FirstChildKnown
  <2> QED BY <2>4, <2>5 DEF k
<1>7. x.rss <= peakRSS' /\ x.heap <= heapGrowth'
  <2>1. /\ peakRSS' = Larger(peakRSS, c.rss) /\ heapGrowth' = Larger(heapGrowth, c.heap)
        /\ peakRSS \in Nat /\ heapGrowth \in Nat
        /\ c.rss \in Nat /\ c.heap \in Int /\ x.rss \in Nat /\ x.heap \in Int
    BY <1>1 DEF AddRun, AccTypeOK, Capture
  <2>2. (x.rss <= peakRSS /\ x.heap <= heapGrowth) \/ (x.rss = c.rss /\ x.heap = c.heap)
    BY DEF Kept
  <2> QED BY <2>1, <2>2 DEF Larger
<1>8. x.persist => regPersist'
  BY DEF AddRun, Kept
<1>9. x.available => regAvailable'
  BY DEF AddRun, Kept
<1> QED BY <1>2, <1>3, <1>4, <1>5, <1>6, <1>7, <1>8, <1>9 DEF Kept, ListOf

AllKept == \A i \in DOMAIN log : Kept(log[i])

(* The baseline keeps what any of its runs showed, however many runs there   *)
(* were and in whatever order they came, in every part but the two that      *)
(* Build leaves out: the weakened mark and the process accesses.             *)
THEOREM TwoFieldsDroppedCorrect == Spec => []OnlyTwoFieldsDropped
<1>1. Init => AllKept
  BY DEF Init, AllKept
<1>2. AccTypeOK /\ AllKept /\ [Next]_accVars => AllKept'
  <2>1. ASSUME AccTypeOK, AllKept, NEW c \in Captures, AddRun(c) PROVE AllKept'
    <3> SUFFICES ASSUME NEW i \in DOMAIN log' PROVE Kept(log[i])'
      BY DEF AllKept
    <3>1. PICK x : x = log'[i]
      OBVIOUS
    <3>2. x \in Capture /\ (Kept(x) \/ x = c)
      BY <2>1, <3>1, LogStep DEF AllKept
    <3>3. Kept(x)'
      BY <2>1, <3>2, KeptStep
    <3> QED BY <3>1, <3>3 DEF Kept, ListOf
  <2>2. ASSUME AllKept, UNCHANGED accVars PROVE AllKept'
    BY <2>2 DEF AllKept, Kept, ListOf, accVars
  <2> QED BY <2>1, <2>2 DEF Next
<1>3. AccTypeOK /\ AllKept => OnlyTwoFieldsDropped
  <2> SUFFICES ASSUME AccTypeOK, AllKept, NEW i \in DOMAIN log
               PROVE  /\ SyscallsOf(log[i]) \subseteq {k \in Item : syscalls[k].count > 0}
                      /\ \A d \in ListDims : ListOf(log[i], d) \subseteq Keys(listRuns[d])
                      /\ \A d \in UnionDims : log[i].sets[d] \subseteq unions[d]
                      /\ \A b \in Buckets : \A k \in Item :
                           log[i].files[b][k] <= files[b][k]
                      /\ \A j \in DOMAIN log[i].children :
                           children[log[i].children[j][1]] # NoHash
                      /\ log[i].rss <= peakRSS /\ log[i].heap <= heapGrowth
                      /\ log[i].persist => regPersist
                      /\ log[i].available => regAvailable
    BY DEF OnlyTwoFieldsDropped, Build
  <2>1. Kept(log[i])
    BY DEF AllKept
  <2>2. SyscallsOf(log[i]) \subseteq {k \in Item : syscalls[k].count > 0}
    BY <2>1 DEF Kept, SyscallsOf
  <2>3. \A d \in ListDims : ListOf(log[i], d) \subseteq Keys(listRuns[d])
    BY <2>1 DEF Kept, ListOf, Keys
  <2> QED BY <2>1, <2>2, <2>3 DEF Kept
<1> QED BY <1>1, <1>2, <1>3, AccTypeCorrect, PTL DEF Spec
----------------------------------------------------------------------------
(* The merged record of syscall k exists when some run has it, and its       *)
(* offsets are the least and the greatest of these runs.                     *)
Spans(k) ==
  /\ syscalls[k].count > 0 <=> RunsWithSyscall(k) # {}
  /\ \A i \in RunsWithSyscall(k) :
       /\ syscalls[k].first <= log[i].observed[k].first
       /\ log[i].observed[k].last <= syscalls[k].last
  /\ RunsWithSyscall(k) # {} =>
       /\ \E j \in RunsWithSyscall(k) : syscalls[k].first = log[j].observed[k].first
       /\ \E j \in RunsWithSyscall(k) : syscalls[k].last = log[j].observed[k].last

(* The smaller and the larger of two offsets.                                *)
LEMMA SmallerLarger ==
  ASSUME NEW a \in Int, NEW b \in Int
  PROVE  /\ Smaller(a, b) \in {a, b} /\ Smaller(a, b) <= a /\ Smaller(a, b) <= b
         /\ Larger(a, b) \in {a, b} /\ a <= Larger(a, b) /\ b <= Larger(a, b)
BY DEF Smaller, Larger

(* One run merges its record into the span of those before it.               *)
LEMMA SpansStep ==
  ASSUME AccTypeOK, NEW c \in Captures, AddRun(c), NEW k \in Item, Spans(k)
  PROVE  Spans(k)'
<1> DEFINE R == RunsWithSyscall(k)
           Q == RunsWithSyscall(k)'
           m == syscalls[k]
           r == c.observed[k]
           n == Len(log) + 1
<1>1. c \in Capture /\ m \in SyscallRecord /\ r \in SyscallRecord
  BY LogStep DEF AccTypeOK, Capture
<1>2. Q = IF r.count > 0 THEN R \cup {n} ELSE R
  BY RunsWithSyscallStep
<1>3. \A i \in R : log'[i] = log[i] /\ log[i].observed[k] \in SyscallRecord
  BY LogStep DEF RunsWithSyscall, Capture
<1>4. log'[n].observed[k] = r
  BY LogStep
<1>5. syscalls'[k] = IF r.count = 0 THEN m
                     ELSE IF m.count > 0 THEN MergeSyscall(m, r) ELSE r
  BY DEF AddRun
<1>6. /\ m.count \in Nat /\ m.first \in Int /\ m.last \in Int
      /\ r.count \in Nat /\ r.first \in Int /\ r.last \in Int
      /\ \A i \in R : /\ log[i].observed[k].first \in Int
                      /\ log[i].observed[k].last \in Int
  BY <1>1, <1>3 DEF SyscallRecord
<1>7. /\ m.count > 0 <=> R # {}
      /\ \A i \in R : /\ m.first <= log[i].observed[k].first
                      /\ log[i].observed[k].last <= m.last
      /\ R # {} => /\ \E j \in R : m.first = log[j].observed[k].first
                   /\ \E j \in R : m.last = log[j].observed[k].last
  BY DEF Spans
<1> DEFINE S == syscalls'[k]
<1> SUFFICES /\ S.count > 0 <=> Q # {}
             /\ \A i \in Q : /\ S.first <= log'[i].observed[k].first
                             /\ log'[i].observed[k].last <= S.last
             /\ Q # {} => /\ \E j \in Q : S.first = log'[j].observed[k].first
                          /\ \E j \in Q : S.last = log'[j].observed[k].last
  BY DEF Spans
<1> HIDE DEF R, Q, m, r, n, S
<1>8. CASE r.count = 0
  <2>1. Q = R /\ S = m
    BY <1>2, <1>5, <1>8 DEF S
  <2> QED BY <1>3, <1>7, <2>1
<1>9. CASE r.count > 0 /\ m.count = 0
  <2>1. R = {} /\ Q = {n} /\ S = r
    BY <1>2, <1>5, <1>7, <1>9 DEF S
  <2> QED BY <1>4, <1>6, <1>9, <2>1
<1>10. CASE r.count > 0 /\ m.count > 0
  <2>1. Q = R \cup {n} /\ S = MergeSyscall(m, r) /\ R # {}
    BY <1>2, <1>5, <1>7, <1>10 DEF S
  <2>2. /\ S.count = m.count + r.count
        /\ S.first = Smaller(m.first, r.first) /\ S.last = Larger(m.last, r.last)
    BY <2>1 DEF MergeSyscall
  <2>3. /\ S.first \in {m.first, r.first} /\ S.first <= m.first /\ S.first <= r.first
        /\ S.last \in {m.last, r.last} /\ m.last <= S.last /\ r.last <= S.last
    BY <1>6, <2>2, SmallerLarger
  <2>4. S.count > 0 /\ Q # {}
    BY <1>6, <1>10, <2>1, <2>2
  <2>5. \A i \in Q : /\ S.first <= log'[i].observed[k].first
                     /\ log'[i].observed[k].last <= S.last
    <3> SUFFICES ASSUME NEW i \in Q
                 PROVE  /\ S.first <= log'[i].observed[k].first
                        /\ log'[i].observed[k].last <= S.last
      OBVIOUS
    <3>1. CASE i = n
      BY <1>4, <2>3, <3>1
    <3>2. CASE i \in R
      BY <1>3, <1>6, <1>7, <2>3, <3>2
    <3> QED BY <2>1, <3>1, <3>2
  <2>6. \E j \in Q : S.first = log'[j].observed[k].first
    <3>1. PICK j \in R : m.first = log[j].observed[k].first
      BY <1>7, <2>1
    <3>2. log'[j].observed[k].first = m.first /\ j \in Q
      BY <1>3, <2>1, <3>1
    <3> QED BY <1>4, <2>1, <2>3, <3>2
  <2>7. \E j \in Q : S.last = log'[j].observed[k].last
    <3>1. PICK j \in R : m.last = log[j].observed[k].last
      BY <1>7, <2>1
    <3>2. log'[j].observed[k].last = m.last /\ j \in Q
      BY <1>3, <2>1, <3>1
    <3> QED BY <1>4, <2>1, <2>3, <3>2
  <2> QED BY <2>4, <2>5, <2>6, <2>7
<1> QED BY <1>6, <1>8, <1>9, <1>10

AllSpan == \A k \in Item : Spans(k)

(* The merged first and last offsets of a syscall are the least and the      *)
(* greatest of the runs that had it, and each is the offset of some run.     *)
THEOREM OffsetsSpanCorrect == Spec => []OffsetsSpanRuns
<1>1. Init => AllSpan
  BY DEF Init, AllSpan, Spans, RunsWithSyscall, NoRecord
<1>2. AccTypeOK /\ AllSpan /\ [Next]_accVars => AllSpan'
  <2>1. ASSUME AccTypeOK, AllSpan, NEW c \in Captures, AddRun(c) PROVE AllSpan'
    <3> SUFFICES ASSUME NEW k \in Item PROVE Spans(k)'
      BY DEF AllSpan
    <3> QED BY <2>1, SpansStep DEF AllSpan
  <2>2. ASSUME AllSpan, UNCHANGED accVars PROVE AllSpan'
    BY <2>2 DEF AllSpan, Spans, RunsWithSyscall, accVars
  <2> QED BY <2>1, <2>2 DEF Next
<1>3. AllSpan => OffsetsSpanRuns
  BY DEF AllSpan, Spans, OffsetsSpanRuns
<1> QED BY <1>1, <1>2, <1>3, AccTypeCorrect, PTL DEF Spec

----------------------------------------------------------------------------
(* The runs with a list key are finitely many.                               *)
LEMMA RunsWithKeyFinite ==
  ASSUME AccTypeOK, NEW d \in ListDims, NEW k \in Item
  PROVE  /\ RunsWithKey(d, k) \subseteq 1 .. Len(log)
         /\ IsFiniteSet(RunsWithKey(d, k))
         /\ Cardinality(RunsWithKey(d, k)) \in Nat
<1>1. DOMAIN log = 1 .. Len(log)
  BY DEF AccTypeOK
<1>2. RunsWithKey(d, k) \in SUBSET (1 .. Len(log))
  BY <1>1 DEF RunsWithKey
<1> QED BY <1>2, RunsWithSyscallFinite, FS_Subset, FS_CardinalityType

(* AddRun adds the new run to those of exactly the keys in its lists.        *)
LEMMA RunsWithKeyStep ==
  ASSUME AccTypeOK, NEW c \in Captures, AddRun(c),
         NEW d \in ListDims, NEW k \in Item
  PROVE  RunsWithKey(d, k)' = IF k \in ListOf(c, d)
                              THEN RunsWithKey(d, k) \cup {Len(log) + 1}
                              ELSE RunsWithKey(d, k)
<1>1. \A i \in DOMAIN log :
        k \in ListOf(log'[i], d) <=> k \in ListOf(log[i], d)
  BY LogStep
<1>2. k \in ListOf(log'[Len(log) + 1], d) <=> k \in ListOf(c, d)
  BY LogStep
<1>3. RunsWithKey(d, k)' = {i \in DOMAIN log' : k \in ListOf(log'[i], d)}
  BY DEF RunsWithKey, ListOf
<1> QED BY <1>1, <1>2, <1>3, LogStep DEF RunsWithKey

(* A key counts for at least the runs it appeared in: a run adds one for     *)
(* every entry of its list.                                                  *)
ListRunsCover ==
  \A d \in ListDims : \A k \in Item :
    Cardinality(RunsWithKey(d, k)) <= listRuns[d][k]

(* One step of the argument that listRuns covers the runs.                   *)
LEMMA ListRunsCoverStep ==
  ASSUME AccTypeOK, ListRunsCover, NEW c \in Captures, AddRun(c)
  PROVE  ListRunsCover'
<1> SUFFICES ASSUME NEW d \in ListDims, NEW k \in Item
             PROVE  Cardinality(RunsWithKey(d, k)') <= listRuns'[d][k]
  BY DEF ListRunsCover
<1>1. /\ Cardinality(RunsWithKey(d, k)) <= listRuns[d][k]
      /\ listRuns[d][k] \in Nat
  BY DEF ListRunsCover, AccTypeOK
<1>2. listRuns'[d][k] = listRuns[d][k] + Occurrences(c.lists[d], k)
  BY DEF AddRun
<1>3. c.lists[d] \in Seq(Item)
  BY LogStep DEF Capture
<1>4. Occurrences(c.lists[d], k) \in Nat
  BY <1>3, OccurrencesType
<1>5. CASE k \in ListOf(c, d)
  <2>1. Occurrences(c.lists[d], k) >= 1
    BY <1>3, <1>5, OccurrencesPositive DEF ListOf
  <2>2. Cardinality(RunsWithKey(d, k) \cup {Len(log) + 1})
          <= Cardinality(RunsWithKey(d, k)) + 1
    <3> DEFINE R == RunsWithKey(d, k)
    <3>1. IsFiniteSet(R) /\ Cardinality(R) \in Nat
      BY RunsWithKeyFinite
    <3> HIDE DEF R
    <3>2. Cardinality(R \cup {Len(log) + 1}) =
            IF Len(log) + 1 \in R THEN Cardinality(R) ELSE Cardinality(R) + 1
      BY <3>1, FS_AddElement
    <3>3. Cardinality(R \cup {Len(log) + 1}) <= Cardinality(R) + 1
      BY <3>1, <3>2
    <3> QED BY <3>3 DEF R
  <2>3. Cardinality(RunsWithKey(d, k)') <= Cardinality(RunsWithKey(d, k)) + 1
    BY <1>5, <2>2, RunsWithKeyStep
  <2>4. RunsWithKey(d, k)' = RunsWithKey(d, k) \cup {Len(log) + 1}
    BY <1>5, RunsWithKeyStep
  <2>5. Cardinality(RunsWithKey(d, k)') \in Nat
    BY <2>4, RunsWithKeyFinite, FS_AddElement, FS_CardinalityType
  <2> QED BY <1>1, <1>2, <1>4, <2>1, <2>3, <2>5, RunsWithKeyFinite
<1>6. CASE k \notin ListOf(c, d)
  <2>1. RunsWithKey(d, k)' = RunsWithKey(d, k)
    BY <1>6, RunsWithKeyStep
  <2> QED BY <1>1, <1>2, <1>4, <2>1, RunsWithKeyFinite
<1> QED BY <1>5, <1>6

(* A set of runs smaller than their number leaves one out.                   *)
LEMMA SomeRunLacks ==
  ASSUME AccTypeOK, NEW R, R \subseteq 1 .. Len(log), Cardinality(R) < Len(log)
  PROVE  \E i \in DOMAIN log : i \notin R
<1>1. DOMAIN log = 1 .. Len(log)
  BY DEF AccTypeOK
<1>2. Cardinality(1 .. Len(log)) = Len(log) /\ Len(log) \in Nat
  <2>1. Len(log) \in Nat
    BY DEF AccTypeOK
  <2>2. Cardinality(1 .. Len(log)) = IF 1 > Len(log) THEN 0 ELSE Len(log) - 1 + 1
    BY <2>1, FS_Interval
  <2> QED BY <2>1, <2>2
<1>3. R # 1 .. Len(log)
  BY <1>2
<1> QED BY <1>1, <1>3

(* Whatever varianceNotes says differs between the runs did: some run        *)
(* lacked that syscall, port or raw socket.                                  *)
THEOREM NotesCorrect == Spec => []NotesAreTrue
<1>1. Init => ListRunsCover
  <2> SUFFICES ASSUME Init, NEW d \in ListDims, NEW k \in Item
               PROVE  Cardinality(RunsWithKey(d, k)) <= listRuns[d][k]
    BY DEF ListRunsCover
  <2>1. RunsWithKey(d, k) = {} /\ listRuns[d][k] = 0
    BY DEF Init, RunsWithKey
  <2> QED BY <2>1, FS_EmptySet
<1>2. AccTypeOK /\ ListRunsCover /\ [Next]_accVars => ListRunsCover'
  <2>1. ASSUME AccTypeOK, ListRunsCover, Next PROVE ListRunsCover'
    BY <2>1, ListRunsCoverStep DEF Next
  <2>2. ASSUME ListRunsCover, UNCHANGED accVars PROVE ListRunsCover'
    BY <2>2 DEF ListRunsCover, RunsWithKey, ListOf, accVars
  <2> QED BY <2>1, <2>2
<1>3. AccTypeOK /\ SyscallRunsAreRuns /\ ListRunsCover => NotesAreTrue
  <2> SUFFICES ASSUME AccTypeOK, SyscallRunsAreRuns, ListRunsCover,
                      NEW n \in VarianceNotes
               PROVE  \E i \in DOMAIN log :
                        n[2] \notin (IF n[1] = "syscalls" THEN SyscallsOf(log[i])
                                     ELSE ListOf(log[i], n[1]))
    BY DEF NotesAreTrue
  <2>1. \/ \E k \in Unstable(syscallRuns) : n = <<"syscalls", k>>
        \/ \E d \in {"ports", "raw"} : \E k \in Unstable(listRuns[d]) : n = <<d, k>>
    BY DEF VarianceNotes
  <2>2. ASSUME NEW k \in Unstable(syscallRuns), n = <<"syscalls", k>>
        PROVE  \E i \in DOMAIN log : k \notin SyscallsOf(log[i])
    <3>1. k \in Item /\ Cardinality(RunsWithSyscall(k)) < Len(log)
      BY DEF Unstable, SyscallRunsAreRuns, AccTypeOK
    <3>2. \E i \in DOMAIN log : i \notin RunsWithSyscall(k)
      BY <3>1, RunsWithSyscallFinite, SomeRunLacks
    <3> QED BY <3>2 DEF RunsWithSyscall
  <2>3. ASSUME NEW d \in {"ports", "raw"}, NEW k \in Unstable(listRuns[d])
        PROVE  \E i \in DOMAIN log : k \notin ListOf(log[i], d)
    <3>1. d \in ListDims /\ k \in Item
      BY DEF ListDims, Unstable
    <3>2. /\ listRuns[d][k] < runs /\ listRuns[d][k] \in Nat
          /\ runs = Len(log) /\ runs \in Nat
      BY <3>1 DEF Unstable, AccTypeOK
    <3>3. Cardinality(RunsWithKey(d, k)) < Len(log)
      BY <3>1, <3>2, RunsWithKeyFinite DEF ListRunsCover
    <3>4. \E i \in DOMAIN log : i \notin RunsWithKey(d, k)
      BY <3>1, <3>3, RunsWithKeyFinite, SomeRunLacks
    <3> QED BY <3>4 DEF RunsWithKey
  <2>4. CASE \E k \in Unstable(syscallRuns) : n = <<"syscalls", k>>
    BY <2>2, <2>4
  <2>5. CASE \E d \in {"ports", "raw"} : \E k \in Unstable(listRuns[d]) : n = <<d, k>>
    <3>1. PICK d \in {"ports", "raw"} : \E k \in Unstable(listRuns[d]) : n = <<d, k>>
      BY <2>5
    <3>2. PICK k \in Unstable(listRuns[d]) : n = <<d, k>>
      BY <3>1
    <3>3. n[1] = d /\ n[2] = k /\ d # "syscalls"
      BY <3>2
    <3> QED BY <2>3, <3>3
  <2> QED BY <2>1, <2>4, <2>5
<1> QED BY <1>1, <1>2, <1>3, AccTypeCorrect, SyscallRunsCorrect, PTL DEF Spec
----------------------------------------------------------------------------
(* A key that no entry has is not counted.                                   *)
LEMMA OccurrencesNone ==
  ASSUME NEW s, NEW k, \A i \in DOMAIN s : s[i] # k
  PROVE  Occurrences(s, k) = 0
<1>1. {i \in DOMAIN s : s[i] = k} = {}
  OBVIOUS
<1> QED BY <1>1, FS_EmptySet DEF Occurrences

(* The hash of a path was known before, or is that of a child of the run.    *)
LEMMA FirstChildShown ==
  ASSUME NEW c \in Capture, NEW k \in Item, FirstChild(c, k) # children[k]
  PROVE  \E i \in DOMAIN c.children : c.children[i] = <<k, FirstChild(c, k)>>
<1> DEFINE at == {i \in DOMAIN c.children : c.children[i][1] = k}
<1>1. c.children \in Seq(Item \X Hash)
  BY DEF Capture
<1>2. at # {} /\ at \subseteq Nat
  <2>1. at # {}
    BY DEF FirstChild
  <2>2. DOMAIN c.children = 1 .. Len(c.children) /\ Len(c.children) \in Nat
    BY <1>1
  <2>3. 1 .. Len(c.children) \subseteq Nat
    BY <2>2
  <2>4. at \subseteq DOMAIN c.children
    OBVIOUS
  <2> QED BY <2>1, <2>2, <2>3, <2>4, Zenon
<1>3. FirstChild(c, k) = c.children[CHOOSE m \in at : \A j \in at : m <= j][2]
  BY DEF FirstChild
<1> HIDE DEF at
<1>4. PICK i \in at : \A j \in at : i <= j
  BY <1>2, SmallestOf
<1>5. PICK m : m = CHOOSE p \in at : \A j \in at : p <= j
  OBVIOUS
<1>6. m \in at
  BY <1>4, <1>5
<1>7. m \in DOMAIN c.children /\ c.children[m][1] = k
  BY <1>6 DEF at
<1>8. PICK x \in Item, h \in Hash : c.children[m] = <<x, h>>
  BY <1>1, <1>7
<1>9. x = k /\ h = FirstChild(c, k)
  BY <1>3, <1>5, <1>7, <1>8
<1> QED BY <1>7, <1>8, <1>9

(* A run adds nothing that it does not show itself.                          *)
LEMMA InventedStep ==
  ASSUME AccTypeOK, NothingInvented, NEW c \in Captures, AddRun(c)
  PROVE  NothingInvented'
<1> DEFINE n == Len(log) + 1
<1>1. /\ DOMAIN log' = DOMAIN log \cup {n}
      /\ \A i \in DOMAIN log : log'[i] = log[i]
      /\ log'[n] = c /\ c \in Capture
  BY LogStep
<1> HIDE DEF n
<1>2. \A k \in Item : syscalls'[k].count > 0 => RunsWithSyscall(k)' # {}
  <2> SUFFICES ASSUME NEW k \in Item, syscalls'[k].count > 0
               PROVE  RunsWithSyscall(k)' # {}
    OBVIOUS
  <2>1. CASE c.observed[k].count > 0
    BY <2>1, RunsWithSyscallStep
  <2>2. CASE ~(c.observed[k].count > 0)
    <3>1. c.observed[k].count \in Nat
      BY <1>1 DEF Capture, SyscallRecord
    <3>2. syscalls'[k] = syscalls[k]
      BY <2>2, <3>1 DEF AddRun
    <3>3. RunsWithSyscall(k) # {}
      BY <3>2 DEF NothingInvented, Build
    <3> QED BY <2>2, <3>3, RunsWithSyscallStep
  <2> QED BY <2>1, <2>2
<1>3. \A d \in ListDims : \A k \in Item : listRuns'[d][k] > 0 => RunsWithKey(d, k)' # {}
  <2> SUFFICES ASSUME NEW d \in ListDims, NEW k \in Item, listRuns'[d][k] > 0
               PROVE  RunsWithKey(d, k)' # {}
    OBVIOUS
  <2>1. CASE k \in ListOf(c, d)
    BY <2>1, RunsWithKeyStep
  <2>2. CASE k \notin ListOf(c, d)
    <3>1. Occurrences(c.lists[d], k) = 0
      BY <2>2, OccurrencesNone DEF ListOf
    <3>2. listRuns[d][k] > 0
      BY <3>1 DEF AddRun, AccTypeOK
    <3>3. RunsWithKey(d, k) # {}
      BY <3>2 DEF NothingInvented, Build, Keys
    <3> QED BY <2>2, <3>3, RunsWithKeyStep
  <2> QED BY <2>1, <2>2
<1>4. \A d \in UnionDims : \A k \in unions'[d] : \E i \in DOMAIN log' : k \in log'[i].sets[d]
  <2> SUFFICES ASSUME NEW d \in UnionDims, NEW k \in unions'[d]
               PROVE  \E i \in DOMAIN log' : k \in log'[i].sets[d]
    OBVIOUS
  <2>1. k \in unions[d] \/ k \in c.sets[d]
    BY DEF AddRun, UnionOf
  <2> QED BY <1>1, <2>1 DEF NothingInvented, Build
<1>5. \A b \in Buckets : \A k \in Item :
        files'[b][k] > 0 => \E i \in DOMAIN log' : log'[i].files[b][k] > 0
  <2> SUFFICES ASSUME NEW b \in Buckets, NEW k \in Item, files'[b][k] > 0
               PROVE  \E i \in DOMAIN log' : log'[i].files[b][k] > 0
    OBVIOUS
  <2>1. /\ files[b][k] \in Nat /\ c.files[b][k] \in Nat
        /\ files'[b][k] = files[b][k] + c.files[b][k]
    BY <1>1 DEF AccTypeOK, Capture, AddRun
  <2>2. files[b][k] > 0 \/ c.files[b][k] > 0
    BY <2>1
  <2> QED BY <1>1, <2>2 DEF NothingInvented, Build
<1>6. \A k \in Item : children'[k] # NoHash =>
        \E i \in DOMAIN log' : <<k, children'[k]>> \in {log'[i].children[j] :
                                  j \in DOMAIN log'[i].children}
  <2> SUFFICES ASSUME NEW k \in Item, children'[k] # NoHash
               PROVE  \E i \in DOMAIN log' : <<k, children'[k]>> \in {log'[i].children[j] :
                                               j \in DOMAIN log'[i].children}
    OBVIOUS
  <2>1. children'[k] = FirstChild(c, k)
    BY DEF AddRun
  <2>2. CASE children'[k] = children[k]
    <3>1. PICK i \in DOMAIN log : <<k, children[k]>> \in {log[i].children[j] :
                                     j \in DOMAIN log[i].children}
      BY <2>2 DEF NothingInvented, Build
    <3>2. i \in DOMAIN log' /\ log'[i] = log[i]
      BY <1>1
    <3> QED BY <2>2, <3>1, <3>2
  <2>3. CASE children'[k] # children[k]
    <3>1. \E j \in DOMAIN c.children : c.children[j] = <<k, children'[k]>>
      BY <1>1, <2>1, <2>3, FirstChildShown
    <3> QED BY <1>1, <3>1
  <2> QED BY <2>2, <2>3
<1>7. suspicious' # {} => \E i \in DOMAIN log' : log'[i].watch = suspicious'
  BY <1>1 DEF AddRun, NothingInvented, Build
<1>8. regPersist' => \E i \in DOMAIN log' : log'[i].persist
  BY <1>1 DEF AddRun, NothingInvented, Build
<1> QED BY <1>2, <1>3, <1>4, <1>5, <1>6, <1>7, <1>8 DEF NothingInvented, Build, Keys

(* The baseline has nothing that none of its runs showed, so it hides        *)
(* nothing from an analysis but what the target did while it was captured.   *)
THEOREM NothingInventedCorrect == Spec => []NothingInvented
<1>1. Init => NothingInvented
  BY DEF Init, NothingInvented, Build, Keys, NoRecord
<1>2. AccTypeOK /\ NothingInvented /\ [Next]_accVars => NothingInvented'
  <2>1. ASSUME AccTypeOK, NothingInvented, Next PROVE NothingInvented'
    BY <2>1, InventedStep DEF Next
  <2>2. ASSUME NothingInvented, UNCHANGED accVars PROVE NothingInvented'
    BY <2>2 DEF NothingInvented, Build, Keys, RunsWithSyscall, RunsWithKey, ListOf,
                SyscallsOf, VarianceNotes, accVars
  <2> QED BY <2>1, <2>2
<1> QED BY <1>1, <1>2, AccTypeCorrect, PTL DEF Spec
=============================================================================
