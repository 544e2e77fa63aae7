------------------------------ MODULE Analysis ------------------------------
(***************************************************************************)
(* internal/analysis/analyze.go as operators: the per-dimension diffs of   *)
(* an observation against a baseline, the ordering of the anomalies, the   *)
(* risk score, the verdict, the summary and the Wazuh alert.               *)
(*                                                                         *)
(* A baseline is [data, platform, confidence, weights], an observation     *)
(* [data, platform]; the data of an observation is a Capture, that of a     *)
(* baseline a record as the Accumulator builds it.  What the code reads off *)
(* a feature (is this raw socket of the packet family, is this region       *)
(* anonymous and suspicious, ...) is membership in a constant set of Items.  *)
(***************************************************************************)
EXTENDS Schema, Ordered, Functions

CONSTANTS
  Rank,          (* [Item -> Nat \ {0}]: the order of their names            *)
  Benign,        (* HighFrequencyBenignSyscalls                              *)
  Packet,        (* raw-socket keys of family "packet"                       *)
  InteropPaths,  (* paths across the WSL/Wine boundary                       *)
  KnownInterop,  (* those under KnownInteropPaths                            *)
  SensitiveKeys, (* registry keys with the Sensitive flag                    *)
  Escalations,   (* privilege changes to uid 0 or to a lower uid             *)
  AnonymousExec, (* suspicious anonymous executable regions                  *)
  NilWeights,    (* anomaly_config without a weights map                     *)
  NoDigest       (* SHA256 "": the child's executable could not be read      *)

ASSUME RankAssumption ==
  /\ IsFiniteSet(Item)
  /\ \A x, y \in Item : Rank[x] \in Nat \ {0} /\ (Rank[x] = Rank[y] => x = y)

(* The two types that no diff reports are left out.                          *)
DefaultAnomalyWeights ==
  [new_listening_port |-> 9, new_outbound_connection |-> 7,
   executable_written |-> 10, privilege_escalation |-> 10,
   new_child_process |-> 6, registry_persistence |-> 9,
   procfs_read_other_pid |-> 8, wsl_interop_fs_write |-> 7,
   unexpected_syscall |-> 8, exec_memory_anonymous |-> 9,
   child_exec_mismatch |-> 8, raw_socket_opened |-> 9,
   promiscuous_mode_observed |-> 8, registry_defense_impair |-> 9,
   registry_new_write |-> 5, unexpected_module_load |-> 7]

(* effectiveConfig replaces a missing map, never a missing entry: a type the *)
(* baseline's own map leaves out has Go's zero weight.                       *)
WeightOf(b, type) ==
  LET w == IF b.weights = NilWeights THEN DefaultAnomalyWeights ELSE b.weights
  IN  IF type \in DOMAIN w THEN w[type] ELSE 0

SeverityFromWeight(w) ==
  IF w >= 10 THEN "critical" ELSE IF w >= 8 THEN "high"
  ELSE IF w >= 5 THEN "medium" ELSE IF w >= 2 THEN "low" ELSE "info"

(* newAnomaly.  `text` orders descriptions of one dimension by their wording *)
(* and `item` orders those that differ in the feature they name (0: none).   *)
NewAnomaly(b, dim, type, text, item) ==
  [dim |-> dim, type |-> type, text |-> text, item |-> item,
   weight |-> WeightOf(b, type),
   severity |-> SeverityFromWeight(WeightOf(b, type)),
   suppressed |-> FALSE]

(* Mutant: the flag is not set.                                              *)
SuppressNot(x) == x
Suppress(x) == [x EXCEPT !.suppressed = TRUE]

(* The entries of a set in name order, those of a list that are in S or not  *)
(* in S, and a list without later duplicates (the `flagged` maps).           *)
Listed(S) == Arranged(S, {p \in S \X S : Rank[p[1]] < Rank[p[2]]})
Only(s, S)    == Pick(s, {i \in DOMAIN s : s[i] \in S})
Without(s, S) == Pick(s, {i \in DOMAIN s : s[i] \notin S})
Once(s) == Pick(s, {i \in DOMAIN s : \A j \in 1 .. (i - 1) : s[j] # s[i]})

(* One anomaly for each entry of a list, and one if c holds.                 *)
ForEach(s, anomaly) == [i \in DOMAIN s |-> anomaly[s[i]]]
When(c, x) == IF c THEN <<x>> ELSE <<>>

Present(f) == {k \in Item : f[k] > 0}
Called(data) == {k \in Item : data.observed[k].count > 0}

----------------------------------------------------------------------------
(* Per-dimension diffs.                                                     *)

(* Mutant: the noise list is consulted before the watch list.                *)
SyscallAnomalyNoiseFirst(b, k) ==
  LET x == NewAnomaly(b, "syscalls", "unexpected_syscall", 2, Rank[k])
  IN  IF k \in Benign THEN Suppress(x)
      ELSE IF k \in b.data.watch
           THEN [x EXCEPT !.severity = "critical", !.text = 1]
      ELSE x

SyscallAnomaly(b, k) ==
  LET x == NewAnomaly(b, "syscalls", "unexpected_syscall", 2, Rank[k])
  IN  IF k \in b.data.watch THEN [x EXCEPT !.severity = "critical", !.text = 1]
      ELSE IF k \in Benign THEN Suppress(x)
      ELSE x

(* diffSyscalls visits the observed map in the order `names`, which Go does  *)
(* not fix.                                                                  *)
DiffSyscalls(b, names) ==
  ForEach(Without(names, Called(b.data)), [k \in Item |-> SyscallAnomaly(b, k)])

NewEntries(b, o, d, type, text) ==
  ForEach(Without(o.data.lists[d], b.data.lists[d]),
          [k \in Item |-> NewAnomaly(b, "network", type, text, Rank[k])])
NewRawSockets(b, o) ==
  ForEach(Without(o.data.lists["raw"], b.data.lists["raw"]),
          [k \in Item |-> NewAnomaly(b, "network", "raw_socket_opened",
                                     IF k \in Packet THEN 4 ELSE 5, Rank[k])])
Promiscuous(b, o) ==
  LET hasPacketSocket == \E k \in Range(o.data.lists["raw"]) : k \in Packet
      newPromisc      == o.data.sets["promisc"] \ b.data.sets["promisc"]
  IN  When(hasPacketSocket /\ newPromisc # {},
           NewAnomaly(b, "network", "promiscuous_mode_observed", 1, 0))
(* Mutant: raw sockets, which are in neither of the first two, are left out. *)
DiffNetworkNoRaw(b, o) ==
  NewEntries(b, o, "ports", "new_listening_port", 2)
    \o NewEntries(b, o, "conns", "new_outbound_connection", 3) \o Promiscuous(b, o)

DiffNetwork(b, o) ==
  NewEntries(b, o, "ports", "new_listening_port", 2)
    \o NewEntries(b, o, "conns", "new_outbound_connection", 3)
    \o NewRawSockets(b, o) \o Promiscuous(b, o)

(* A path that was both written and created is flagged once.                 *)
NewExecutables(b, o) ==
  LET written == Listed(Present(o.data.files["written"]))
      created == Listed(Present(o.data.files["created"]))
      fresh   == Present(o.data.files["exec"]) \ Present(b.data.files["exec"])
  IN  ForEach(Once(Only(written \o created, fresh)),
              [k \in Item |-> NewAnomaly(b, "filesystem", "executable_written", 1, Rank[k])])
CrossingAnomaly(b, k) ==
  LET x == NewAnomaly(b, "filesystem", "wsl_interop_fs_write", 2, Rank[k])
  IN  IF k \in KnownInterop THEN Suppress(x) ELSE x
InteropWrites(b, o) ==
  ForEach(Only(Listed(Present(o.data.files["written"])), InteropPaths),
          [k \in Item |-> CrossingAnomaly(b, k)])
DiffFilesystem(b, o) == NewExecutables(b, o) \o InteropWrites(b, o)

RegistryWrites(b, o) ==
  LET baseKeys == b.data.sets["regWritten"] \cup b.data.sets["regCreated"]
      obsKeys  == Listed(o.data.sets["regWritten"]) \o Listed(o.data.sets["regCreated"])
  IN  ForEach(Once(Without(obsKeys, SensitiveKeys \cup baseKeys)),
              [k \in Item |-> NewAnomaly(b, "registry", "registry_new_write", 2, Rank[k])])
DiffRegistry(b, o) ==
  When(o.data.weakened /\ ~b.data.weakened,
       NewAnomaly(b, "registry", "registry_defense_impair", 1, 0))
    \o When(o.data.persist /\ ~b.data.persist,
            NewAnomaly(b, "registry", "registry_persistence", 3, 0))
    \o RegistryWrites(b, o)

(* A child path is flagged once, at the first entry that deviates; a path    *)
(* the baseline has no hash for, or an unreadable binary, never mismatches.  *)
Deviates(b, c) ==
  LET base == b.data.children[c[1]]
  IN  base = NoHash \/ (NoDigest \notin {base, c[2]} /\ base # c[2])
ChildAnomaly(b, c) ==
  IF b.data.children[c[1]] = NoHash
  THEN NewAnomaly(b, "process", "new_child_process", 2, Rank[c[1]])
  ELSE NewAnomaly(b, "process", "child_exec_mismatch", 1, Rank[c[1]])
Flagged(b, kids) ==
  {i \in DOMAIN kids : /\ Deviates(b, kids[i])
                       /\ \A j \in 1 .. (i - 1) :
                            Deviates(b, kids[j]) => kids[j][1] # kids[i][1]}
NewChildren(b, o) ==
  ForEach(Pick(o.data.children, Flagged(b, o.data.children)),
          [c \in Item \X Hash |-> ChildAnomaly(b, c)])
PrivilegeChanges(b, o) ==
  ForEach(Listed(o.data.sets["privileges"] \cap Escalations),
          [k \in Item |-> NewAnomaly(b, "process", "privilege_escalation", 3, Rank[k])])
DiffProcess(b, o) ==
  NewChildren(b, o) \o PrivilegeChanges(b, o)
    \o When(o.data.procReads > b.data.procReads,
            NewAnomaly(b, "process", "procfs_read_other_pid", 4, 0))

AnonymousRegions(b, o) ==
  ForEach(Listed(o.data.sets["regions"] \cap AnonymousExec),
          [k \in Item |-> NewAnomaly(b, "memory", "exec_memory_anonymous", 1, Rank[k])])
NewModules(b, o) ==
  ForEach(Listed(o.data.sets["mapped"] \ b.data.sets["mapped"]),
          [k \in Item |-> NewAnomaly(b, "memory", "unexpected_module_load", 2, Rank[k])])
DiffMemory(b, o) == AnonymousRegions(b, o) \o NewModules(b, o)

----------------------------------------------------------------------------
(* Ordering and rollup.                                                     *)

Dimensions == <<"filesystem", "memory", "network", "process", "registry",
                "syscalls">>
DimRank(d) == CHOOSE i \in DOMAIN Dimensions : Dimensions[i] = d

(* The comparison of sortAnomalies; the mutant forgets the description.      *)
LessNoDescription(x, y) ==
  IF x.suppressed # y.suppressed THEN ~x.suppressed
  ELSE IF x.weight # y.weight THEN x.weight > y.weight
  ELSE DimRank(x.dim) < DimRank(y.dim)

Less(x, y) ==
  IF x.suppressed # y.suppressed THEN ~x.suppressed
  ELSE IF x.weight # y.weight THEN x.weight > y.weight
  ELSE IF x.dim # y.dim THEN DimRank(x.dim) < DimRank(y.dim)
  ELSE IF x.text # y.text THEN x.text < y.text
  ELSE x.item < y.item

(* sort.SliceStable.                                                         *)
SortAnomalies(s) ==
  StableSort(s, {p \in (DOMAIN s) \X (DOMAIN s) : Less(s[p[1]], s[p[2]])})

Active(s) == {i \in DOMAIN s : ~s[i].suppressed}

(* The sum of the weights of the active ones: the number of their points.    *)
Points(s) == UNION {{i} \X (1 .. s[i].weight) : i \in Active(s)}

(* Mutant: the mean weight instead of the sum.                               *)
RiskScoreMean(s) ==
  IF Active(s) = {} THEN 0
  ELSE (10 * Cardinality(Points(s))) \div Cardinality(Active(s))

RiskScore(s) ==
  LET sum == Cardinality(Points(s)) IN IF sum > 100 THEN 100 ELSE sum

VerdictFor(score, s) ==
  LET has(sev) == \E i \in Active(s) : s[i].severity = sev
  IN  IF has("critical") \/ score >= 60 THEN "malicious"
      ELSE IF has("high") \/ score >= 20 THEN "suspicious" ELSE "clean"

Severities == {"critical", "high", "medium", "low", "info"}
Summarize(s) ==
  [total |-> Cardinality(Active(s)),
   bySeverity |-> [v \in Severities |->
      Cardinality({i \in Active(s) : s[i].severity = v})],
   byDimension |-> [d \in Range(Dimensions) |->
      Cardinality({i \in Active(s) : s[i].dim = d})]]

WazuhLevel(verdict) ==
  IF verdict = "malicious" THEN 12 ELSE IF verdict = "suspicious" THEN 8 ELSE 3

(* What the diffs find, in the order they are called.                        *)
Findings(b, o, names) ==
  DiffSyscalls(b, names) \o DiffNetwork(b, o) \o DiffFilesystem(b, o)
    \o DiffRegistry(b, o) \o DiffProcess(b, o) \o DiffMemory(b, o)

(* Analyze: the result without its generated ids and timestamp.              *)
Analyze(b, o, names) ==
  LET anomalies == SortAnomalies(Findings(b, o, names))
      ctxMatch  == b.platform = o.platform
      score     == RiskScore(anomalies)
      verdict   == VerdictFor(score, anomalies)
  IN  [anomalies |-> anomalies, score |-> score, verdict |-> verdict,
       confidence |-> IF ~ctxMatch /\ b.confidence = "high" THEN "medium"
                      ELSE b.confidence,
       contextMatch |-> ctxMatch, summary |-> Summarize(anomalies),
       level |-> WazuhLevel(verdict)]
=============================================================================
