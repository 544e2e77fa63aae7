--------------------------- MODULE Pipeline_proofs ---------------------------
(***************************************************************************)
(* Theorems about what `analyze` reports: of any baseline and observation  *)
(* (AnalysisEngine), and of those the other two commands wrote (Pipeline). *)
(*                                                                         *)
(* The report has exactly the anomalies the diffs find, as a set (Found),  *)
(* and the order of the report is total; what it says of the watch list,   *)
(* of noise, of another order of the Go map and of an observation that     *)
(* shows more follows from that.  `baseline` drives the Accumulator, so    *)
(* what is proved of it holds of the pipeline; the rest is that the files  *)
(* carry it to the report.                                                 *)
(***************************************************************************)
EXTENDS Pipeline, AnalysisEngine, Accumulator_proofs

(* The elements of s are those of S; and each is there once.                 *)
Holds(s, S) == s \in Seq(S) /\ \A x \in S : \E i \in DOMAIN s : s[i] = x
Lists(s, S) == Holds(s, S) /\ \A i, j \in DOMAIN s : s[i] = s[j] => i = j

(* What a selection of positions holds.                                      *)
LEMMA PickHolds ==
  ASSUME NEW T, NEW s \in Seq(T), NEW I \in SUBSET (DOMAIN s), NEW U,
         \A i \in I : s[i] \in U, \A x \in U : \E i \in I : s[i] = x
  PROVE  /\ Holds(Pick(s, I), U)
         /\ (\A i, j \in I : s[i] = s[j] => i = j) => Lists(Pick(s, I), U)
<1> DEFINE p == Pick(s, I)
           at == InOrder(I)
           n == Cardinality(I)
<1>1. /\ n \in Nat /\ p \in Seq(T) /\ DOMAIN p = 1 .. n /\ Len(p) = n
      /\ at \in [1 .. n -> I]
      /\ \A x \in 1 .. n : p[x] = s[at[x]]
      /\ \A x, y \in 1 .. n : x < y => at[x] < at[y]
      /\ \A i \in I : \E x \in 1 .. n : at[x] = i
  BY PickAll
<1>2. I \in SUBSET Nat
  OBVIOUS
<1> HIDE DEF p, at, n
<1>3. \A x \in 1 .. n : p[x] \in U
  BY <1>1
<1>4. p \in Seq(U)
  BY <1>1, <1>3
<1>5. \A x \in U : \E i \in 1 .. n : p[i] = x
  BY <1>1
<1>6. Holds(p, U)
  BY <1>1, <1>4, <1>5 DEF Holds
<1>7. ASSUME \A i, j \in I : s[i] = s[j] => i = j, NEW x \in 1 .. n, NEW y \in 1 .. n,
             p[x] = p[y], x # y
      PROVE  FALSE
  <2>1. at[x] \in I /\ at[y] \in I /\ s[at[x]] = s[at[y]]
    BY <1>1, <1>7
  <2>2. at[x] = at[y] /\ at[x] \in Nat /\ at[y] \in Nat
    BY <1>2, <1>7, <2>1
  <2>3. x < y \/ y < x
    BY <1>7
  <2> QED BY <1>1, <2>2, <2>3
<1>8. (\A i, j \in I : s[i] = s[j] => i = j) => Lists(p, U)
  BY <1>1, <1>6, <1>7 DEF Lists
<1> QED BY <1>6, <1>8 DEF p

(* The entries of a list that are in a set, and those that are not.          *)
LEMMA OnlyHolds ==
  ASSUME NEW s, NEW S, NEW U, Holds(s, S)
  PROVE  /\ Holds(Only(s, U), S \cap U) /\ Holds(Without(s, U), S \ U)
         /\ Lists(s, S) => Lists(Only(s, U), S \cap U) /\ Lists(Without(s, U), S \ U)
<1>1. s \in Seq(S) /\ \A x \in S : \E i \in DOMAIN s : s[i] = x
  BY DEF Holds
<1>2. \A i \in DOMAIN s : s[i] \in S
  BY <1>1
<1>3. PICK I, J : I = {i \in DOMAIN s : s[i] \in U} /\ J = {i \in DOMAIN s : s[i] \notin U}
  OBVIOUS
<1>4. I \in SUBSET (DOMAIN s) /\ J \in SUBSET (DOMAIN s)
  BY <1>3
<1>5. /\ \A i \in I : s[i] \in S \cap U
      /\ \A x \in S \cap U : \E i \in I : s[i] = x
  BY <1>1, <1>2, <1>3
<1>6. /\ \A i \in J : s[i] \in S \ U
      /\ \A x \in S \ U : \E i \in J : s[i] = x
  BY <1>1, <1>2, <1>3
<1>7. Only(s, U) = Pick(s, I) /\ Without(s, U) = Pick(s, J)
  BY <1>3 DEF Only, Without
<1>8. Holds(Only(s, U), S \cap U) /\ Holds(Without(s, U), S \ U)
  BY <1>1, <1>4, <1>5, <1>6, <1>7, PickHolds
<1>9. ASSUME Lists(s, S)
      PROVE  Lists(Only(s, U), S \cap U) /\ Lists(Without(s, U), S \ U)
  <2>1. /\ \A i, j \in I : s[i] = s[j] => i = j
        /\ \A i, j \in J : s[i] = s[j] => i = j
    BY <1>4, <1>9 DEF Lists
  <2> QED BY <1>1, <1>4, <1>5, <1>6, <1>7, <2>1, PickHolds
<1> QED BY <1>8, <1>9

(* The `flagged` maps keep one entry of each name.                           *)
LEMMA OnceLists ==
  ASSUME NEW s, NEW S, Holds(s, S)
  PROVE  Lists(Once(s), S)
<1>1. s \in Seq(S) /\ \A x \in S : \E i \in DOMAIN s : s[i] = x
  BY DEF Holds
<1>2. PICK I : I = {i \in DOMAIN s : \A j \in 1 .. (i - 1) : s[j] # s[i]}
  OBVIOUS
<1>3. I \in SUBSET (DOMAIN s) /\ \A i \in I : s[i] \in S
  BY <1>1, <1>2
<1>4. ASSUME NEW x \in S PROVE \E i \in I : s[i] = x
  <2>1. PICK at : at = {i \in DOMAIN s : s[i] = x}
    OBVIOUS
  <2>2. at \in SUBSET Nat /\ at # {}
    BY <1>1, <2>1
  <2>3. PICK i \in at : \A j \in at : i <= j
    BY <2>2, SmallestOf
  <2>4. i \in DOMAIN s /\ s[i] = x /\ i \in Nat /\ \A j \in 1 .. (i - 1) : j \in DOMAIN s
    BY <1>1, <2>1, <2>3
  <2>5. ASSUME NEW j \in 1 .. (i - 1) PROVE s[j] # x
    <3>1. j \notin at
      BY <2>3, <2>4
    <3> QED BY <2>1, <2>4, <3>1
  <2> QED BY <1>2, <2>4, <2>5
<1>5. ASSUME NEW i \in I, NEW j \in I, s[i] = s[j] PROVE i = j
  <2>1. i \in DOMAIN s /\ j \in DOMAIN s /\ i \in Nat \ {0} /\ j \in Nat \ {0}
    BY <1>1, <1>3
  <2>2. ~(i < j) /\ ~(j < i)
    BY <1>2, <1>5, <2>1
  <2> QED BY <2>1, <2>2
<1>6. Once(s) = Pick(s, I)
  BY <1>2 DEF Once
<1> QED BY <1>1, <1>3, <1>4, <1>5, <1>6, PickHolds

(* One list after another.                                                   *)
LEMMA JoinHolds ==
  ASSUME NEW s, NEW S, Holds(s, S), NEW t, NEW U, Holds(t, U)
  PROVE  Holds(s \o t, S \cup U)
<1>1. /\ s \in Seq(S) /\ \A x \in S : \E i \in DOMAIN s : s[i] = x
      /\ t \in Seq(U) /\ \A x \in U : \E i \in DOMAIN t : t[i] = x
  BY DEF Holds
<1>2. s \in Seq(S \cup U) /\ t \in Seq(S \cup U)
  BY <1>1
<1>3. s \o t \in Seq(S \cup U)
  BY <1>2
<1>4. ASSUME NEW x \in S PROVE \E i \in DOMAIN (s \o t) : (s \o t)[i] = x
  <2>1. PICK i \in DOMAIN s : s[i] = x
    BY <1>1
  <2>2. i \in DOMAIN (s \o t) /\ (s \o t)[i] = s[i]
    BY <1>2
  <2> QED BY <2>1, <2>2
<1>5. ASSUME NEW x \in U PROVE \E i \in DOMAIN (s \o t) : (s \o t)[i] = x
  <2>1. PICK i \in DOMAIN t : t[i] = x
    BY <1>1
  <2>2. Len(s) + i \in DOMAIN (s \o t) /\ (s \o t)[Len(s) + i] = t[i]
    BY <1>2
  <2> QED BY <2>1, <2>2
<1> QED BY <1>3, <1>4, <1>5 DEF Holds

(* Name order lists every entry of a set once.                               *)
LEMMA ListedLists ==
  ASSUME NEW S \in SUBSET Item
  PROVE  Lists(Listed(S), S)
<1>1. PICK T : T = {p \in S \X S : Rank[p[1]] < Rank[p[2]]}
  OBVIOUS
<1>2. \A x \in S : Rank[x] \in Nat
  BY RankAssumption DEF RankAssumption
<1>3. \A x, y \in S : <<x, y>> \in T <=> Rank[x] < Rank[y]
  BY <1>1
<1>4. \A x, y \in S : Rank[x] = Rank[y] => x = y
  BY RankAssumption DEF RankAssumption
<1>5. TotalOn(S, T)
  BY <1>2, <1>3, <1>4 DEF TotalOn
<1>6. IsFiniteSet(S)
  BY RankAssumption, FS_Subset DEF RankAssumption
<1>7. PICK n, s : n = Cardinality(S) /\ s = Listed(S)
  OBVIOUS
<1>8. /\ n \in Nat /\ s \in [1 .. n -> S]
      /\ \A p, q \in 1 .. n : p < q <=> <<s[p], s[q]>> \in T
      /\ \A x \in S : \E p \in 1 .. n : s[p] = x
  <2>1. Listed(S) = Arranged(S, T)
    BY <1>1 DEF Listed
  <2> QED BY <1>5, <1>6, <1>7, <2>1, ArrangedAll
<1>9. s \in Seq(S) /\ DOMAIN s = 1 .. n
  BY <1>8
<1>10. ASSUME NEW p \in 1 .. n, NEW q \in 1 .. n, s[p] = s[q] PROVE p = q
  <2>1. s[p] \in S
    BY <1>8
  <2>2. <<s[p], s[q]>> \notin T /\ <<s[q], s[p]>> \notin T
    BY <1>5, <1>10, <2>1 DEF TotalOn
  <2>3. ~(p < q) /\ ~(q < p)
    BY <1>8, <2>2
  <2> QED BY <1>8, <2>3
<1> QED BY <1>7, <1>8, <1>9, <1>10 DEF Lists, Holds

(* A list, and one that has all its entries and maybe more.                  *)
IsList(s) == \E T : s \in Seq(T)
Grows(s, t) == IsList(s) /\ IsList(t) /\ Embeds(s, t)

(* What lists fewer entries is within what lists more.                       *)
LEMMA ListsGrow ==
  ASSUME NEW s, NEW S, Lists(s, S), NEW t, NEW U, Holds(t, U), S \subseteq U
  PROVE  Grows(s, t)
<1>1. /\ s \in Seq(S) /\ \A i, j \in DOMAIN s : s[i] = s[j] => i = j
      /\ \A x \in U : \E i \in DOMAIN t : t[i] = x
  BY DEF Lists, Holds
<1>2. PICK D, E : D = DOMAIN s /\ E = DOMAIN t
  OBVIOUS
<1>3. \A i \in D : s[i] \in U
  BY <1>1, <1>2
<1> DEFINE h == [i \in D |-> CHOOSE j \in E : t[j] = s[i]]
<1>4. \A i \in D : h[i] \in E /\ t[h[i]] = s[i]
  BY <1>1, <1>2, <1>3
<1>5. h \in [D -> E]
  BY <1>4
<1> HIDE DEF h
<1>6. \A i, j \in D : h[i] = h[j] => i = j
  BY <1>1, <1>2, <1>4
<1>7. Embeds(s, t)
  BY <1>2, <1>4, <1>5, <1>6, Zenon DEF Embeds
<1> QED BY <1>7 DEF Grows, IsList, Lists, Holds

(* What selects more of a longer list has more.                              *)
LEMMA PickGrows ==
  ASSUME NEW T, NEW s \in Seq(T), NEW t \in Seq(T),
         NEW I \in SUBSET (DOMAIN s), NEW J \in SUBSET (DOMAIN t),
         \A i \in I : i \in J /\ s[i] = t[i]
  PROVE  Grows(Pick(s, I), Pick(t, J))
<1>1. Embeds(Pick(s, I), Pick(t, J))
  BY PickEmbeds
<1>2. Pick(s, I) \in Seq(T) /\ Pick(t, J) \in Seq(T)
  BY PickAll
<1> QED BY <1>1, <1>2 DEF Grows, IsList

(* More entries, more anomalies.                                             *)
LEMMA ForEachGrows ==
  ASSUME NEW s, NEW t, NEW f, Grows(s, t)
  PROVE  Grows(ForEach(s, f), ForEach(t, f))
<1>1. ASSUME NEW x, IsList(x) PROVE IsList(ForEach(x, f))
  <2>1. PICK n \in Nat : DOMAIN x = 1 .. n
    BY <1>1 DEF IsList
  <2>2. ForEach(x, f) = [i \in 1 .. n |-> f[x[i]]]
    BY <2>1 DEF ForEach
  <2>3. ForEach(x, f) \in Seq({f[x[i]] : i \in 1 .. n})
    BY <2>1, <2>2
  <2> QED BY <2>3 DEF IsList
<1>2. PICK D, E : D = DOMAIN s /\ E = DOMAIN t
  OBVIOUS
<1>3. PICK g \in [D -> E] : /\ \A i, j \in D : g[i] = g[j] => i = j
                            /\ \A i \in D : t[g[i]] = s[i]
  BY <1>2, Zenon DEF Grows, Embeds
<1>4. PICK u, v : u = ForEach(s, f) /\ v = ForEach(t, f)
  OBVIOUS
<1>5. u = [i \in D |-> f[s[i]]] /\ v = [i \in E |-> f[t[i]]]
  BY <1>2, <1>4 DEF ForEach
<1>6. DOMAIN u = D /\ DOMAIN v = E /\ \A i \in D : v[g[i]] = u[i]
  BY <1>3, <1>5
<1>7. /\ g \in [DOMAIN u -> DOMAIN v]
      /\ \A i, j \in DOMAIN u : g[i] = g[j] => i = j
      /\ \A i \in DOMAIN u : v[g[i]] = u[i]
  BY <1>3, <1>6, Zenon
<1>8. Embeds(u, v)
  BY <1>7, Zenon DEF Embeds
<1>9. IsList(u) /\ IsList(v)
  BY <1>1, <1>4 DEF Grows
<1> QED BY <1>4, <1>8, <1>9 DEF Grows

(* A condition that holds of more.                                           *)
LEMMA WhenGrows ==
  ASSUME NEW x, NEW c \in BOOLEAN, NEW d \in BOOLEAN, c => d
  PROVE  Grows(When(c, x), When(d, x))
<1>1. <<>> \in Seq({x}) /\ <<x>> \in Seq({x})
  OBVIOUS
<1>2. ASSUME NEW t PROVE Embeds(<<>>, t)
  <2> DEFINE h == [i \in DOMAIN <<>> |-> i]
  <2>1. DOMAIN <<>> = {}
    OBVIOUS
  <2>2. h \in [DOMAIN <<>> -> DOMAIN t]
    BY <2>1
  <2> HIDE DEF h
  <2> QED BY <2>1, <2>2, Zenon DEF Embeds
<1> QED BY <1>1, <1>2, EmbedsThrough DEF When, Grows, IsList

(* One list after another.                                                   *)
LEMMA GrowsJoined ==
  ASSUME NEW s, NEW t, Grows(s, t), NEW u, NEW v, Grows(u, v)
  PROVE  Grows(s \o u, t \o v)
<1>1. PICK A, B, C, D : s \in Seq(A) /\ t \in Seq(B) /\ u \in Seq(C) /\ v \in Seq(D)
  BY DEF Grows, IsList
<1>2. PICK T : T = A \cup B \cup C \cup D
  OBVIOUS
<1>3. s \in Seq(T) /\ t \in Seq(T) /\ u \in Seq(T) /\ v \in Seq(T)
  BY <1>1, <1>2
<1>4. s \o u \in Seq(T) /\ t \o v \in Seq(T)
  BY <1>3
<1>5. Embeds(s \o u, t \o v)
  BY <1>3, EmbedsJoined DEF Grows
<1> QED BY <1>4, <1>5 DEF Grows, IsList

(* A list has itself.                                                        *)
LEMMA GrowsNot ==
  ASSUME NEW s, NEW S, Holds(s, S)
  PROVE  Grows(s, s)
BY EmbedsThrough DEF Grows, IsList, Holds

(* What the anomalies of a list are.                                         *)
LEMMA ForEachHolds ==
  ASSUME NEW s, NEW S, Holds(s, S), NEW f
  PROVE  Holds(ForEach(s, f), {f[x] : x \in S})
<1>1. s \in Seq(S) /\ \A x \in S : \E i \in DOMAIN s : s[i] = x
  BY DEF Holds
<1>2. PICK A, t : A = {f[x] : x \in S} /\ t = ForEach(s, f)
  OBVIOUS
<1>3. PICK n \in Nat : DOMAIN s = 1 .. n
  BY <1>1
<1>4. t \in Seq(A) /\ DOMAIN t = DOMAIN s /\ \A i \in DOMAIN s : t[i] = f[s[i]]
  <2>1. t = [i \in 1 .. n |-> f[s[i]]]
    BY <1>2, <1>3 DEF ForEach
  <2>2. \A i \in 1 .. n : f[s[i]] \in A
    BY <1>1, <1>2, <1>3
  <2> QED BY <1>3, <2>1, <2>2
<1>5. ASSUME NEW y \in A PROVE \E i \in DOMAIN t : t[i] = y
  <2>1. PICK x \in S : y = f[x]
    BY <1>2
  <2>2. PICK i \in DOMAIN s : s[i] = x
    BY <1>1
  <2> QED BY <1>4, <2>1, <2>2
<1> QED BY <1>2, <1>4, <1>5 DEF Holds

(* The one anomaly of a condition, if it holds.                              *)
LEMMA WhenHolds ==
  ASSUME NEW x, NEW c \in BOOLEAN
  PROVE  Holds(When(c, x), {y \in {x} : c})
<1>1. CASE c
  <2>1. <<x>> \in Seq({x}) /\ DOMAIN <<x>> = {1} /\ <<x>>[1] = x
    OBVIOUS
  <2>2. {y \in {x} : c} = {x} /\ When(c, x) = <<x>>
    BY <1>1 DEF When
  <2> QED BY <2>1, <2>2 DEF Holds
<1>2. CASE ~c
  <2>1. {y \in {x} : c} = {} /\ When(c, x) = <<>>
    BY <1>2 DEF When
  <2> QED BY <2>1 DEF Holds
<1> QED BY <1>1, <1>2

(* A list holds its range.                                                   *)
LEMMA RangeHeld ==
  ASSUME NEW T, NEW s \in Seq(T)
  PROVE  Holds(s, Range(s)) /\ Range(s) \subseteq T
<1>1. PICK n \in Nat : DOMAIN s = 1 .. n /\ n = Len(s) /\ s \in [1 .. n -> T]
  OBVIOUS
<1>2. \A i \in DOMAIN s : s[i] \in Range(s)
  BY DEF Range
<1>3. s \in [1 .. n -> Range(s)]
  BY <1>1, <1>2
<1>4. s \in Seq(Range(s))
  BY <1>3
<1>5. \A x \in Range(s) : \E i \in DOMAIN s : s[i] = x
  BY DEF Range
<1>6. Range(s) \subseteq T
  BY <1>1 DEF Range
<1> QED BY <1>4, <1>5, <1>6 DEF Holds
----------------------------------------------------------------------------
(* What an observation found, as a set: the anomalies of every diff, with no *)
(* regard to order or repetition.                                            *)
FoundSyscalls(b, o) ==
  {SyscallAnomaly(b, k) : k \in Called(o.data) \ Called(b.data)}

FoundEntries(b, o, d, type, text) ==
  {NewAnomaly(b, "network", type, text, Rank[k]) :
     k \in Range(o.data.lists[d]) \ b.data.lists[d]}
FoundRaw(b, o) ==
  {NewAnomaly(b, "network", "raw_socket_opened", IF k \in Packet THEN 4 ELSE 5, Rank[k]) :
     k \in Range(o.data.lists["raw"]) \ b.data.lists["raw"]}
NewlyPromiscuous(b, o) ==
  /\ \E k \in Range(o.data.lists["raw"]) : k \in Packet
  /\ o.data.sets["promisc"] \ b.data.sets["promisc"] # {}
FoundNetwork(b, o) ==
  FoundEntries(b, o, "ports", "new_listening_port", 2)
    \cup FoundEntries(b, o, "conns", "new_outbound_connection", 3)
    \cup FoundRaw(b, o)
    \cup {x \in {NewAnomaly(b, "network", "promiscuous_mode_observed", 1, 0)} :
            NewlyPromiscuous(b, o)}

FreshExecutables(b, o) ==
  (Present(o.data.files["written"]) \cup Present(o.data.files["created"]))
    \cap (Present(o.data.files["exec"]) \ Present(b.data.files["exec"]))
FoundFilesystem(b, o) ==
  {NewAnomaly(b, "filesystem", "executable_written", 1, Rank[k]) :
     k \in FreshExecutables(b, o)}
    \cup {CrossingAnomaly(b, k) : k \in Present(o.data.files["written"]) \cap InteropPaths}

FreshKeys(b, o) ==
  (o.data.sets["regWritten"] \cup o.data.sets["regCreated"])
    \ (SensitiveKeys \cup (b.data.sets["regWritten"] \cup b.data.sets["regCreated"]))
FoundRegistry(b, o) ==
  {x \in {NewAnomaly(b, "registry", "registry_defense_impair", 1, 0)} :
     o.data.weakened /\ ~b.data.weakened}
    \cup {x \in {NewAnomaly(b, "registry", "registry_persistence", 3, 0)} :
            o.data.persist /\ ~b.data.persist}
    \cup {NewAnomaly(b, "registry", "registry_new_write", 2, Rank[k]) : k \in FreshKeys(b, o)}

FoundProcess(b, o) ==
  {ChildAnomaly(b, c) : c \in {c \in Range(o.data.children) : Deviates(b, c)}}
    \cup {NewAnomaly(b, "process", "privilege_escalation", 3, Rank[k]) :
            k \in o.data.sets["privileges"] \cap Escalations}
    \cup {x \in {NewAnomaly(b, "process", "procfs_read_other_pid", 4, 0)} :
            o.data.procReads > b.data.procReads}

FoundMemory(b, o) ==
  {NewAnomaly(b, "memory", "exec_memory_anonymous", 1, Rank[k]) :
     k \in o.data.sets["regions"] \cap AnonymousExec}
    \cup {NewAnomaly(b, "memory", "unexpected_module_load", 2, Rank[k]) :
            k \in o.data.sets["mapped"] \ b.data.sets["mapped"]}

Found(b, o) ==
  FoundSyscalls(b, o) \cup FoundNetwork(b, o) \cup FoundFilesystem(b, o)
    \cup FoundRegistry(b, o) \cup FoundProcess(b, o) \cup FoundMemory(b, o)

(* diffSyscalls finds every new syscall, in whatever order it goes.          *)
LEMMA SyscallsFound ==
  ASSUME NEW b, NEW o, NEW names, Holds(names, Called(o.data))
  PROVE  Holds(DiffSyscalls(b, names), FoundSyscalls(b, o))
<1>1. PICK s, S, f : /\ s = Without(names, Called(b.data))
                     /\ S = Called(o.data) \ Called(b.data)
                     /\ f = [k \in Item |-> SyscallAnomaly(b, k)]
  OBVIOUS
<1>2. Holds(s, S)
  BY <1>1, OnlyHolds
<1>3. Holds(ForEach(s, f), {f[x] : x \in S})
  BY <1>2, ForEachHolds
<1>4. S \subseteq Item
  BY <1>1 DEF Called
<1>5. {f[x] : x \in S} = FoundSyscalls(b, o)
  BY <1>1, <1>4 DEF FoundSyscalls
<1> QED BY <1>1, <1>3, <1>5 DEF DiffSyscalls

(* What the captures of the observation are.                                 *)
LEMMA ObservedLists ==
  ASSUME NEW o, o.data \in Capture
  PROVE  /\ \A d \in ListDims : o.data.lists[d] \in Seq(Item)
         /\ \A d \in UnionDims : o.data.sets[d] \in SUBSET Item
         /\ \A d \in Buckets : Present(o.data.files[d]) \in SUBSET Item
         /\ o.data.children \in Seq(Item \X Hash)
         /\ o.data.weakened \in BOOLEAN /\ o.data.persist \in BOOLEAN
         /\ o.data.procReads \in Nat
BY DEF Capture, Present

(* Network.                                                                  *)
LEMMA NetworkFound ==
  ASSUME NEW b, NEW o, o.data \in Capture
  PROVE  Holds(DiffNetwork(b, o), FoundNetwork(b, o))
<1>1. ASSUME NEW d \in ListDims, NEW f
      PROVE  Holds(ForEach(Without(o.data.lists[d], b.data.lists[d]), f),
                   {f[k] : k \in Range(o.data.lists[d]) \ b.data.lists[d]})
             /\ Range(o.data.lists[d]) \subseteq Item
  <2>1. Holds(o.data.lists[d], Range(o.data.lists[d])) /\ Range(o.data.lists[d]) \subseteq Item
    BY ObservedLists, RangeHeld
  <2>2. Holds(Without(o.data.lists[d], b.data.lists[d]),
              Range(o.data.lists[d]) \ b.data.lists[d])
    BY <2>1, OnlyHolds
  <2> QED BY <2>1, <2>2, ForEachHolds
<1>2. ASSUME NEW d \in ListDims, NEW type, NEW text
      PROVE  Holds(NewEntries(b, o, d, type, text), FoundEntries(b, o, d, type, text))
  <2>1. PICK f : f = [k \in Item |-> NewAnomaly(b, "network", type, text, Rank[k])]
    OBVIOUS
  <2>2. {f[k] : k \in Range(o.data.lists[d]) \ b.data.lists[d]}
          = FoundEntries(b, o, d, type, text)
    BY <1>1, <2>1 DEF FoundEntries
  <2>3. NewEntries(b, o, d, type, text) = ForEach(Without(o.data.lists[d], b.data.lists[d]), f)
    BY <2>1 DEF NewEntries
  <2> QED BY <1>1, <2>2, <2>3
<1>3. Holds(NewRawSockets(b, o), FoundRaw(b, o))
  <2>1. PICK f : f = [k \in Item |-> NewAnomaly(b, "network", "raw_socket_opened",
                                                IF k \in Packet THEN 4 ELSE 5, Rank[k])]
    OBVIOUS
  <2>2. "raw" \in ListDims
    BY DEF ListDims
  <2>3. {f[k] : k \in Range(o.data.lists["raw"]) \ b.data.lists["raw"]} = FoundRaw(b, o)
    BY <1>1, <2>1, <2>2 DEF FoundRaw
  <2>4. NewRawSockets(b, o) = ForEach(Without(o.data.lists["raw"], b.data.lists["raw"]), f)
    BY <2>1 DEF NewRawSockets
  <2> QED BY <1>1, <2>2, <2>3, <2>4
<1>4. Holds(Promiscuous(b, o),
            {x \in {NewAnomaly(b, "network", "promiscuous_mode_observed", 1, 0)} :
               NewlyPromiscuous(b, o)})
  <2>1. NewlyPromiscuous(b, o) \in BOOLEAN
    BY DEF NewlyPromiscuous
  <2>2. Promiscuous(b, o) = When(NewlyPromiscuous(b, o),
          NewAnomaly(b, "network", "promiscuous_mode_observed", 1, 0))
    BY DEF Promiscuous, NewlyPromiscuous
  <2> QED BY <2>1, <2>2, WhenHolds
<1>5. "ports" \in ListDims /\ "conns" \in ListDims
  BY DEF ListDims
<1>6. /\ Holds(NewEntries(b, o, "ports", "new_listening_port", 2),
               FoundEntries(b, o, "ports", "new_listening_port", 2))
      /\ Holds(NewEntries(b, o, "conns", "new_outbound_connection", 3),
               FoundEntries(b, o, "conns", "new_outbound_connection", 3))
  BY <1>2, <1>5
<1> QED BY <1>3, <1>4, <1>6, JoinHolds DEF DiffNetwork, FoundNetwork

(* Filesystem.                                                               *)
LEMMA FilesystemFound ==
  ASSUME NEW b, NEW o, o.data \in Capture
  PROVE  Holds(DiffFilesystem(b, o), FoundFilesystem(b, o))
<1>1. PICK W, C, fresh :
        /\ W = Present(o.data.files["written"]) /\ C = Present(o.data.files["created"])
        /\ fresh = Present(o.data.files["exec"]) \ Present(b.data.files["exec"])
  OBVIOUS
<1>2. W \in SUBSET Item /\ C \in SUBSET Item
  BY <1>1 DEF Present
<1>3. Holds(Listed(W), W) /\ Holds(Listed(C), C)
  BY <1>2, ListedLists DEF Lists
<1>4. Holds(NewExecutables(b, o),
            {NewAnomaly(b, "filesystem", "executable_written", 1, Rank[k]) :
               k \in FreshExecutables(b, o)})
  <2>1. PICK f : f = [k \in Item |-> NewAnomaly(b, "filesystem", "executable_written", 1, Rank[k])]
    OBVIOUS
  <2>2. PICK s : s = Once(Only(Listed(W) \o Listed(C), fresh))
    OBVIOUS
  <2>3. Holds(s, (W \cup C) \cap fresh)
    BY <1>3, <2>2, JoinHolds, OnlyHolds, OnceLists DEF Lists
  <2>4. Holds(ForEach(s, f), {f[k] : k \in (W \cup C) \cap fresh})
    BY <2>3, ForEachHolds
  <2>5. (W \cup C) \cap fresh = FreshExecutables(b, o)
    BY <1>1 DEF FreshExecutables
  <2>6. {f[k] : k \in (W \cup C) \cap fresh}
          = {NewAnomaly(b, "filesystem", "executable_written", 1, Rank[k]) :
               k \in FreshExecutables(b, o)}
    BY <1>2, <2>1, <2>5
  <2>7. NewExecutables(b, o) = ForEach(s, f)
    BY <1>1, <2>1, <2>2 DEF NewExecutables
  <2> QED BY <2>4, <2>6, <2>7
<1>5. Holds(InteropWrites(b, o), {CrossingAnomaly(b, k) : k \in W \cap InteropPaths})
  <2>1. PICK f : f = [k \in Item |-> CrossingAnomaly(b, k)]
    OBVIOUS
  <2>2. Holds(ForEach(Only(Listed(W), InteropPaths), f), {f[k] : k \in W \cap InteropPaths})
    <3>1. Holds(Only(Listed(W), InteropPaths), W \cap InteropPaths)
      BY <1>3, OnlyHolds
    <3> QED BY <3>1, ForEachHolds
  <2>3. {f[k] : k \in W \cap InteropPaths} = {CrossingAnomaly(b, k) : k \in W \cap InteropPaths}
    BY <1>2, <2>1
  <2>4. InteropWrites(b, o) = ForEach(Only(Listed(W), InteropPaths), f)
    BY <1>1, <2>1 DEF InteropWrites
  <2> QED BY <2>2, <2>3, <2>4
<1> QED BY <1>1, <1>4, <1>5, JoinHolds DEF DiffFilesystem, FoundFilesystem

(* Registry.                                                                 *)
LEMMA RegistryFound ==
  ASSUME NEW b, NEW o, o.data \in Capture
  PROVE  Holds(DiffRegistry(b, o), FoundRegistry(b, o))
<1>1. PICK W, C, known :
        /\ W = o.data.sets["regWritten"] /\ C = o.data.sets["regCreated"]
        /\ known = SensitiveKeys \cup (b.data.sets["regWritten"] \cup b.data.sets["regCreated"])
  OBVIOUS
<1>2. W \in SUBSET Item /\ C \in SUBSET Item
  BY <1>1, ObservedLists DEF UnionDims
<1>3. Holds(Listed(W), W) /\ Holds(Listed(C), C)
  BY <1>2, ListedLists DEF Lists
<1>4. Holds(RegistryWrites(b, o),
            {NewAnomaly(b, "registry", "registry_new_write", 2, Rank[k]) : k \in FreshKeys(b, o)})
  <2>1. PICK f : f = [k \in Item |-> NewAnomaly(b, "registry", "registry_new_write", 2, Rank[k])]
    OBVIOUS
  <2>2. PICK s : s = Once(Without(Listed(W) \o Listed(C), known))
    OBVIOUS
  <2>3. Holds(s, (W \cup C) \ known)
    BY <1>3, <2>2, JoinHolds, OnlyHolds, OnceLists DEF Lists
  <2>4. Holds(ForEach(s, f), {f[k] : k \in (W \cup C) \ known})
    BY <2>3, ForEachHolds
  <2>5. (W \cup C) \ known = FreshKeys(b, o)
    BY <1>1 DEF FreshKeys
  <2>6. {f[k] : k \in (W \cup C) \ known}
          = {NewAnomaly(b, "registry", "registry_new_write", 2, Rank[k]) : k \in FreshKeys(b, o)}
    BY <1>2, <2>1, <2>5
  <2>7. RegistryWrites(b, o) = ForEach(s, f)
    BY <1>1, <2>1, <2>2 DEF RegistryWrites
  <2> QED BY <2>4, <2>6, <2>7
<1>5. /\ (o.data.weakened /\ ~b.data.weakened) \in BOOLEAN
      /\ (o.data.persist /\ ~b.data.persist) \in BOOLEAN
  OBVIOUS
<1> QED BY <1>4, <1>5, WhenHolds, JoinHolds DEF DiffRegistry, FoundRegistry

(* Process: of the entries of one path the first that deviates is reported,  *)
(* and nothing but the path goes into the anomaly.                           *)
LEMMA ProcessFound ==
  ASSUME NEW b, NEW o, o.data \in Capture
  PROVE  Holds(DiffProcess(b, o), FoundProcess(b, o))
<1>1. PICK kids, I, f : /\ kids = o.data.children /\ I = Flagged(b, kids)
                        /\ f = [c \in Item \X Hash |-> ChildAnomaly(b, c)]
  OBVIOUS
<1>2. kids \in Seq(Item \X Hash)
  BY <1>1, ObservedLists
<1>3. I \in SUBSET (DOMAIN kids) /\ \A i \in I : Deviates(b, kids[i])
  BY <1>1 DEF Flagged
<1>4. ASSUME NEW i \in DOMAIN kids, Deviates(b, kids[i])
      PROVE  \E j \in I : kids[j][1] = kids[i][1]
  <2>1. PICK at : at = {j \in DOMAIN kids : Deviates(b, kids[j]) /\ kids[j][1] = kids[i][1]}
    OBVIOUS
  <2>2. at \in SUBSET Nat /\ i \in at
    BY <1>2, <1>4, <2>1
  <2>3. PICK j \in at : \A k \in at : j <= k
    BY <2>2, SmallestOf
  <2>4. j \in DOMAIN kids /\ Deviates(b, kids[j]) /\ kids[j][1] = kids[i][1] /\ j \in Nat
    BY <2>1, <2>2, <2>3
  <2>5. ASSUME NEW k \in 1 .. (j - 1), Deviates(b, kids[k]) PROVE kids[k][1] # kids[j][1]
    <3>1. k \in DOMAIN kids /\ ~(j <= k)
      BY <1>2, <2>4
    <3> QED BY <2>1, <2>3, <2>4, <2>5, <3>1
  <2>6. j \in I
    BY <1>1, <2>4, <2>5 DEF Flagged
  <2> QED BY <2>4, <2>6
<1>5. PICK p, U : p = Pick(kids, I) /\ U = {kids[i] : i \in I}
  OBVIOUS
<1>6. Holds(p, U)
  BY <1>2, <1>3, <1>5, PickHolds
<1>7. Holds(NewChildren(b, o), {f[c] : c \in U})
  <2>1. Holds(ForEach(p, f), {f[c] : c \in U})
    BY <1>6, ForEachHolds
  <2>2. NewChildren(b, o) = ForEach(p, f)
    BY <1>1, <1>5 DEF NewChildren
  <2> QED BY <2>1, <2>2
<1>8. \A c, d : c[1] = d[1] => ChildAnomaly(b, c) = ChildAnomaly(b, d)
  BY DEF ChildAnomaly
<1>9. {f[c] : c \in U} = {ChildAnomaly(b, c) : c \in {c \in Range(kids) : Deviates(b, c)}}
  <2>1. \A i \in DOMAIN kids : kids[i] \in Item \X Hash /\ kids[i] \in Range(kids)
    BY <1>2 DEF Range
  <2>2. \A i \in I : f[kids[i]] = ChildAnomaly(b, kids[i])
    BY <1>1, <1>3, <2>1
  <2>3. ASSUME NEW i \in I
        PROVE  f[kids[i]] \in {ChildAnomaly(b, c) : c \in {c \in Range(kids) : Deviates(b, c)}}
    BY <1>3, <2>1, <2>2
  <2>4. ASSUME NEW c \in Range(kids), Deviates(b, c)
        PROVE  ChildAnomaly(b, c) \in {f[e] : e \in U}
    <3>1. PICK i \in DOMAIN kids : kids[i] = c
      BY DEF Range
    <3>2. PICK j \in I : kids[j][1] = c[1]
      BY <1>4, <2>4, <3>1
    <3>3. ChildAnomaly(b, c) = f[kids[j]]
      BY <1>8, <2>2, <3>2
    <3>4. kids[j] \in U
      BY <1>5
    <3> QED BY <3>3, <3>4
  <2> QED BY <1>5, <2>3, <2>4
<1>10. Holds(PrivilegeChanges(b, o),
             {NewAnomaly(b, "process", "privilege_escalation", 3, Rank[k]) :
                k \in o.data.sets["privileges"] \cap Escalations})
  <2>1. PICK S, g : /\ S = o.data.sets["privileges"] \cap Escalations
                    /\ g = [k \in Item |-> NewAnomaly(b, "process", "privilege_escalation", 3, Rank[k])]
    OBVIOUS
  <2>2. S \in SUBSET Item
    BY <2>1, ObservedLists DEF UnionDims
  <2>3. Holds(ForEach(Listed(S), g), {g[k] : k \in S})
    BY <2>2, ListedLists, ForEachHolds DEF Lists
  <2>4. {g[k] : k \in S} = {NewAnomaly(b, "process", "privilege_escalation", 3, Rank[k]) : k \in S}
    BY <2>1, <2>2
  <2> QED BY <2>1, <2>3, <2>4 DEF PrivilegeChanges
<1>11. (o.data.procReads > b.data.procReads) \in BOOLEAN
  OBVIOUS
<1> QED BY <1>1, <1>7, <1>9, <1>10, <1>11, WhenHolds, JoinHolds DEF DiffProcess, FoundProcess

(* Memory.                                                                   *)
LEMMA MemoryFound ==
  ASSUME NEW b, NEW o, o.data \in Capture
  PROVE  Holds(DiffMemory(b, o), FoundMemory(b, o))
<1>1. ASSUME NEW S \in SUBSET Item, NEW type, NEW text, NEW f,
             f = [k \in Item |-> NewAnomaly(b, "memory", type, text, Rank[k])]
      PROVE  Holds(ForEach(Listed(S), f),
                   {NewAnomaly(b, "memory", type, text, Rank[k]) : k \in S})
  <2>1. Holds(ForEach(Listed(S), f), {f[k] : k \in S})
    BY ListedLists, ForEachHolds DEF Lists
  <2>2. {f[k] : k \in S} = {NewAnomaly(b, "memory", type, text, Rank[k]) : k \in S}
    BY <1>1
  <2> QED BY <2>1, <2>2
<1>2. /\ o.data.sets["regions"] \cap AnonymousExec \in SUBSET Item
      /\ o.data.sets["mapped"] \ b.data.sets["mapped"] \in SUBSET Item
  BY ObservedLists DEF UnionDims
<1>3. Holds(AnonymousRegions(b, o),
            {NewAnomaly(b, "memory", "exec_memory_anonymous", 1, Rank[k]) :
               k \in o.data.sets["regions"] \cap AnonymousExec})
  BY <1>1, <1>2 DEF AnonymousRegions
<1>4. Holds(NewModules(b, o),
            {NewAnomaly(b, "memory", "unexpected_module_load", 2, Rank[k]) :
               k \in o.data.sets["mapped"] \ b.data.sets["mapped"]})
  BY <1>1, <1>2 DEF NewModules
<1> QED BY <1>3, <1>4, JoinHolds DEF DiffMemory, FoundMemory

(* Findings are exactly what was found, whatever the order of the names.     *)
LEMMA FindingsFound ==
  ASSUME NEW b, NEW o, o.data \in Capture,
         NEW names, Holds(names, Called(o.data))
  PROVE  Holds(Findings(b, o, names), Found(b, o))
<1>1. /\ Holds(DiffSyscalls(b, names), FoundSyscalls(b, o))
      /\ Holds(DiffNetwork(b, o), FoundNetwork(b, o))
      /\ Holds(DiffFilesystem(b, o), FoundFilesystem(b, o))
      /\ Holds(DiffRegistry(b, o), FoundRegistry(b, o))
      /\ Holds(DiffProcess(b, o), FoundProcess(b, o))
      /\ Holds(DiffMemory(b, o), FoundMemory(b, o))
  BY SyscallsFound, NetworkFound, FilesystemFound, RegistryFound, ProcessFound, MemoryFound
<1> QED BY <1>1, JoinHolds DEF Findings, Found
----------------------------------------------------------------------------
(* The weights of a baseline are numbers, and those the program writes are.  *)
Weighted(b) ==
  \/ b.weights = NilWeights
  \/ \A type \in DOMAIN b.weights : b.weights[type] \in Nat

(* Whichever map is used a weight is a number.                               *)
LEMMA WeightType ==
  ASSUME NEW b, Weighted(b), NEW type
  PROVE  WeightOf(b, type) \in Nat
<1>1. \A t \in DOMAIN DefaultAnomalyWeights : DefaultAnomalyWeights[t] \in Nat
  BY DEF DefaultAnomalyWeights
<1> QED BY <1>1 DEF WeightOf, Weighted

(* What distinguishes the messages of a dimension: its types by wording.     *)
Wording ==
  [filesystem |-> <<"executable_written", "wsl_interop_fs_write">>,
   memory     |-> <<"exec_memory_anonymous", "unexpected_module_load">>,
   network    |-> <<"promiscuous_mode_observed", "new_listening_port",
                    "new_outbound_connection", "raw_socket_opened",
                    "raw_socket_opened">>,
   process    |-> <<"child_exec_mismatch", "new_child_process",
                    "privilege_escalation", "procfs_read_other_pid">>,
   registry   |-> <<"registry_defense_impair", "registry_new_write",
                    "registry_persistence">>,
   syscalls   |-> <<"unexpected_syscall", "unexpected_syscall">>]

Types ==
  {"executable_written", "wsl_interop_fs_write", "exec_memory_anonymous",
   "unexpected_module_load", "promiscuous_mode_observed", "new_listening_port",
   "new_outbound_connection", "raw_socket_opened", "child_exec_mismatch",
   "new_child_process", "privilege_escalation", "procfs_read_other_pid",
   "registry_defense_impair", "registry_new_write", "registry_persistence",
   "unexpected_syscall"}

(* The anomalies there can be: the message gives the type, the type gives    *)
(* the weight, and that, watch-listed names excepted, the severity.          *)
Possible(b) ==
  {x \in [dim: {"filesystem", "memory", "network", "process", "registry", "syscalls"},
          type: Types, text: Nat, item: Nat, weight: Nat, severity: Severities,
          suppressed: BOOLEAN] :
     /\ x.type = Wording[x.dim][x.text]
     /\ x.weight = WeightOf(b, x.type)
     /\ x.severity = IF x.dim = "syscalls" /\ x.text = 1 THEN "critical"
                     ELSE SeverityFromWeight(x.weight)}

(* newAnomaly makes such anomalies.                                          *)
LEMMA NewAnomalyPossible ==
  ASSUME NEW b, Weighted(b), NEW n \in Nat
  PROVE  /\ NewAnomaly(b, "network", "new_listening_port", 2, n) \in Possible(b)
         /\ NewAnomaly(b, "network", "new_outbound_connection", 3, n) \in Possible(b)
         /\ NewAnomaly(b, "network", "raw_socket_opened", 4, n) \in Possible(b)
         /\ NewAnomaly(b, "network", "raw_socket_opened", 5, n) \in Possible(b)
         /\ NewAnomaly(b, "network", "promiscuous_mode_observed", 1, n) \in Possible(b)
         /\ NewAnomaly(b, "filesystem", "executable_written", 1, n) \in Possible(b)
         /\ NewAnomaly(b, "filesystem", "wsl_interop_fs_write", 2, n) \in Possible(b)
         /\ NewAnomaly(b, "registry", "registry_defense_impair", 1, n) \in Possible(b)
         /\ NewAnomaly(b, "registry", "registry_persistence", 3, n) \in Possible(b)
         /\ NewAnomaly(b, "registry", "registry_new_write", 2, n) \in Possible(b)
         /\ NewAnomaly(b, "process", "new_child_process", 2, n) \in Possible(b)
         /\ NewAnomaly(b, "process", "child_exec_mismatch", 1, n) \in Possible(b)
         /\ NewAnomaly(b, "process", "privilege_escalation", 3, n) \in Possible(b)
         /\ NewAnomaly(b, "process", "procfs_read_other_pid", 4, n) \in Possible(b)
         /\ NewAnomaly(b, "memory", "exec_memory_anonymous", 1, n) \in Possible(b)
         /\ NewAnomaly(b, "memory", "unexpected_module_load", 2, n) \in Possible(b)
         /\ NewAnomaly(b, "syscalls", "unexpected_syscall", 2, n) \in Possible(b)
<1>1. \A type : WeightOf(b, type) \in Nat
  BY WeightType
<1>2. \A w \in Nat : SeverityFromWeight(w) \in Severities
  BY DEF SeverityFromWeight, Severities
<1>3. ASSUME NEW dim \in {"filesystem", "memory", "network", "process", "registry", "syscalls"},
             NEW type \in Types, NEW text \in Nat, type = Wording[dim][text],
             ~(dim = "syscalls" /\ text = 1)
      PROVE  NewAnomaly(b, dim, type, text, n) \in Possible(b)
  BY <1>1, <1>2, <1>3 DEF Possible, NewAnomaly
<1>4. /\ Wording["network"] = <<"promiscuous_mode_observed", "new_listening_port",
                                "new_outbound_connection", "raw_socket_opened",
                                "raw_socket_opened">>
      /\ Wording["filesystem"] = <<"executable_written", "wsl_interop_fs_write">>
      /\ Wording["registry"] = <<"registry_defense_impair", "registry_new_write",
                                 "registry_persistence">>
      /\ Wording["process"] = <<"child_exec_mismatch", "new_child_process",
                                "privilege_escalation", "procfs_read_other_pid">>
      /\ Wording["memory"] = <<"exec_memory_anonymous", "unexpected_module_load">>
      /\ Wording["syscalls"] = <<"unexpected_syscall", "unexpected_syscall">>
  BY DEF Wording
<1>5. /\ NewAnomaly(b, "network", "new_listening_port", 2, n) \in Possible(b)
      /\ NewAnomaly(b, "network", "new_outbound_connection", 3, n) \in Possible(b)
      /\ NewAnomaly(b, "network", "raw_socket_opened", 4, n) \in Possible(b)
      /\ NewAnomaly(b, "network", "raw_socket_opened", 5, n) \in Possible(b)
      /\ NewAnomaly(b, "network", "promiscuous_mode_observed", 1, n) \in Possible(b)
  BY <1>3, <1>4 DEF Types
<1>6. /\ NewAnomaly(b, "filesystem", "executable_written", 1, n) \in Possible(b)
      /\ NewAnomaly(b, "filesystem", "wsl_interop_fs_write", 2, n) \in Possible(b)
  BY <1>3, <1>4 DEF Types
<1>7. /\ NewAnomaly(b, "registry", "registry_defense_impair", 1, n) \in Possible(b)
      /\ NewAnomaly(b, "registry", "registry_persistence", 3, n) \in Possible(b)
      /\ NewAnomaly(b, "registry", "registry_new_write", 2, n) \in Possible(b)
  BY <1>3, <1>4 DEF Types
<1>8. /\ NewAnomaly(b, "process", "new_child_process", 2, n) \in Possible(b)
      /\ NewAnomaly(b, "process", "child_exec_mismatch", 1, n) \in Possible(b)
      /\ NewAnomaly(b, "process", "privilege_escalation", 3, n) \in Possible(b)
      /\ NewAnomaly(b, "process", "procfs_read_other_pid", 4, n) \in Possible(b)
  BY <1>3, <1>4 DEF Types
<1>9. /\ NewAnomaly(b, "memory", "exec_memory_anonymous", 1, n) \in Possible(b)
      /\ NewAnomaly(b, "memory", "unexpected_module_load", 2, n) \in Possible(b)
      /\ NewAnomaly(b, "syscalls", "unexpected_syscall", 2, n) \in Possible(b)
  BY <1>3, <1>4 DEF Types
<1> QED BY <1>5, <1>6, <1>7, <1>8, <1>9

(* So does every diff.                                                       *)
LEMMA FoundPossible ==
  ASSUME NEW b, Weighted(b), NEW o, o.data \in Capture
  PROVE  Found(b, o) \subseteq Possible(b)
<1>1. \A k \in Item : Rank[k] \in Nat
  BY RankAssumption DEF RankAssumption
<1>2. \A d \in ListDims : Range(o.data.lists[d]) \subseteq Item
  BY ObservedLists, RangeHeld
<1>3. /\ \A d \in UnionDims : o.data.sets[d] \subseteq Item
      /\ \A d \in Buckets : Present(o.data.files[d]) \subseteq Item
  BY ObservedLists
<1>4. ASSUME NEW k \in Item PROVE SyscallAnomaly(b, k) \in Possible(b)
  <2>1. PICK x : x = NewAnomaly(b, "syscalls", "unexpected_syscall", 2, Rank[k])
    OBVIOUS
  <2>2. x \in Possible(b) /\ x.dim = "syscalls" /\ x.type = "unexpected_syscall"
    BY <1>1, <2>1, NewAnomalyPossible DEF NewAnomaly
  <2>3. [x EXCEPT !.suppressed = TRUE] \in Possible(b)
    BY <2>2 DEF Possible
  <2>4. [x EXCEPT !.severity = "critical", !.text = 1] \in Possible(b)
    <3>1. Wording["syscalls"][1] = "unexpected_syscall"
      BY DEF Wording
    <3>2. PICK y : y = [x EXCEPT !.severity = "critical", !.text = 1]
      OBVIOUS
    <3>3. /\ y.dim = x.dim /\ y.type = x.type /\ y.text = 1 /\ y.item = x.item
          /\ y.weight = x.weight /\ y.severity = "critical" /\ y.suppressed = x.suppressed
          /\ y \in [dim: {"filesystem", "memory", "network", "process", "registry", "syscalls"},
                    type: Types, text: Nat, item: Nat, weight: Nat, severity: Severities,
                    suppressed: BOOLEAN]
      BY <2>2, <3>2 DEF Possible, Severities
    <3> QED BY <2>2, <3>1, <3>2, <3>3 DEF Possible
  <2> QED BY <2>1, <2>2, <2>3, <2>4 DEF SyscallAnomaly, Suppress
<1>5. FoundSyscalls(b, o) \subseteq Possible(b)
  BY <1>4 DEF FoundSyscalls, Called
<1>6. FoundNetwork(b, o) \subseteq Possible(b)
  <2>1. "ports" \in ListDims /\ "conns" \in ListDims /\ "raw" \in ListDims
    BY DEF ListDims
  <2> QED BY <1>1, <1>2, <2>1, NewAnomalyPossible DEF FoundNetwork, FoundEntries, FoundRaw
<1>7. FoundFilesystem(b, o) \subseteq Possible(b)
  <2>1. ASSUME NEW k \in Item PROVE CrossingAnomaly(b, k) \in Possible(b)
    <3>1. PICK x : x = NewAnomaly(b, "filesystem", "wsl_interop_fs_write", 2, Rank[k])
      OBVIOUS
    <3>2. x \in Possible(b)
      BY <1>1, <3>1, NewAnomalyPossible
    <3>3. [x EXCEPT !.suppressed = TRUE] \in Possible(b)
      BY <3>2 DEF Possible
    <3> QED BY <3>1, <3>2, <3>3 DEF CrossingAnomaly, Suppress
  <2>2. FreshExecutables(b, o) \subseteq Item /\ Present(o.data.files["written"]) \subseteq Item
    BY <1>3 DEF FreshExecutables, Buckets
  <2> QED BY <1>1, <2>1, <2>2, NewAnomalyPossible DEF FoundFilesystem
<1>8. FoundRegistry(b, o) \subseteq Possible(b)
  <2>1. FreshKeys(b, o) \subseteq Item
    BY <1>3 DEF FreshKeys, UnionDims
  <2> QED BY <1>1, <2>1, NewAnomalyPossible DEF FoundRegistry
<1>9. FoundProcess(b, o) \subseteq Possible(b)
  <2>1. ASSUME NEW c \in Range(o.data.children) PROVE ChildAnomaly(b, c) \in Possible(b)
    <3>1. Rank[c[1]] \in Nat
      BY <1>1, ObservedLists, RangeHeld
    <3> QED BY <3>1, NewAnomalyPossible DEF ChildAnomaly
  <2>2. o.data.sets["privileges"] \subseteq Item
    BY <1>3 DEF UnionDims
  <2> QED BY <1>1, <2>1, <2>2, NewAnomalyPossible DEF FoundProcess
<1>10. FoundMemory(b, o) \subseteq Possible(b)
  <2>1. o.data.sets["regions"] \subseteq Item /\ o.data.sets["mapped"] \subseteq Item
    BY <1>3 DEF UnionDims
  <2> QED BY <1>1, <2>1, NewAnomalyPossible DEF FoundMemory
<1> QED BY <1>5, <1>6, <1>7, <1>8, <1>9, <1>10 DEF Found
----------------------------------------------------------------------------
(* The order of the report.                                                  *)
Ahead(b) == {p \in Possible(b) \X Possible(b) : Less(p[1], p[2])}

(* The dimensions are ranked, each with a rank of its own.                   *)
LEMMA DimRanks ==
  /\ \A d \in {"filesystem", "memory", "network", "process", "registry", "syscalls"} :
       DimRank(d) \in 1 .. 6
  /\ \A d, e \in {"filesystem", "memory", "network", "process", "registry", "syscalls"} :
       DimRank(d) = DimRank(e) => d = e
<1>1. DOMAIN Dimensions = 1 .. 6
  BY DEF Dimensions
<1>2. ASSUME NEW d \in {"filesystem", "memory", "network", "process", "registry", "syscalls"}
      PROVE  \E i \in 1 .. 6 : Dimensions[i] = d
  <2>1. /\ Dimensions[1] = "filesystem" /\ Dimensions[2] = "memory"
        /\ Dimensions[3] = "network" /\ Dimensions[4] = "process"
        /\ Dimensions[5] = "registry" /\ Dimensions[6] = "syscalls"
    BY DEF Dimensions
  <2> QED BY <2>1
<1>3. \A d \in {"filesystem", "memory", "network", "process", "registry", "syscalls"} :
        DimRank(d) \in 1 .. 6 /\ Dimensions[DimRank(d)] = d
  BY <1>1, <1>2 DEF DimRank
<1> QED BY <1>3

(* Two different anomalies never tie: the order of the report is total.      *)
LEMMA AheadTotal ==
  ASSUME NEW b
  PROVE  /\ TotalOn(Possible(b), Ahead(b))
         /\ \A x, y \in Possible(b) : <<x, y>> \in Ahead(b) <=> Less(x, y)
<1>1. \A x, y \in Possible(b) : <<x, y>> \in Ahead(b) <=> Less(x, y)
  BY DEF Ahead
<1>2. ASSUME NEW x \in Possible(b)
      PROVE  /\ x.weight \in Nat /\ x.text \in Nat /\ x.item \in Nat
             /\ DimRank(x.dim) \in Int /\ x.suppressed \in BOOLEAN
  BY DimRanks DEF Possible
<1>3. ASSUME NEW x \in Possible(b), NEW y \in Possible(b)
      PROVE  DimRank(x.dim) = DimRank(y.dim) => x.dim = y.dim
  BY DimRanks DEF Possible
<1>4. \A x \in Possible(b) : ~Less(x, x)
  BY <1>2 DEF Less
<1>5. ASSUME NEW x \in Possible(b), NEW y \in Possible(b), NEW z \in Possible(b),
             Less(x, y), Less(y, z)
      PROVE  Less(x, z)
  <2>1. /\ x.weight \in Nat /\ x.text \in Nat /\ x.item \in Nat /\ DimRank(x.dim) \in Int
        /\ y.weight \in Nat /\ y.text \in Nat /\ y.item \in Nat /\ DimRank(y.dim) \in Int
        /\ z.weight \in Nat /\ z.text \in Nat /\ z.item \in Nat /\ DimRank(z.dim) \in Int
        /\ x.suppressed \in BOOLEAN /\ y.suppressed \in BOOLEAN /\ z.suppressed \in BOOLEAN
    BY <1>2
  <2>2. DimRank(x.dim) = DimRank(z.dim) => x.dim = z.dim
    BY <1>3
  <2> QED BY <1>5, <2>1, <2>2 DEF Less
<1>6. ASSUME NEW x \in Possible(b), NEW y \in Possible(b), ~Less(x, y), ~Less(y, x)
      PROVE  x = y
  <2>1. /\ x.suppressed = y.suppressed /\ x.weight = y.weight /\ x.dim = y.dim
        /\ x.text = y.text /\ x.item = y.item
    BY <1>2, <1>3, <1>6 DEF Less
  <2>2. x.type = y.type /\ x.severity = y.severity
    BY <2>1 DEF Possible
  <2> QED BY <2>1, <2>2 DEF Possible
<1> QED BY <1>1, <1>4, <1>5, <1>6 DEF TotalOn

(* sortAnomalies loses and adds nothing and leaves nothing out of order.     *)
LEMMA AnomaliesSorted ==
  ASSUME NEW b, NEW s \in Seq(Possible(b))
  PROVE  /\ SortAnomalies(s) \in Seq(Possible(b))
         /\ Embeds(s, SortAnomalies(s)) /\ Embeds(SortAnomalies(s), s)
         /\ SortedBy(SortAnomalies(s), Ahead(b))
<1>1. PICK I, before : /\ I = DOMAIN s
                       /\ before = {p \in (DOMAIN s) \X (DOMAIN s) : Less(s[p[1]], s[p[2]])}
  OBVIOUS
<1>2. \A i \in I : s[i] \in Possible(b)
  BY <1>1
<1>3. \A i, j \in I : <<i, j>> \in before <=> <<s[i], s[j]>> \in Ahead(b)
  <2>1. \A i, j \in I : <<i, j>> \in before <=> Less(s[i], s[j])
    BY <1>1
  <2> QED BY <1>2, <2>1, AheadTotal
<1>4. WeakOn(I, before)
  <2>1. TotalOn(Possible(b), Ahead(b))
    BY AheadTotal
  <2>2. ASSUME NEW i \in I, NEW j \in I, <<i, j>> \in before PROVE <<j, i>> \notin before
    BY <1>2, <1>3, <2>1, <2>2 DEF TotalOn
  <2>3. ASSUME NEW i \in I, NEW j \in I, NEW k \in I, <<i, k>> \in before
        PROVE  <<i, j>> \in before \/ <<j, k>> \in before
    <3>1. <<s[i], s[k]>> \in Ahead(b) /\ s[i] \in Possible(b) /\ s[j] \in Possible(b)
          /\ s[k] \in Possible(b)
      BY <1>2, <1>3, <2>3
    <3>2. <<s[i], s[j]>> \in Ahead(b) \/ <<s[j], s[k]>> \in Ahead(b)
      BY <2>1, <3>1 DEF TotalOn
    <3> QED BY <1>3, <3>2
  <2> QED BY <2>2, <2>3 DEF WeakOn
<1>5. PICK r, at : r = StableSort(s, before) /\ at = Origin(s, before)
  OBVIOUS
<1>6. r = SortAnomalies(s)
  BY <1>1, <1>5 DEF SortAnomalies
<1>7. /\ r \in Seq(Possible(b)) /\ DOMAIN r = I /\ at \in [I -> I]
      /\ \A p \in I : r[p] = s[at[p]]
      /\ \A p, q \in I : p < q => <<at[q], at[p]>> \notin before
  <2>1. PICK T : T = Possible(b)
    OBVIOUS
  <2>2. s \in Seq(T) /\ I = DOMAIN s
    BY <1>1, <2>1
  <2>3. /\ r \in Seq(T) /\ DOMAIN r = I /\ at \in [I -> I]
        /\ \A p \in I : r[p] = s[at[p]]
        /\ \A p, q \in I : p < q => <<at[q], at[p]>> \notin before
    BY <1>4, <1>5, <2>2, StableSortAll
  <2> QED BY <2>1, <2>3
<1>8. Embeds(s, r) /\ Embeds(r, s)
  BY <1>1, <1>4, <1>5, SortEmbeds
<1>9. SortedBy(r, Ahead(b))
  BY <1>3, <1>7 DEF SortedBy
<1> QED BY <1>6, <1>7, <1>8, <1>9
----------------------------------------------------------------------------
(* The report has what was found, no more and no less.                       *)
LEMMA ReportFound ==
  ASSUME NEW b, Weighted(b), NEW o, o.data \in Capture,
         NEW names, Holds(names, Called(o.data))
  PROVE  /\ SortAnomalies(Findings(b, o, names)) \in Seq(Possible(b))
         /\ Holds(SortAnomalies(Findings(b, o, names)), Found(b, o))
<1>1. PICK s, r, F : /\ s = Findings(b, o, names) /\ F = Found(b, o)
                     /\ r = SortAnomalies(Findings(b, o, names))
  OBVIOUS
<1>2. s \in Seq(F) /\ \A x \in F : \E i \in DOMAIN s : s[i] = x
  BY <1>1, FindingsFound DEF Holds
<1>3. F \subseteq Possible(b)
  BY <1>1, FoundPossible
<1>4. s \in Seq(Possible(b))
  BY <1>2, <1>3
<1>5. r \in Seq(Possible(b)) /\ Embeds(s, r) /\ Embeds(r, s)
  BY <1>1, <1>4, AnomaliesSorted
<1>6. PICK D, E : D = DOMAIN s /\ E = DOMAIN r
  OBVIOUS
<1>7. PICK g \in [D -> E] : \A i \in D : r[g[i]] = s[i]
  BY <1>5, <1>6, Zenon DEF Embeds
<1>8. PICK h \in [E -> D] : \A i \in E : s[h[i]] = r[i]
  BY <1>5, <1>6, Zenon DEF Embeds
<1>9. \A i \in E : r[i] \in F
  <2>1. \A i \in D : s[i] \in F
    BY <1>2, <1>6
  <2> QED BY <1>8, <2>1
<1>10. r \in Seq(F)
  BY <1>5, <1>6, <1>9
<1>11. \A x \in F : \E i \in E : r[i] = x
  BY <1>2, <1>6, <1>7
<1> QED BY <1>1, <1>5, <1>6, <1>10, <1>11 DEF Holds

(* What a result says follows from its anomalies.                            *)
LEMMA AnalyzeSays ==
  ASSUME NEW b, NEW o, NEW names, NEW s, s = SortAnomalies(Findings(b, o, names))
  PROVE  /\ Analyze(b, o, names).anomalies = s
         /\ Analyze(b, o, names).score = RiskScore(s)
         /\ Analyze(b, o, names).verdict = VerdictFor(RiskScore(s), s)
         /\ Analyze(b, o, names).level = WazuhLevel(VerdictFor(RiskScore(s), s))
         /\ Analyze(b, o, names).summary.total = Cardinality(Active(s))
BY DEF Analyze, Summarize

(* The order in which the syscalls are visited does not show in the result.  *)
LEMMA AnalyzeAlike ==
  ASSUME NEW b, Weighted(b), NEW o, o.data \in Capture,
         NEW names, Lists(names, Called(o.data)), NEW other, Lists(other, Called(o.data))
  PROVE  Analyze(b, o, names) = Analyze(b, o, other)
<1>1. PICK Q : Q = Possible(b)
  OBVIOUS
<1>2. Holds(names, Called(o.data)) /\ Holds(other, Called(o.data))
  BY DEF Lists
<1>3. ASSUME NEW m, NEW n, Lists(m, Called(o.data)), Lists(n, Called(o.data))
      PROVE  Embeds(Findings(b, o, m), Findings(b, o, n))
  <2>1. PICK C : C = Called(o.data) \ Called(b.data)
    OBVIOUS
  <2>2. Lists(Without(m, Called(b.data)), C) /\ Lists(Without(n, Called(b.data)), C)
    <3>1. Holds(m, Called(o.data)) /\ Holds(n, Called(o.data))
      BY <1>3 DEF Lists
    <3> QED BY <1>3, <2>1, <3>1, OnlyHolds
  <2>3. Grows(Without(m, Called(b.data)), Without(n, Called(b.data)))
    BY <2>2, ListsGrow DEF Lists
  <2>4. Grows(DiffSyscalls(b, m), DiffSyscalls(b, n))
    BY <2>3, ForEachGrows DEF DiffSyscalls
  <2>5. /\ Grows(DiffNetwork(b, o), DiffNetwork(b, o))
        /\ Grows(DiffFilesystem(b, o), DiffFilesystem(b, o))
        /\ Grows(DiffRegistry(b, o), DiffRegistry(b, o))
        /\ Grows(DiffProcess(b, o), DiffProcess(b, o))
        /\ Grows(DiffMemory(b, o), DiffMemory(b, o))
    BY NetworkFound, FilesystemFound, RegistryFound, ProcessFound, MemoryFound, GrowsNot
  <2>6. Grows(Findings(b, o, m), Findings(b, o, n))
    BY <2>4, <2>5, GrowsJoined DEF Findings
  <2> QED BY <2>6 DEF Grows
<1>4. PICK s, t : s = Findings(b, o, names) /\ t = Findings(b, o, other)
  OBVIOUS
<1>5. s \in Seq(Q) /\ t \in Seq(Q)
  <2>1. s \in Seq(Found(b, o)) /\ t \in Seq(Found(b, o))
    BY <1>2, <1>4, FindingsFound DEF Holds
  <2> QED BY <1>1, <2>1, FoundPossible
<1>6. Embeds(s, t) /\ Embeds(t, s)
  BY <1>3, <1>4
<1>7. PICK u, v : u = SortAnomalies(s) /\ v = SortAnomalies(t)
  OBVIOUS
<1>8. /\ u \in Seq(Q) /\ Embeds(s, u) /\ Embeds(u, s) /\ SortedBy(u, Ahead(b))
      /\ v \in Seq(Q) /\ Embeds(t, v) /\ Embeds(v, t) /\ SortedBy(v, Ahead(b))
  BY <1>1, <1>5, <1>7, AnomaliesSorted
<1>9. Embeds(u, v) /\ Embeds(v, u)
  BY <1>6, <1>8, EmbedsThrough
<1>10. TotalOn(Q, Ahead(b))
  BY <1>1, AheadTotal
<1>11. u = v
  BY <1>8, <1>9, <1>10, SortedAlike
<1> QED BY <1>4, <1>7, <1>11 DEF Analyze
----------------------------------------------------------------------------
(* The engine visits each syscall once, and its result is what Analyze makes *)
(* of the order it visited them in.                                          *)
EngineInv ==
  /\ baseline \in Baselines /\ observation \in Observations
  /\ visited \in Seq(Item)
  /\ \A i, j \in DOMAIN visited : visited[i] = visited[j] => i = j
  /\ Range(visited) \subseteq Called(observation.data)
  /\ Done => /\ Range(visited) = Called(observation.data)
             /\ result = <<Analyze(baseline, observation, visited)>>

(* Both steps of the engine keep that.                                       *)
LEMMA EngineStep == EngineInv /\ [EngineNext]_engineVars => EngineInv'
<1> SUFFICES ASSUME EngineInv, [EngineNext]_engineVars PROVE EngineInv'
  OBVIOUS
<1>1. ASSUME NEW k \in Item, VisitSyscall(k) PROVE EngineInv'
  <2>1. /\ k \in Called(observation.data) /\ k \notin Range(visited)
        /\ visited' = Append(visited, k) /\ UNCHANGED <<baseline, observation, result>>
    BY <1>1 DEF VisitSyscall
  <2>2. visited \in Seq(Item) /\ \A i \in DOMAIN visited : visited[i] \in Range(visited)
    BY DEF EngineInv, Range
  <2>3. /\ visited' \in Seq(Item) /\ DOMAIN visited' = DOMAIN visited \cup {Len(visited) + 1}
        /\ \A i \in DOMAIN visited : visited'[i] = visited[i]
        /\ visited'[Len(visited) + 1] = k
    BY <2>1, <2>2
  <2>4. \A i, j \in DOMAIN visited' : visited'[i] = visited'[j] => i = j
    <3>1. \A i, j \in DOMAIN visited : visited[i] = visited[j] => i = j
      BY DEF EngineInv
    <3>2. \A i \in DOMAIN visited : visited[i] # k
      BY <2>1, <2>2
    <3> QED BY <2>3, <3>1, <3>2
  <2>5. Range(visited') = Range(visited) \cup {k}
    BY <2>3 DEF Range
  <2>6. ~Done
    BY <2>1 DEF EngineInv
  <2> QED BY <2>1, <2>3, <2>4, <2>5, <2>6 DEF EngineInv, Done
<1>2. CASE AnalyzeReturns
  BY <1>2 DEF AnalyzeReturns, EngineInv, Done
<1>3. CASE UNCHANGED engineVars
  BY <1>3 DEF engineVars, EngineInv, Done
<1> QED BY <1>1, <1>2, <1>3 DEF EngineNext

(* In every state, for any baselines, observations and orders.               *)
LEMMA EngineInvAlways == EngineSpec => []EngineInv
<1>1. EngineInit => EngineInv
  BY DEF EngineInit, EngineInv, Done, Range
<1> QED BY <1>1, EngineStep, PTL DEF EngineSpec

(* When the engine is done, the report is that of a complete visit.          *)
LEMMA EngineDone ==
  ASSUME EngineInv, Done
  PROVE  /\ Weighted(baseline) /\ observation.data \in Capture
         /\ Lists(visited, Called(observation.data))
         /\ Holds(visited, Called(observation.data))
         /\ R = Analyze(baseline, observation, visited)
<1>1. Weighted(baseline) /\ observation.data \in Capture
  BY EngineAssumption DEF EngineInv, EngineAssumption, Weighted
<1>2. Holds(visited, Range(visited))
  BY RangeHeld DEF EngineInv
<1> QED BY <1>1, <1>2 DEF EngineInv, Lists, R

(* Analyze is deterministic, as its comment promises: the order in which the *)
(* Go runtime walks the observed map does not show in the result.            *)
THEOREM DeterministicCorrect == EngineSpec => []Deterministic
<1>1. EngineInv => Deterministic
  <2> SUFFICES ASSUME EngineInv, Done
               PROVE  R = Analyze(baseline, observation, Canonical(observation))
    BY DEF Deterministic
  <2>1. Lists(Canonical(observation), Called(observation.data))
    BY ListedLists DEF Canonical, Called
  <2> QED BY <2>1, EngineDone, AnalyzeAlike
<1> QED BY <1>1, EngineInvAlways, PTL

(* The report of the engine has an anomaly for everything the diffs find and *)
(* no other, and one that belongs before another comes before it.            *)
ReportExact ==
  Done => /\ Range(R.anomalies) = Found(baseline, observation)
          /\ SortedBy(R.anomalies, Ahead(baseline))

(* sortAnomalies and the flagged maps lose nothing and invent nothing: what  *)
(* is reported is what was found, in the order of the report.                *)
THEOREM ReportCorrect == EngineSpec => []ReportExact
<1>1. EngineInv => ReportExact
  <2> SUFFICES ASSUME EngineInv, Done
               PROVE  /\ Range(R.anomalies) = Found(baseline, observation)
                      /\ SortedBy(R.anomalies, Ahead(baseline))
    BY DEF ReportExact
  <2>1. PICK f, s, F : /\ f = Findings(baseline, observation, visited)
                       /\ s = SortAnomalies(f) /\ F = Found(baseline, observation)
    OBVIOUS
  <2>2. f \in Seq(F) /\ s \in Seq(F) /\ \A x \in F : \E i \in DOMAIN s : s[i] = x
    BY <2>1, EngineDone, FindingsFound, ReportFound DEF Holds
  <2>3. f \in Seq(Possible(baseline))
    BY <2>1, <2>2, EngineDone, FoundPossible
  <2>4. SortedBy(s, Ahead(baseline))
    BY <2>1, <2>3, AnomaliesSorted
  <2>5. Range(s) = F
    BY <2>2 DEF Range
  <2>6. R.anomalies = s
    BY <2>1, EngineDone, AnalyzeSays
  <2> QED BY <2>1, <2>4, <2>5, <2>6
<1> QED BY <1>1, EngineInvAlways, PTL

(* A new syscall of the watch list makes the verdict malicious and the alert *)
(* one of level 12, on the noise list or not and whatever the weights.       *)
THEOREM WatchListCorrect == EngineSpec => []WatchListIsMalicious
<1>1. EngineInv => WatchListIsMalicious
  <2> SUFFICES ASSUME EngineInv, Done,
                      NEW k \in (Called(observation.data) \ Called(baseline.data))
                                  \cap baseline.data.watch
               PROVE  R.verdict = "malicious" /\ R.level = 12
    BY DEF WatchListIsMalicious
  <2>1. PICK s : s = SortAnomalies(Findings(baseline, observation, visited))
    OBVIOUS
  <2>2. Holds(s, Found(baseline, observation))
    BY <2>1, EngineDone, ReportFound
  <2>3. SyscallAnomaly(baseline, k) \in Found(baseline, observation)
    BY DEF Found, FoundSyscalls
  <2>4. PICK i \in DOMAIN s : s[i] = SyscallAnomaly(baseline, k)
    BY <2>2, <2>3 DEF Holds
  <2>5. ~s[i].suppressed /\ s[i].severity = "critical"
    BY <2>4 DEF SyscallAnomaly, NewAnomaly
  <2>6. VerdictFor(RiskScore(s), s) = "malicious"
    BY <2>4, <2>5 DEF VerdictFor, Active
  <2> QED BY <2>1, <2>6, EngineDone, AnalyzeSays DEF WazuhLevel
<1> QED BY <1>1, EngineInvAlways, PTL

(* Suppressed anomalies alone score nothing and leave the verdict clean.     *)
LEMMA SuppressedIsClean ==
  ASSUME NEW s, \A i \in DOMAIN s : s[i].suppressed
  PROVE  /\ RiskScore(s) = 0 /\ VerdictFor(0, s) = "clean" /\ Cardinality(Active(s)) = 0
<1>1. Active(s) = {}
  BY DEF Active
<1>2. Points(s) = {}
  BY <1>1 DEF Points
<1>3. Cardinality({}) = 0
  BY FS_EmptySet
<1> QED BY <1>1, <1>2, <1>3 DEF RiskScore, VerdictFor

(* All that known noise raises is suppressed.                                *)
LEMMA NoiseSuppressed ==
  ASSUME NEW b, b.data.procReads \in Nat, NEW o, o.data \in Capture, OnlyNoise(b, o),
         NEW x \in Found(b, o)
  PROVE  x.suppressed
<1>1. /\ \A d \in ListDims : Range(o.data.lists[d]) \subseteq b.data.lists[d]
      /\ Range(o.data.children) = {}
  <2>1. DOMAIN o.data.lists = ListDims
    BY DEF Capture
  <2>2. \A d \in ListDims : Range(o.data.lists[d]) \subseteq b.data.lists[d]
    BY <2>1 DEF OnlyNoise
  <2>3. Range(o.data.children) = {}
    BY DEF OnlyNoise, Range
  <2> QED BY <2>2, <2>3
<1>2. x \notin FoundNetwork(b, o)
  <2>1. "ports" \in ListDims /\ "conns" \in ListDims /\ "raw" \in ListDims
    BY DEF ListDims
  <2>2. ~NewlyPromiscuous(b, o)
    BY DEF OnlyNoise, NewlyPromiscuous
  <2> QED BY <1>1, <2>1, <2>2 DEF FoundNetwork, FoundEntries, FoundRaw
<1>3. x \notin FoundRegistry(b, o)
  <2>1. FreshKeys(b, o) = {}
    BY DEF OnlyNoise, FreshKeys
  <2> QED BY <2>1 DEF FoundRegistry, OnlyNoise
<1>4. x \notin FoundProcess(b, o)
  <2>1. ~(o.data.procReads > b.data.procReads)
    BY ObservedLists DEF OnlyNoise
  <2> QED BY <1>1, <2>1 DEF FoundProcess, OnlyNoise
<1>5. x \notin FoundMemory(b, o)
  BY DEF FoundMemory, OnlyNoise
<1>6. CASE x \in FoundSyscalls(b, o)
  <2>1. PICK k \in Called(o.data) \ Called(b.data) : x = SyscallAnomaly(b, k)
    BY <1>6 DEF FoundSyscalls
  <2>2. k \in Benign /\ k \notin b.data.watch
    BY DEF OnlyNoise
  <2> QED BY <2>1, <2>2 DEF SyscallAnomaly, Suppress, NewAnomaly
<1>7. CASE x \in FoundFilesystem(b, o)
  <2>1. FreshExecutables(b, o) = {}
    BY DEF OnlyNoise, FreshExecutables
  <2>2. PICK k \in KnownInterop : x = CrossingAnomaly(b, k)
    BY <1>7, <2>1 DEF FoundFilesystem, OnlyNoise
  <2> QED BY <2>2 DEF CrossingAnomaly, Suppress, NewAnomaly
<1> QED BY <1>2, <1>3, <1>4, <1>5, <1>6, <1>7 DEF Found

(* Noise suppression is complete: it raises neither score nor verdict.       *)
THEOREM NoiseCorrect == EngineSpec => []NoiseIsInert
<1>1. EngineInv => NoiseIsInert
  <2> SUFFICES ASSUME EngineInv, Done, OnlyNoise(baseline, observation)
               PROVE  R.score = 0 /\ R.verdict = "clean" /\ R.summary.total = 0
    BY DEF NoiseIsInert
  <2>1. PICK s : s = SortAnomalies(Findings(baseline, observation, visited))
    OBVIOUS
  <2>2. s \in Seq(Found(baseline, observation))
    BY <2>1, EngineDone, ReportFound DEF Holds
  <2>3. baseline.data.procReads \in Nat
    BY EngineAssumption DEF EngineInv, EngineAssumption
  <2>4. \A x \in Found(baseline, observation) : x.suppressed
    BY <2>3, EngineDone, NoiseSuppressed
  <2>5. \A i \in DOMAIN s : s[i].suppressed
    BY <2>2, <2>4
  <2>6. RiskScore(s) = 0 /\ VerdictFor(RiskScore(s), s) = "clean" /\ Cardinality(Active(s)) = 0
    BY <2>5, SuppressedIsClean
  <2> QED BY <2>1, <2>6, EngineDone, AnalyzeSays
<1> QED BY <1>1, EngineInvAlways, PTL
----------------------------------------------------------------------------
(* What a prefix is.                                                         *)
LEMMA PrefixSays ==
  ASSUME NEW T, NEW s \in Seq(T), NEW t \in Seq(T), IsPrefix(s, t)
  PROVE  \A i \in DOMAIN s : i \in DOMAIN t /\ s[i] = t[i]
<1> SUFFICES ASSUME NEW i \in DOMAIN s PROVE i \in DOMAIN t /\ s[i] = t[i]
  OBVIOUS
<1>1. Len(s) <= Len(t) /\ SubSeq(s, 1, Len(s)) = SubSeq(t, 1, Len(s))
  BY DEF IsPrefix
<1>2. i \in 1 .. Len(s) /\ Len(s) \in Nat /\ Len(t) \in Nat
  OBVIOUS
<1>3. SubSeq(s, 1, Len(s))[i] = s[i] /\ SubSeq(t, 1, Len(s))[i] = t[i]
  BY <1>1, <1>2
<1> QED BY <1>1, <1>2, <1>3

(* What an extended observation has of each kind.                            *)
LEMMA ExtendedSays ==
  ASSUME NEW x, NEW y, x.data \in Capture, y.data \in Capture, Extended(x, y)
  PROVE  /\ Called(x.data) \subseteq Called(y.data)
         /\ \A d \in ListDims : \A i \in DOMAIN x.data.lists[d] :
              i \in DOMAIN y.data.lists[d] /\ x.data.lists[d][i] = y.data.lists[d][i]
         /\ \A d \in UnionDims : x.data.sets[d] \subseteq y.data.sets[d]
         /\ \A d \in Buckets : Present(x.data.files[d]) \subseteq Present(y.data.files[d])
         /\ \A i \in DOMAIN x.data.children :
              i \in DOMAIN y.data.children /\ x.data.children[i] = y.data.children[i]
         /\ x.data.persist => y.data.persist
         /\ x.data.weakened => y.data.weakened
         /\ x.data.procReads <= y.data.procReads
<1>1. /\ DOMAIN x.data.lists = ListDims /\ DOMAIN x.data.sets = UnionDims
      /\ DOMAIN x.data.files = Buckets
  BY DEF Capture
<1>2. ASSUME NEW d \in ListDims, NEW i \in DOMAIN x.data.lists[d]
      PROVE  i \in DOMAIN y.data.lists[d] /\ x.data.lists[d][i] = y.data.lists[d][i]
  <2>1. PICK s, t : s = x.data.lists[d] /\ t = y.data.lists[d]
    OBVIOUS
  <2>2. s \in Seq(Item) /\ t \in Seq(Item) /\ IsPrefix(s, t)
    BY <1>1, <2>1, ObservedLists DEF Extended
  <2> QED BY <2>1, <2>2, PrefixSays
<1>3. ASSUME NEW i \in DOMAIN x.data.children
      PROVE  i \in DOMAIN y.data.children /\ x.data.children[i] = y.data.children[i]
  <2>1. PICK s, t : s = x.data.children /\ t = y.data.children
    OBVIOUS
  <2>2. s \in Seq(Item \X Hash) /\ t \in Seq(Item \X Hash) /\ IsPrefix(s, t)
    BY <2>1, ObservedLists DEF Extended
  <2> QED BY <2>1, <2>2, PrefixSays
<1> QED BY <1>1, <1>2, <1>3 DEF Extended

(* Listing more, more is listed.                                             *)
LEMMA ListedGrows ==
  ASSUME NEW S \in SUBSET Item, NEW U \in SUBSET Item, S \subseteq U, NEW f
  PROVE  Grows(ForEach(Listed(S), f), ForEach(Listed(U), f))
<1>1. Grows(Listed(S), Listed(U))
  BY ListedLists, ListsGrow DEF Lists
<1> QED BY <1>1, ForEachGrows

(* More of the syscalls.                                                     *)
LEMMA SyscallsGrow ==
  ASSUME NEW b, NEW x, NEW y, x.data \in Capture, y.data \in Capture, Extended(x, y)
  PROVE  Grows(DiffSyscalls(b, Canonical(x)), DiffSyscalls(b, Canonical(y)))
<1>1. PICK X, Y, s, t, B : /\ X = Called(x.data) /\ Y = Called(y.data) /\ B = Called(b.data)
                           /\ s = Canonical(x) /\ t = Canonical(y)
  OBVIOUS
<1>2. Lists(s, X) /\ Lists(t, Y) /\ Holds(s, X) /\ Holds(t, Y)
  BY <1>1, ListedLists DEF Canonical, Called, Lists
<1>3. Lists(Without(s, B), X \ B) /\ Holds(Without(t, B), Y \ B)
  BY <1>2, OnlyHolds
<1>4. X \ B \subseteq Y \ B
  BY <1>1 DEF Extended
<1>5. Grows(Without(s, B), Without(t, B))
  BY <1>3, <1>4, ListsGrow
<1> QED BY <1>1, <1>5, ForEachGrows DEF DiffSyscalls

(* More of the network.                                                      *)
LEMMA NetworkGrows ==
  ASSUME NEW b, NEW x, NEW y, x.data \in Capture, y.data \in Capture, Extended(x, y)
  PROVE  Grows(DiffNetwork(b, x), DiffNetwork(b, y))
<1>1. ASSUME NEW d \in ListDims, NEW f
      PROVE  Grows(ForEach(Without(x.data.lists[d], b.data.lists[d]), f),
                   ForEach(Without(y.data.lists[d], b.data.lists[d]), f))
  <2>1. PICK s, t, S, I, J :
          /\ s = x.data.lists[d] /\ t = y.data.lists[d] /\ S = b.data.lists[d]
          /\ I = {i \in DOMAIN s : s[i] \notin S} /\ J = {i \in DOMAIN t : t[i] \notin S}
    OBVIOUS
  <2>2. s \in Seq(Item) /\ t \in Seq(Item)
    BY <2>1, ObservedLists
  <2>3. \A i \in DOMAIN s : i \in DOMAIN t /\ s[i] = t[i]
    BY <2>1, ExtendedSays
  <2>4. I \in SUBSET (DOMAIN s) /\ J \in SUBSET (DOMAIN t) /\ \A i \in I : i \in J /\ s[i] = t[i]
    BY <2>1, <2>3
  <2>5. Grows(Pick(s, I), Pick(t, J))
    BY <2>2, <2>4, PickGrows
  <2>6. Without(s, S) = Pick(s, I) /\ Without(t, S) = Pick(t, J)
    BY <2>1 DEF Without
  <2> QED BY <2>1, <2>5, <2>6, ForEachGrows
<1>2. "ports" \in ListDims /\ "conns" \in ListDims /\ "raw" \in ListDims
  BY DEF ListDims
<1>3. /\ Grows(NewEntries(b, x, "ports", "new_listening_port", 2),
               NewEntries(b, y, "ports", "new_listening_port", 2))
      /\ Grows(NewEntries(b, x, "conns", "new_outbound_connection", 3),
               NewEntries(b, y, "conns", "new_outbound_connection", 3))
  BY <1>1, <1>2 DEF NewEntries
<1>4. Grows(NewRawSockets(b, x), NewRawSockets(b, y))
  BY <1>1, <1>2 DEF NewRawSockets
<1>5. Grows(Promiscuous(b, x), Promiscuous(b, y))
  <2>1. Range(x.data.lists["raw"]) \subseteq Range(y.data.lists["raw"])
    BY <1>2, ExtendedSays DEF Range
  <2>2. x.data.sets["promisc"] \subseteq y.data.sets["promisc"]
    BY ExtendedSays DEF UnionDims
  <2>3. NewlyPromiscuous(b, x) => NewlyPromiscuous(b, y)
    BY <2>1, <2>2 DEF NewlyPromiscuous
  <2>4. PICK a : a = NewAnomaly(b, "network", "promiscuous_mode_observed", 1, 0)
    OBVIOUS
  <2>5. /\ NewlyPromiscuous(b, x) \in BOOLEAN /\ NewlyPromiscuous(b, y) \in BOOLEAN
        /\ Promiscuous(b, x) = When(NewlyPromiscuous(b, x), a)
        /\ Promiscuous(b, y) = When(NewlyPromiscuous(b, y), a)
    BY <2>4 DEF Promiscuous, NewlyPromiscuous
  <2> QED BY <2>3, <2>5, WhenGrows
<1> QED BY <1>3, <1>4, <1>5, GrowsJoined DEF DiffNetwork

(* More of the filesystem.                                                   *)
LEMMA FilesystemGrows ==
  ASSUME NEW b, NEW x, NEW y, x.data \in Capture, y.data \in Capture, Extended(x, y)
  PROVE  Grows(DiffFilesystem(b, x), DiffFilesystem(b, y))
<1>1. /\ "written" \in Buckets /\ "created" \in Buckets /\ "exec" \in Buckets
      /\ \A d \in Buckets : Present(x.data.files[d]) \subseteq Present(y.data.files[d])
  BY ExtendedSays DEF Buckets
<1>2. ASSUME NEW W \in SUBSET Item, NEW C \in SUBSET Item, NEW fresh
      PROVE  Lists(Once(Only(Listed(W) \o Listed(C), fresh)), (W \cup C) \cap fresh)
  <2>1. Holds(Listed(W), W) /\ Holds(Listed(C), C)
    BY ListedLists DEF Lists
  <2>2. Holds(Listed(W) \o Listed(C), W \cup C)
    BY <2>1, JoinHolds
  <2>3. Holds(Only(Listed(W) \o Listed(C), fresh), (W \cup C) \cap fresh)
    BY <2>2, OnlyHolds
  <2> QED BY <2>3, OnceLists
<1>3. \A f : Present(f) \in SUBSET Item
  BY DEF Present
<1>4. Grows(NewExecutables(b, x), NewExecutables(b, y))
  <2>1. PICK f : f = [k \in Item |-> NewAnomaly(b, "filesystem", "executable_written", 1, Rank[k])]
    OBVIOUS
  <2>2. PICK s, t :
          /\ s = Once(Only(Listed(Present(x.data.files["written"]))
                              \o Listed(Present(x.data.files["created"])),
                           Present(x.data.files["exec"]) \ Present(b.data.files["exec"])))
          /\ t = Once(Only(Listed(Present(y.data.files["written"]))
                              \o Listed(Present(y.data.files["created"])),
                           Present(y.data.files["exec"]) \ Present(b.data.files["exec"])))
    OBVIOUS
  <2>3. Lists(s, FreshExecutables(b, x)) /\ Lists(t, FreshExecutables(b, y))
    BY <1>2, <1>3, <2>2 DEF FreshExecutables
  <2>4. FreshExecutables(b, x) \subseteq FreshExecutables(b, y)
    BY <1>1 DEF FreshExecutables
  <2>5. Grows(s, t)
    BY <2>3, <2>4, ListsGrow DEF Lists
  <2>6. NewExecutables(b, x) = ForEach(s, f) /\ NewExecutables(b, y) = ForEach(t, f)
    BY <2>1, <2>2 DEF NewExecutables
  <2> QED BY <2>5, <2>6, ForEachGrows
<1>5. Grows(InteropWrites(b, x), InteropWrites(b, y))
  <2>1. PICK W, V : /\ W = Present(x.data.files["written"])
                    /\ V = Present(y.data.files["written"])
    OBVIOUS
  <2>2. /\ Lists(Listed(W), W) /\ Holds(Listed(W), W) /\ Holds(Listed(V), V)
        /\ W \cap InteropPaths \subseteq V \cap InteropPaths
    BY <1>1, <1>3, <2>1, ListedLists DEF Lists
  <2>3. Lists(Only(Listed(W), InteropPaths), W \cap InteropPaths)
    BY <2>2, OnlyHolds
  <2>4. Holds(Only(Listed(V), InteropPaths), V \cap InteropPaths)
    BY <2>2, OnlyHolds
  <2>5. Grows(Only(Listed(W), InteropPaths), Only(Listed(V), InteropPaths))
    BY <2>2, <2>3, <2>4, ListsGrow
  <2> QED BY <2>1, <2>5, ForEachGrows DEF InteropWrites
<1> QED BY <1>4, <1>5, GrowsJoined DEF DiffFilesystem

(* More of the registry.                                                     *)
LEMMA RegistryGrows ==
  ASSUME NEW b, NEW x, NEW y, x.data \in Capture, y.data \in Capture, Extended(x, y)
  PROVE  Grows(DiffRegistry(b, x), DiffRegistry(b, y))
<1>1. /\ x.data.sets["regWritten"] \subseteq y.data.sets["regWritten"]
      /\ x.data.sets["regCreated"] \subseteq y.data.sets["regCreated"]
      /\ x.data.sets["regWritten"] \in SUBSET Item /\ x.data.sets["regCreated"] \in SUBSET Item
      /\ y.data.sets["regWritten"] \in SUBSET Item /\ y.data.sets["regCreated"] \in SUBSET Item
  BY ExtendedSays, ObservedLists DEF UnionDims
<1>2. ASSUME NEW W \in SUBSET Item, NEW C \in SUBSET Item, NEW known
      PROVE  Lists(Once(Without(Listed(W) \o Listed(C), known)), (W \cup C) \ known)
  <2>1. Holds(Listed(W), W) /\ Holds(Listed(C), C)
    BY ListedLists DEF Lists
  <2>2. Holds(Listed(W) \o Listed(C), W \cup C)
    BY <2>1, JoinHolds
  <2>3. Holds(Without(Listed(W) \o Listed(C), known), (W \cup C) \ known)
    BY <2>2, OnlyHolds
  <2> QED BY <2>3, OnceLists
<1>3. Grows(RegistryWrites(b, x), RegistryWrites(b, y))
  <2>1. PICK f, known :
          /\ f = [k \in Item |-> NewAnomaly(b, "registry", "registry_new_write", 2, Rank[k])]
          /\ known = SensitiveKeys
                       \cup (b.data.sets["regWritten"] \cup b.data.sets["regCreated"])
    OBVIOUS
  <2>2. PICK s, t :
          /\ s = Once(Without(Listed(x.data.sets["regWritten"])
                                 \o Listed(x.data.sets["regCreated"]), known))
          /\ t = Once(Without(Listed(y.data.sets["regWritten"])
                                 \o Listed(y.data.sets["regCreated"]), known))
    OBVIOUS
  <2>3. Lists(s, FreshKeys(b, x)) /\ Lists(t, FreshKeys(b, y))
    BY <1>1, <1>2, <2>1, <2>2 DEF FreshKeys
  <2>4. FreshKeys(b, x) \subseteq FreshKeys(b, y)
    BY <1>1 DEF FreshKeys
  <2>5. Grows(s, t)
    BY <2>3, <2>4, ListsGrow DEF Lists
  <2>6. RegistryWrites(b, x) = ForEach(s, f) /\ RegistryWrites(b, y) = ForEach(t, f)
    BY <2>1, <2>2 DEF RegistryWrites
  <2> QED BY <2>5, <2>6, ForEachGrows
<1>4. PICK c1, d1, c2, d2 :
        /\ c1 = (x.data.weakened /\ ~b.data.weakened) /\ d1 = (y.data.weakened /\ ~b.data.weakened)
        /\ c2 = (x.data.persist /\ ~b.data.persist) /\ d2 = (y.data.persist /\ ~b.data.persist)
  OBVIOUS
<1>5. /\ c1 \in BOOLEAN /\ d1 \in BOOLEAN /\ c2 \in BOOLEAN /\ d2 \in BOOLEAN
      /\ (c1 => d1) /\ (c2 => d2)
  BY <1>4, ExtendedSays
<1>6. \A a : Grows(When(c1, a), When(d1, a)) /\ Grows(When(c2, a), When(d2, a))
  BY <1>5, WhenGrows
<1> QED BY <1>3, <1>4, <1>6, GrowsJoined DEF DiffRegistry

(* More of the processes: which entries of the list of children are flagged  *)
(* does not depend on what follows them.                                     *)
LEMMA ProcessGrows ==
  ASSUME NEW b, b.data.procReads \in Nat,
         NEW x, NEW y, x.data \in Capture, y.data \in Capture, Extended(x, y)
  PROVE  Grows(DiffProcess(b, x), DiffProcess(b, y))
<1>1. Grows(NewChildren(b, x), NewChildren(b, y))
  <2>1. PICK s, t, I, J : /\ s = x.data.children /\ t = y.data.children
                          /\ I = Flagged(b, s) /\ J = Flagged(b, t)
    OBVIOUS
  <2>2. /\ s \in Seq(Item \X Hash) /\ t \in Seq(Item \X Hash)
        /\ \A i \in DOMAIN s : i \in DOMAIN t /\ s[i] = t[i]
    BY <2>1, ObservedLists, ExtendedSays
  <2>3. I \in SUBSET (DOMAIN s) /\ J \in SUBSET (DOMAIN t)
    BY <2>1 DEF Flagged
  <2>4. ASSUME NEW i \in I PROVE i \in J /\ s[i] = t[i]
    <3>1. /\ i \in DOMAIN s /\ Deviates(b, s[i])
          /\ \A j \in 1 .. (i - 1) : Deviates(b, s[j]) => s[j][1] # s[i][1]
      BY <2>1 DEF Flagged
    <3>2. \A j \in 1 .. (i - 1) : j \in DOMAIN s
      BY <2>2, <3>1
    <3>3. /\ i \in DOMAIN t /\ Deviates(b, t[i])
          /\ \A j \in 1 .. (i - 1) : Deviates(b, t[j]) => t[j][1] # t[i][1]
      BY <2>2, <3>1, <3>2
    <3> QED BY <2>1, <2>2, <3>1, <3>3 DEF Flagged
  <2>5. Grows(Pick(s, I), Pick(t, J))
    BY <2>2, <2>3, <2>4, PickGrows
  <2> QED BY <2>1, <2>5, ForEachGrows DEF NewChildren
<1>2. Grows(PrivilegeChanges(b, x), PrivilegeChanges(b, y))
  <2>1. /\ x.data.sets["privileges"] \subseteq y.data.sets["privileges"]
        /\ x.data.sets["privileges"] \in SUBSET Item /\ y.data.sets["privileges"] \in SUBSET Item
    BY ExtendedSays, ObservedLists DEF UnionDims
  <2> QED BY <2>1, ListedGrows DEF PrivilegeChanges
<1>3. PICK c, d : /\ c = (x.data.procReads > b.data.procReads)
                  /\ d = (y.data.procReads > b.data.procReads)
  OBVIOUS
<1>4. c \in BOOLEAN /\ d \in BOOLEAN /\ (c => d)
  <2>1. /\ x.data.procReads \in Nat /\ y.data.procReads \in Nat
        /\ x.data.procReads <= y.data.procReads
    BY ObservedLists, ExtendedSays
  <2>2. PICK m \in Nat, n \in Nat, k \in Nat :
          m = x.data.procReads /\ n = y.data.procReads /\ k = b.data.procReads /\ m <= n
    BY <2>1
  <2>3. c = (m > k) /\ d = (n > k)
    BY <1>3, <2>2
  <2>4. (m > k) => (n > k)
    BY <2>2
  <2>5. (m > k) \in BOOLEAN /\ (n > k) \in BOOLEAN
    OBVIOUS
  <2> QED BY <2>3, <2>4, <2>5, Zenon
<1>5. \A a : Grows(When(c, a), When(d, a))
  BY <1>4, WhenGrows
<1> QED BY <1>1, <1>2, <1>3, <1>5, GrowsJoined DEF DiffProcess

(* More of the memory.                                                       *)
LEMMA MemoryGrows ==
  ASSUME NEW b, NEW x, NEW y, x.data \in Capture, y.data \in Capture, Extended(x, y)
  PROVE  Grows(DiffMemory(b, x), DiffMemory(b, y))
<1>1. /\ x.data.sets["regions"] \subseteq y.data.sets["regions"]
      /\ x.data.sets["mapped"] \subseteq y.data.sets["mapped"]
      /\ x.data.sets["regions"] \in SUBSET Item /\ x.data.sets["mapped"] \in SUBSET Item
      /\ y.data.sets["regions"] \in SUBSET Item /\ y.data.sets["mapped"] \in SUBSET Item
  BY ExtendedSays, ObservedLists DEF UnionDims
<1>2. Grows(AnonymousRegions(b, x), AnonymousRegions(b, y))
  BY <1>1, ListedGrows DEF AnonymousRegions
<1>3. Grows(NewModules(b, x), NewModules(b, y))
  BY <1>1, ListedGrows DEF NewModules
<1> QED BY <1>2, <1>3, GrowsJoined DEF DiffMemory

(* The points of more anomalies are more.                                    *)
LEMMA PointsGrow ==
  ASSUME NEW b, Weighted(b), NEW s \in Seq(Possible(b)), NEW t \in Seq(Possible(b)),
         Embeds(s, t)
  PROVE  /\ RiskScore(s) \in Nat /\ RiskScore(t) \in Nat /\ RiskScore(s) <= RiskScore(t)
         /\ \A i \in Active(s) : \E j \in Active(t) : t[j] = s[i]
<1>1. PICK D, E : D = DOMAIN s /\ E = DOMAIN t
  OBVIOUS
<1>2. PICK g \in [D -> E] : /\ \A i, j \in D : g[i] = g[j] => i = j
                            /\ \A i \in D : t[g[i]] = s[i]
  BY <1>1, Zenon DEF Embeds
<1>3. ASSUME NEW r \in Seq(Possible(b))
      PROVE  /\ IsFiniteSet(Points(r))
             /\ \A p : p \in Points(r) <=> \E i \in Active(r) : p \in {i} \X (1 .. r[i].weight)
  <2>1. PICK n \in Nat : DOMAIN r = 1 .. n /\ n = Len(r)
    OBVIOUS
  <2>2. \A i \in 1 .. n : r[i].weight \in Nat
    BY <2>1 DEF Possible
  <2>3. PICK A : A = Active(r)
    OBVIOUS
  <2>4. A \in SUBSET (1 .. n)
    BY <2>1, <2>3 DEF Active
  <2>5. IsFiniteSet(A)
    <3>1. IsFiniteSet(1 .. n)
      BY FS_Interval
    <3> QED BY <2>4, <3>1, FS_Subset
  <2> DEFINE f == [i \in A |-> {i} \X (1 .. r[i].weight)]
             P == {f[i] : i \in A}
  <2>6. f \in Surjection(A, P)
    BY DEF Surjection
  <2>7. IsFiniteSet(P)
    BY <2>5, <2>6, FS_Surjection
  <2>8. ASSUME NEW i \in A PROVE IsFiniteSet(f[i])
    <3>1. PICK w \in Nat : w = r[i].weight
      BY <2>2, <2>4
    <3>2. IsFiniteSet(1 .. w)
      BY FS_Interval
    <3>3. IsFiniteSet({i} \X (1 .. w))
      BY <3>2, FS_Product, FS_Singleton
    <3> QED BY <3>1, <3>3
  <2>9. \A T \in P : IsFiniteSet(T)
    BY <2>8
  <2>10. IsFiniteSet(UNION P)
    BY <2>7, <2>9, FS_UNION
  <2>11. UNION P = Points(r)
    BY <2>3 DEF Points
  <2> QED BY <2>10, <2>11 DEF Points
<1>4. ASSUME NEW i \in Active(s) PROVE i \in D /\ g[i] \in Active(t) /\ t[g[i]] = s[i]
  BY <1>1, <1>2 DEF Active
<1>5. PICK P, Q : P = Points(s) /\ Q = Points(t)
  OBVIOUS
<1>6. ASSUME NEW p \in P
      PROVE  /\ p = <<p[1], p[2]>> /\ p[1] \in D /\ <<g[p[1]], p[2]>> \in Q
  <2>1. PICK i \in Active(s) : p \in {i} \X (1 .. s[i].weight)
    BY <1>3, <1>5
  <2>2. p = <<p[1], p[2]>> /\ p[1] = i /\ p[2] \in 1 .. s[i].weight
    BY <2>1
  <2>3. <<g[i], p[2]>> \in {g[i]} \X (1 .. t[g[i]].weight)
    BY <1>4, <2>2
  <2>4. <<g[i], p[2]>> \in Q
    BY <1>3, <1>4, <1>5, <2>3
  <2> QED BY <1>4, <2>2, <2>4
<1> DEFINE h == [p \in P |-> <<g[p[1]], p[2]>>]
<1>7. h \in [P -> Q]
  BY <1>6
<1>8. \A p, q \in P : h[p] = h[q] => p = q
  <2> SUFFICES ASSUME NEW p \in P, NEW q \in P, h[p] = h[q] PROVE p = q
    OBVIOUS
  <2>1. g[p[1]] = g[q[1]] /\ p[2] = q[2]
    OBVIOUS
  <2>2. p[1] = q[1]
    BY <1>2, <1>6, <2>1
  <2> QED BY <1>6, <2>1, <2>2
<1> HIDE DEF h
<1>9. h \in Injection(P, Q)
  BY <1>7, <1>8 DEF Injection, IsInjective
<1>10. IsFiniteSet(P) /\ IsFiniteSet(Q)
  BY <1>3, <1>5
<1>11. /\ Cardinality(P) \in Nat /\ Cardinality(Q) \in Nat
       /\ Cardinality(P) <= Cardinality(Q)
  BY <1>9, <1>10, FS_Injection, FS_CardinalityType
<1>12. /\ RiskScore(s) \in Nat /\ RiskScore(t) \in Nat /\ RiskScore(s) <= RiskScore(t)
  BY <1>5, <1>11 DEF RiskScore
<1> QED BY <1>4, <1>12

(* So the verdict is no milder.                                              *)
LEMMA VerdictGrows ==
  ASSUME NEW b, Weighted(b), NEW s \in Seq(Possible(b)), NEW t \in Seq(Possible(b)),
         Embeds(s, t)
  PROVE  WazuhLevel(VerdictFor(RiskScore(s), s)) <= WazuhLevel(VerdictFor(RiskScore(t), t))
<1>1. PICK m \in Nat, n \in Nat : m = RiskScore(s) /\ n = RiskScore(t) /\ m <= n
  BY PointsGrow
<1>2. /\ (\E i \in Active(s) : s[i].severity = "critical")
           => \E i \in Active(t) : t[i].severity = "critical"
      /\ (\E i \in Active(s) : s[i].severity = "high")
           => \E i \in Active(t) : t[i].severity = "high"
  BY PointsGrow
<1>3. VerdictFor(m, s) = "malicious" => VerdictFor(n, t) = "malicious"
  BY <1>1, <1>2 DEF VerdictFor
<1>4. VerdictFor(m, s) = "suspicious" => VerdictFor(n, t) \in {"malicious", "suspicious"}
  BY <1>1, <1>2 DEF VerdictFor
<1> QED BY <1>1, <1>3, <1>4 DEF WazuhLevel

(* An observation that shows all that another shows, and more, never scores  *)
(* lower and never gets a milder alert: no new behaviour hides an old one,   *)
(* whatever the weights.                                                     *)
THEOREM MoreCorrect == EngineSpec => []MoreIsNeverBetter
<1>1. EngineInv => MoreIsNeverBetter
  <2> SUFFICES ASSUME EngineInv, Done, observation \in Growing,
                      visited = Canonical(observation),
                      NEW y \in Growing, Extended(observation, y)
               PROVE  /\ R.score <= Analyze(baseline, y, Canonical(y)).score
                      /\ R.level <= Analyze(baseline, y, Canonical(y)).level
    BY DEF MoreIsNeverBetter
  <2>1. PICK b, x : b = baseline /\ x = observation
    OBVIOUS
  <2>2. /\ Weighted(b) /\ b.data.procReads \in Nat
        /\ x.data \in Capture /\ y.data \in Capture /\ Extended(x, y)
    BY <2>1, EngineDone, EngineAssumption DEF EngineInv, EngineAssumption
  <2>3. PICK F, G : F = Findings(b, x, Canonical(x)) /\ G = Findings(b, y, Canonical(y))
    OBVIOUS
  <2>4. Grows(F, G)
    <3>1. /\ Grows(DiffSyscalls(b, Canonical(x)), DiffSyscalls(b, Canonical(y)))
          /\ Grows(DiffNetwork(b, x), DiffNetwork(b, y))
          /\ Grows(DiffFilesystem(b, x), DiffFilesystem(b, y))
          /\ Grows(DiffRegistry(b, x), DiffRegistry(b, y))
          /\ Grows(DiffProcess(b, x), DiffProcess(b, y))
          /\ Grows(DiffMemory(b, x), DiffMemory(b, y))
      BY <2>2, SyscallsGrow, NetworkGrows, FilesystemGrows, RegistryGrows, ProcessGrows,
         MemoryGrows
    <3> QED BY <2>3, <3>1, GrowsJoined DEF Findings
  <2>5. Holds(Canonical(x), Called(x.data)) /\ Holds(Canonical(y), Called(y.data))
    BY ListedLists DEF Canonical, Called, Lists
  <2>6. F \in Seq(Possible(b)) /\ G \in Seq(Possible(b))
    <3>1. F \in Seq(Found(b, x)) /\ G \in Seq(Found(b, y))
      BY <2>2, <2>3, <2>5, FindingsFound DEF Holds
    <3>2. Found(b, x) \subseteq Possible(b) /\ Found(b, y) \subseteq Possible(b)
      BY <2>2, FoundPossible
    <3> QED BY <3>1, <3>2
  <2>7. PICK s, t : s = SortAnomalies(F) /\ t = SortAnomalies(G)
    OBVIOUS
  <2>8. s \in Seq(Possible(b)) /\ t \in Seq(Possible(b)) /\ Embeds(s, F) /\ Embeds(G, t)
    BY <2>6, <2>7, AnomaliesSorted
  <2>9. Embeds(s, t)
    BY <2>4, <2>8, EmbedsThrough DEF Grows
  <2>10. /\ RiskScore(s) <= RiskScore(t)
         /\ WazuhLevel(VerdictFor(RiskScore(s), s)) <= WazuhLevel(VerdictFor(RiskScore(t), t))
    BY <2>2, <2>8, <2>9, PointsGrow, VerdictGrows
  <2>11. R = Analyze(b, x, Canonical(x))
    BY <2>1, EngineDone
  <2> QED BY <2>1, <2>3, <2>7, <2>10, <2>11, AnalyzeSays
<1> QED BY <1>1, EngineInvAlways, PTL
----------------------------------------------------------------------------
(* A command either folds a capture in or leaves the Accumulator alone.      *)
LEMMA CommandStep ==
  ASSUME PipelineNext
  PROVE  \/ step = "baseline" /\ (\E c \in Captures : AddRun(c)) /\ UNCHANGED cmdVars
         \/ UNCHANGED accVars
BY DEF PipelineNext, BaselineRun, CaptureFatal, TargetExits, BaselineWritten, Observe,
       AnalyzeFiles

(* The commands use the Accumulator as its specification says, whatever      *)
(* host, backend and number of runs: every theorem about Spec is one about   *)
(* them.                                                                     *)
THEOREM CommandsAccumulate == PipelineSpec => Spec
<1>1. Start => Init
  BY DEF Start
<1>2. [PipelineNext]_vars => [Next]_accVars
  BY CommandStep DEF Next, vars
<1> QED BY <1>1, <1>2, PTL DEF PipelineSpec, Spec

----------------------------------------------------------------------------
(* The files.                                                                *)

Written == step \in {"observe", "analyze", "done"}

(* From the moment they are written the baseline file says what the          *)
(* Accumulator holds and the observation is a capture, and the report is     *)
(* what Analyze makes of the two.                                            *)
FilesTell ==
  /\ step \in {"baseline", "aborted", "observe", "analyze", "done"}
  /\ Written => /\ baseFile[1].data = Build
                /\ baseFile[1].confidence = Confidence(runs, VarianceNotes # {})
                /\ baseFile[1].weights = DefaultAnomalyWeights
  /\ step \in {"analyze", "done"} => obsFile[1].data \in Capture
  /\ step = "done" =>
       report[1] = Analyze(baseFile[1], obsFile[1], Listed(Called(obsFile[1].data)))

(* The confidence of a report is the baseline's, unless the platforms differ *)
(* and it was high.                                                          *)
LEMMA ReportConfidence ==
  ASSUME NEW b, NEW o, NEW names, Analyze(b, o, names).confidence = "high"
  PROVE  b.confidence = "high" /\ b.platform = o.platform
BY DEF Analyze

(* Every command keeps the files telling the truth.                          *)
LEMMA FilesTellStep == FilesTell /\ [PipelineNext]_vars => FilesTell'
<1> SUFFICES ASSUME FilesTell, [PipelineNext]_vars PROVE FilesTell'
  OBVIOUS
<1>1. ASSUME UNCHANGED accVars
      PROVE  /\ Build' = Build
             /\ Confidence(runs, VarianceNotes # {})' = Confidence(runs, VarianceNotes # {})
  BY <1>1 DEF accVars, Build, VarianceNotes, Unstable, Keys, Confidence
<1>2. CASE step = "baseline" /\ (step' = step \/ step' = "aborted")
  BY <1>2 DEF FilesTell, Written
<1>3. CASE BaselineWritten
  <2>1. /\ UNCHANGED accVars /\ step' = "observe" /\ baseFile' = <<BaselineRecord>>
    BY <1>3 DEF BaselineWritten
  <2>2. /\ BaselineRecord.data = Build
        /\ BaselineRecord.confidence = Confidence(runs, VarianceNotes # {})
        /\ BaselineRecord.weights = DefaultAnomalyWeights
    BY DEF BaselineRecord, Build
  <2>3. baseFile'[1] = BaselineRecord
    BY <2>1
  <2> QED BY <1>1, <2>1, <2>2, <2>3 DEF FilesTell, Written
<1>4. CASE \E c \in Captures, h \in Hosts, o \in Overrides : Observe(c, h, o)
  <2>1. PICK c \in Captures, h \in Hosts, o \in Overrides : Observe(c, h, o)
    BY <1>4
  <2>2. UNCHANGED <<accVars, baseFile>> /\ step = "observe" /\ step' = "analyze"
    BY <2>1 DEF Observe
  <2>3. obsFile'[1].data = c
    BY <2>1 DEF Observe
  <2>4. c \in Capture
    BY CapturesAssumption DEF CapturesAssumption
  <2> QED BY <1>1, <2>2, <2>3, <2>4 DEF FilesTell, Written
<1>5. CASE AnalyzeFiles
  <2> DEFINE r == Analyze(baseFile[1], obsFile[1], Listed(Called(obsFile[1].data)))
  <2>1. /\ UNCHANGED <<accVars, baseFile, obsFile>> /\ step = "analyze" /\ step' = "done"
        /\ report' = <<r>>
    BY <1>5 DEF AnalyzeFiles
  <2>2. r' = r
    BY <2>1
  <2> HIDE DEF r
  <2>3. report'[1] = r'
    BY <2>1, <2>2
  <2> QED BY <1>1, <2>1, <2>3 DEF FilesTell, Written, r
<1>6. CASE UNCHANGED vars
  <2>1. UNCHANGED <<accVars, step, baseFile, obsFile, report>>
    BY <1>6 DEF vars, cmdVars
  <2> QED BY <1>1, <2>1 DEF FilesTell, Written
<1>7. \/ step = "baseline" /\ (step' = step \/ step' = "aborted")
      \/ BaselineWritten
      \/ \E c \in Captures, h \in Hosts, o \in Overrides : Observe(c, h, o)
      \/ AnalyzeFiles
      \/ UNCHANGED vars
  BY DEF PipelineNext, BaselineRun, CaptureFatal, TargetExits, cmdVars
<1> QED BY <1>2, <1>3, <1>4, <1>5, <1>6, <1>7

(* Of the files of every pipeline, whatever was captured.                    *)
LEMMA FilesTellAlways == PipelineSpec => []FilesTell
<1>1. Start => FilesTell
  BY DEF Start, FilesTell, Written
<1> QED BY <1>1, FilesTellStep, PTL DEF PipelineSpec

(* A report that claims high confidence is about one platform and rests on   *)
(* at least three runs that were folded in, all with the same syscalls;      *)
(* neither an override of the backend, nor a target that exits early, nor    *)
(* the number of runs asked for earns it.  A failed Sysmon query counts as   *)
(* such a run, as it does in the code.                                       *)
THEOREM HighReportCorrect == PipelineSpec => []HighReportIsEarned
<1>1. FilesTell /\ HighMeansSameSyscalls => HighReportIsEarned
  BY ReportConfidence
     DEF FilesTell, Written, HighMeansSameSyscalls, HighReportIsEarned
<1> QED BY <1>1, FilesTellAlways, CommandsAccumulate, HighSound, PTL

(* What one of the runs showed is nothing new to the baseline, unless it is  *)
(* of the two fields that Build drops.                                       *)
LEMMA OwnRunFindsOnlyDropped ==
  ASSUME AccTypeOK, OnlyTwoFieldsDropped, NEW b, b.data = Build,
         NEW i \in DOMAIN log, NEW o, o.data = log[i], NEW x \in Found(b, o)
  PROVE  /\ x.type \notin NewFeature \ DroppedFeature
         /\ x.type = "registry_defense_impair" => o.data.weakened
         /\ x.type = "procfs_read_other_pid" => o.data.procReads > 0
<1>1. o.data \in Capture
  BY CapturesAssumption DEF AccTypeOK, CapturesAssumption
<1>2. /\ SyscallsOf(o.data) \subseteq {k \in Item : b.data.observed[k].count > 0}
      /\ \A d \in ListDims : ListOf(o.data, d) \subseteq b.data.lists[d]
      /\ \A d \in UnionDims : o.data.sets[d] \subseteq b.data.sets[d]
      /\ \A d \in Buckets : \A k \in Item : o.data.files[d][k] <= b.data.files[d][k]
      /\ \A j \in DOMAIN o.data.children : b.data.children[o.data.children[j][1]] # NoHash
      /\ o.data.persist => b.data.persist
      /\ b.data.procReads = 0
  BY DEF OnlyTwoFieldsDropped
<1>3. x \notin FoundSyscalls(b, o)
  BY <1>2 DEF FoundSyscalls, SyscallsOf, Called
<1>4. x \notin FoundNetwork(b, o)
  <2>1. ASSUME NEW d \in ListDims PROVE Range(o.data.lists[d]) \subseteq b.data.lists[d]
    <3>1. Range(o.data.lists[d]) \subseteq Item
      BY <1>1, ObservedLists, RangeHeld
    <3>2. Range(o.data.lists[d]) \subseteq ListOf(o.data, d)
      BY <3>1 DEF Range, ListOf
    <3> QED BY <1>2, <3>2
  <2>2. "ports" \in ListDims /\ "conns" \in ListDims /\ "raw" \in ListDims
    BY DEF ListDims
  <2>3. ~NewlyPromiscuous(b, o)
    BY <1>2 DEF UnionDims, NewlyPromiscuous
  <2> QED BY <2>1, <2>2, <2>3 DEF FoundNetwork, FoundEntries, FoundRaw
<1>5. CASE x \in FoundFilesystem(b, o)
  <2>1. FreshExecutables(b, o) = {}
    <3>1. ASSUME NEW k \in Item, o.data.files["exec"][k] > 0
          PROVE  b.data.files["exec"][k] > 0
      <4>1. PICK m, n : m = o.data.files["exec"][k] /\ n = b.data.files["exec"][k]
        OBVIOUS
      <4>2. m \in Nat /\ n \in Nat
        BY <1>1, <4>1 DEF Capture, AccTypeOK, Build, Buckets
      <4>3. m <= n /\ m > 0
        BY <1>2, <3>1, <4>1 DEF Buckets
      <4>4. n > 0
        BY <4>2, <4>3
      <4> QED BY <4>1, <4>4
    <3> QED BY <3>1 DEF FreshExecutables, Present
  <2>2. PICK k : x = CrossingAnomaly(b, k)
    BY <1>5, <2>1 DEF FoundFilesystem
  <2>3. x.type = "wsl_interop_fs_write"
    BY <2>2 DEF CrossingAnomaly, Suppress, NewAnomaly
  <2> QED BY <2>3 DEF NewFeature
<1>6. CASE x \in FoundRegistry(b, o)
  <2>1. FreshKeys(b, o) = {}
    BY <1>2 DEF FreshKeys, UnionDims
  <2>2. x = NewAnomaly(b, "registry", "registry_defense_impair", 1, 0) /\ o.data.weakened
    BY <1>2, <1>6, <2>1 DEF FoundRegistry
  <2>3. x.type = "registry_defense_impair"
    BY <2>2 DEF NewAnomaly
  <2> QED BY <2>2, <2>3 DEF DroppedFeature
<1>7. CASE x \in FoundProcess(b, o)
  <2>1. ASSUME NEW c \in Range(o.data.children) PROVE b.data.children[c[1]] # NoHash
    BY <1>2 DEF Range
  <2>2. \/ \E c \in Range(o.data.children) :
              x = NewAnomaly(b, "process", "child_exec_mismatch", 1, Rank[c[1]])
        \/ \E k : x = NewAnomaly(b, "process", "privilege_escalation", 3, Rank[k])
        \/ /\ x = NewAnomaly(b, "process", "procfs_read_other_pid", 4, 0)
           /\ o.data.procReads > b.data.procReads
    BY <1>7, <2>1 DEF FoundProcess, ChildAnomaly
  <2>3. \/ x.type \in {"child_exec_mismatch", "privilege_escalation"}
        \/ x.type = "procfs_read_other_pid" /\ o.data.procReads > 0
    BY <1>2, <2>2 DEF NewAnomaly
  <2> QED BY <2>3 DEF NewFeature, DroppedFeature
<1>8. CASE x \in FoundMemory(b, o)
  <2>1. o.data.sets["mapped"] \ b.data.sets["mapped"] = {}
    BY <1>2 DEF UnionDims
  <2>2. PICK k : x = NewAnomaly(b, "memory", "exec_memory_anonymous", 1, Rank[k])
    BY <1>8, <2>1 DEF FoundMemory
  <2>3. x.type = "exec_memory_anonymous"
    BY <2>2 DEF NewAnomaly
  <2> QED BY <2>3 DEF NewFeature
<1> QED BY <1>3, <1>4, <1>5, <1>6, <1>7, <1>8 DEF Found

(* And what a run showed in these two fields is always new.                  *)
LEMMA OwnRunFindsDropped ==
  ASSUME OnlyTwoFieldsDropped, NEW b, b.data = Build, NEW o
  PROVE  /\ o.data.weakened =>
              \E x \in Found(b, o) : x.type = "registry_defense_impair"
         /\ o.data.procReads > 0 =>
              \E x \in Found(b, o) : x.type = "procfs_read_other_pid"
<1>1. ~b.data.weakened /\ b.data.procReads = 0
  BY DEF OnlyTwoFieldsDropped
<1>2. ASSUME o.data.weakened
      PROVE  \E x \in Found(b, o) : x.type = "registry_defense_impair"
  <2>1. PICK x : x = NewAnomaly(b, "registry", "registry_defense_impair", 1, 0)
    OBVIOUS
  <2>2. x \in FoundRegistry(b, o)
    BY <1>1, <1>2, <2>1 DEF FoundRegistry
  <2>3. x.type = "registry_defense_impair"
    BY <2>1 DEF NewAnomaly
  <2> QED BY <2>2, <2>3 DEF Found
<1>3. ASSUME o.data.procReads > 0
      PROVE  \E x \in Found(b, o) : x.type = "procfs_read_other_pid"
  <2>1. PICK x : x = NewAnomaly(b, "process", "procfs_read_other_pid", 4, 0)
    OBVIOUS
  <2>2. x \in FoundProcess(b, o)
    BY <1>1, <1>3, <2>1 DEF FoundProcess
  <2>3. x.type = "procfs_read_other_pid"
    BY <2>1 DEF NewAnomaly
  <2> QED BY <2>2, <2>3 DEF Found
<1> QED BY <1>2, <1>3

(* The report has what the diffs find between the files, which hold the      *)
(* baseline and a capture.                                                   *)
LEMMA FilesReport ==
  ASSUME FilesTell, step = "done"
  PROVE  /\ baseFile[1].data = Build /\ obsFile[1].data \in Capture
         /\ Holds(report[1].anomalies, Found(baseFile[1], obsFile[1]))
<1>1. PICK b, o, names : /\ b = baseFile[1] /\ o = obsFile[1]
                         /\ names = Listed(Called(obsFile[1].data))
  OBVIOUS
<1>2. /\ b.data = Build /\ b.weights = DefaultAnomalyWeights /\ o.data \in Capture
      /\ report[1] = Analyze(b, o, names)
  BY <1>1 DEF FilesTell, Written
<1>3. Weighted(b)
  <2>1. \A t \in DOMAIN DefaultAnomalyWeights : DefaultAnomalyWeights[t] \in Nat
    BY DEF DefaultAnomalyWeights
  <2> QED BY <1>2, <2>1 DEF Weighted
<1>4. Holds(names, Called(o.data))
  BY <1>1, ListedLists DEF Lists, Called
<1>5. PICK s : s = SortAnomalies(Findings(b, o, names))
  OBVIOUS
<1>6. Holds(s, Found(b, o))
  BY <1>2, <1>3, <1>4, <1>5, ReportFound
<1>7. report[1].anomalies = s
  BY <1>2, <1>5, AnalyzeSays
<1> QED BY <1>1, <1>2, <1>6, <1>7

(* Analysing a capture the baseline was made of reports as new only what     *)
(* Build dropped, and that always, whichever run it was, whatever the other  *)
(* runs saw and on whatever hosts and backends the commands ran.             *)
THEOREM OwnRunsCorrect == PipelineSpec => []OwnRunsRaiseOnlyDropped
<1>1. FilesTell /\ AccTypeOK /\ OnlyTwoFieldsDropped => OwnRunsRaiseOnlyDropped
  <2> SUFFICES ASSUME FilesTell, AccTypeOK, OnlyTwoFieldsDropped, step = "done",
                      NEW i \in DOMAIN log, obsFile[1].data = log[i]
               PROVE  /\ ~Reported(NewFeature \ DroppedFeature)
                      /\ Reported({"registry_defense_impair"}) <=> obsFile[1].data.weakened
                      /\ Reported({"procfs_read_other_pid"})
                            <=> obsFile[1].data.procReads > 0
    BY DEF OwnRunsRaiseOnlyDropped, OwnRun
  <2>1. PICK b, o, s : b = baseFile[1] /\ o = obsFile[1] /\ s = report[1].anomalies
    OBVIOUS
  <2>2. b.data = Build /\ o.data = log[i] /\ Holds(s, Found(b, o))
    BY <2>1, FilesReport
  <2>3. ASSUME NEW j \in DOMAIN s
        PROVE  /\ s[j].type \notin NewFeature \ DroppedFeature
               /\ s[j].type = "registry_defense_impair" => o.data.weakened
               /\ s[j].type = "procfs_read_other_pid" => o.data.procReads > 0
    <3>1. PICK x : x = s[j]
      OBVIOUS
    <3>2. x \in Found(b, o)
      BY <2>2, <3>1 DEF Holds
    <3> QED BY <2>2, <3>1, <3>2, OwnRunFindsOnlyDropped
  <2>4. ASSUME NEW x \in Found(b, o) PROVE \E j \in DOMAIN s : s[j] = x
    BY <2>2 DEF Holds
  <2>5. o.data.weakened => \E j \in DOMAIN s : s[j].type = "registry_defense_impair"
    BY <2>2, <2>4, OwnRunFindsDropped
  <2>6. o.data.procReads > 0 => \E j \in DOMAIN s : s[j].type = "procfs_read_other_pid"
    BY <2>2, <2>4, OwnRunFindsDropped
  <2> QED BY <2>1, <2>3, <2>5, <2>6 DEF Reported
<1> QED BY <1>1, FilesTellAlways, CommandsAccumulate, AccTypeCorrect, TwoFieldsDroppedCorrect, PTL
----------------------------------------------------------------------------
(* The features that an anomaly of one type can name.                        *)
NewByType(b, o) ==
  [unexpected_syscall      |-> Called(o.data) \ Called(b.data),
   new_listening_port      |-> Range(o.data.lists["ports"]) \ b.data.lists["ports"],
   new_outbound_connection |-> Range(o.data.lists["conns"]) \ b.data.lists["conns"],
   raw_socket_opened       |-> Range(o.data.lists["raw"]) \ b.data.lists["raw"],
   executable_written      |-> FreshExecutables(b, o),
   registry_new_write      |-> FreshKeys(b, o),
   new_child_process       |-> {c[1] : c \in {c \in Range(o.data.children) :
                                                b.data.children[c[1]] = NoHash}},
   unexpected_module_load  |-> o.data.sets["mapped"] \ b.data.sets["mapped"]]

(* An anomaly of such a type names one of them.                              *)
LEMMA FoundByType ==
  ASSUME NEW b, NEW o, NEW x \in Found(b, o), x.type \in DOMAIN NewByType(b, o)
  PROVE  \E k \in NewByType(b, o)[x.type] : x.item = Rank[k]
<1>1. CASE x \in FoundSyscalls(b, o)
  <2>1. PICK k \in Called(o.data) \ Called(b.data) : x = SyscallAnomaly(b, k)
    BY <1>1 DEF FoundSyscalls
  <2>2. x.type = "unexpected_syscall" /\ x.item = Rank[k]
    BY <2>1 DEF SyscallAnomaly, Suppress, NewAnomaly
  <2> QED BY <2>1, <2>2 DEF NewByType
<1>2. CASE x \in FoundNetwork(b, o)
  <2>1. CASE x \in FoundEntries(b, o, "ports", "new_listening_port", 2)
    <3>1. PICK k \in Range(o.data.lists["ports"]) \ b.data.lists["ports"] :
            x.type = "new_listening_port" /\ x.item = Rank[k]
      BY <2>1 DEF FoundEntries, NewAnomaly
    <3> QED BY <3>1 DEF NewByType
  <2>2. CASE x \in FoundEntries(b, o, "conns", "new_outbound_connection", 3)
    <3>1. PICK k \in Range(o.data.lists["conns"]) \ b.data.lists["conns"] :
            x.type = "new_outbound_connection" /\ x.item = Rank[k]
      BY <2>2 DEF FoundEntries, NewAnomaly
    <3> QED BY <3>1 DEF NewByType
  <2>3. CASE x \in FoundRaw(b, o)
    <3>1. PICK k \in Range(o.data.lists["raw"]) \ b.data.lists["raw"] :
            x.type = "raw_socket_opened" /\ x.item = Rank[k]
      BY <2>3 DEF FoundRaw, NewAnomaly
    <3> QED BY <3>1 DEF NewByType
  <2>4. CASE x = NewAnomaly(b, "network", "promiscuous_mode_observed", 1, 0)
    <3>1. x.type = "promiscuous_mode_observed"
      BY <2>4 DEF NewAnomaly
    <3> QED BY <3>1 DEF NewByType
  <2> QED BY <1>2, <2>1, <2>2, <2>3, <2>4 DEF FoundNetwork
<1>3. CASE x \in FoundFilesystem(b, o)
  <2>1. CASE \E k \in FreshExecutables(b, o) :
               x = NewAnomaly(b, "filesystem", "executable_written", 1, Rank[k])
    <3>1. PICK k \in FreshExecutables(b, o) :
            x.type = "executable_written" /\ x.item = Rank[k]
      BY <2>1 DEF NewAnomaly
    <3> QED BY <3>1 DEF NewByType
  <2>2. CASE \E k : x = CrossingAnomaly(b, k)
    <3>1. x.type = "wsl_interop_fs_write"
      BY <2>2 DEF CrossingAnomaly, Suppress, NewAnomaly
    <3> QED BY <3>1 DEF NewByType
  <2> QED BY <1>3, <2>1, <2>2 DEF FoundFilesystem
<1>4. CASE x \in FoundRegistry(b, o)
  <2>1. CASE x \in {NewAnomaly(b, "registry", "registry_defense_impair", 1, 0),
                    NewAnomaly(b, "registry", "registry_persistence", 3, 0)}
    <3>1. x.type \in {"registry_defense_impair", "registry_persistence"}
      BY <2>1 DEF NewAnomaly
    <3> QED BY <3>1 DEF NewByType
  <2>2. CASE \E k \in FreshKeys(b, o) :
               x = NewAnomaly(b, "registry", "registry_new_write", 2, Rank[k])
    <3>1. PICK k \in FreshKeys(b, o) : x.type = "registry_new_write" /\ x.item = Rank[k]
      BY <2>2 DEF NewAnomaly
    <3> QED BY <3>1 DEF NewByType
  <2> QED BY <1>4, <2>1, <2>2 DEF FoundRegistry
<1>5. CASE x \in FoundProcess(b, o)
  <2>1. CASE \E c \in Range(o.data.children) : x = ChildAnomaly(b, c)
    <3>1. PICK c \in Range(o.data.children) : x = ChildAnomaly(b, c)
      BY <2>1
    <3>2. CASE b.data.children[c[1]] = NoHash
      <4>1. x.type = "new_child_process" /\ x.item = Rank[c[1]]
        BY <3>1, <3>2 DEF ChildAnomaly, NewAnomaly
      <4> QED BY <3>2, <4>1 DEF NewByType
    <3>3. CASE b.data.children[c[1]] # NoHash
      <4>1. x.type = "child_exec_mismatch"
        BY <3>1, <3>3 DEF ChildAnomaly, NewAnomaly
      <4> QED BY <4>1 DEF NewByType
    <3> QED BY <3>2, <3>3
  <2>2. CASE \/ \E k : x = NewAnomaly(b, "process", "privilege_escalation", 3, Rank[k])
             \/ x = NewAnomaly(b, "process", "procfs_read_other_pid", 4, 0)
    <3>1. x.type \in {"privilege_escalation", "procfs_read_other_pid"}
      BY <2>2 DEF NewAnomaly
    <3> QED BY <3>1 DEF NewByType
  <2> QED BY <1>5, <2>1, <2>2 DEF FoundProcess
<1>6. CASE x \in FoundMemory(b, o)
  <2>1. CASE \E k : x = NewAnomaly(b, "memory", "exec_memory_anonymous", 1, Rank[k])
    <3>1. x.type = "exec_memory_anonymous"
      BY <2>1 DEF NewAnomaly
    <3> QED BY <3>1 DEF NewByType
  <2>2. CASE \E k \in o.data.sets["mapped"] \ b.data.sets["mapped"] :
               x = NewAnomaly(b, "memory", "unexpected_module_load", 2, Rank[k])
    <3>1. PICK k \in o.data.sets["mapped"] \ b.data.sets["mapped"] :
            x.type = "unexpected_module_load" /\ x.item = Rank[k]
      BY <2>2 DEF NewAnomaly
    <3> QED BY <3>1 DEF NewByType
  <2> QED BY <1>6, <2>1, <2>2 DEF FoundMemory
<1> QED BY <1>1, <1>2, <1>3, <1>4, <1>5, <1>6 DEF Found

(* And each of them is named by one.                                         *)
LEMMA TypeFound ==
  ASSUME NEW b, NEW o, NEW type \in DOMAIN NewByType(b, o), NEW k \in NewByType(b, o)[type]
  PROVE  \E x \in Found(b, o) : x.type = type /\ x.item = Rank[k]
<1>1. CASE type = "unexpected_syscall"
  <2>1. SyscallAnomaly(b, k) \in Found(b, o)
    BY <1>1 DEF NewByType, FoundSyscalls, Found
  <2>2. SyscallAnomaly(b, k).type = type /\ SyscallAnomaly(b, k).item = Rank[k]
    BY <1>1 DEF SyscallAnomaly, Suppress, NewAnomaly
  <2> QED BY <2>1, <2>2
<1>2. CASE type = "new_listening_port"
  <2>1. PICK x : x = NewAnomaly(b, "network", "new_listening_port", 2, Rank[k])
    OBVIOUS
  <2>2. x \in FoundEntries(b, o, "ports", "new_listening_port", 2)
    BY <1>2, <2>1 DEF NewByType, FoundEntries
  <2> QED BY <1>2, <2>1, <2>2 DEF NewAnomaly, FoundNetwork, Found
<1>3. CASE type = "new_outbound_connection"
  <2>1. PICK x : x = NewAnomaly(b, "network", "new_outbound_connection", 3, Rank[k])
    OBVIOUS
  <2>2. x \in FoundEntries(b, o, "conns", "new_outbound_connection", 3)
    BY <1>3, <2>1 DEF NewByType, FoundEntries
  <2> QED BY <1>3, <2>1, <2>2 DEF NewAnomaly, FoundNetwork, Found
<1>4. CASE type = "raw_socket_opened"
  <2>1. PICK x : x = NewAnomaly(b, "network", "raw_socket_opened",
                                IF k \in Packet THEN 4 ELSE 5, Rank[k])
    OBVIOUS
  <2>2. x \in FoundRaw(b, o)
    BY <1>4, <2>1 DEF NewByType, FoundRaw
  <2> QED BY <1>4, <2>1, <2>2 DEF NewAnomaly, FoundNetwork, Found
<1>5. CASE type = "executable_written"
  <2>1. PICK x : x = NewAnomaly(b, "filesystem", "executable_written", 1, Rank[k])
    OBVIOUS
  <2>2. x \in FoundFilesystem(b, o)
    BY <1>5, <2>1 DEF NewByType, FoundFilesystem
  <2> QED BY <1>5, <2>1, <2>2 DEF NewAnomaly, Found
<1>6. CASE type = "registry_new_write"
  <2>1. PICK x : x = NewAnomaly(b, "registry", "registry_new_write", 2, Rank[k])
    OBVIOUS
  <2>2. x \in FoundRegistry(b, o)
    BY <1>6, <2>1 DEF NewByType, FoundRegistry
  <2> QED BY <1>6, <2>1, <2>2 DEF NewAnomaly, Found
<1>7. CASE type = "new_child_process"
  <2>1. PICK c \in Range(o.data.children) : b.data.children[c[1]] = NoHash /\ c[1] = k
    BY <1>7 DEF NewByType
  <2>2. PICK x : x = ChildAnomaly(b, c)
    OBVIOUS
  <2>3. x \in FoundProcess(b, o)
    BY <2>1, <2>2 DEF FoundProcess, Deviates
  <2>4. x.type = "new_child_process" /\ x.item = Rank[k]
    BY <2>1, <2>2 DEF ChildAnomaly, NewAnomaly
  <2> QED BY <1>7, <2>3, <2>4 DEF Found
<1>8. CASE type = "unexpected_module_load"
  <2>1. PICK x : x = NewAnomaly(b, "memory", "unexpected_module_load", 2, Rank[k])
    OBVIOUS
  <2>2. x \in FoundMemory(b, o)
    BY <1>8, <2>1 DEF NewByType, FoundMemory
  <2> QED BY <1>8, <2>1, <2>2 DEF NewAnomaly, Found
<1> QED BY <1>1, <1>2, <1>3, <1>4, <1>5, <1>6, <1>7, <1>8 DEF NewByType
(* The baseline knows a feature exactly if one of its runs showed it.        *)
LEMMA BaselineKnows ==
  ASSUME AccTypeOK, OnlyTwoFieldsDropped, NothingInvented, NEW k \in Item
  PROVE  /\ Build.observed[k].count > 0 <=> \E i \in DOMAIN log : k \in SyscallsOf(log[i])
         /\ \A d \in ListDims :
              k \in Build.lists[d] <=> \E i \in DOMAIN log : k \in ListOf(log[i], d)
         /\ \A d \in UnionDims :
              k \in Build.sets[d] <=> \E i \in DOMAIN log : k \in log[i].sets[d]
         /\ \A d \in Buckets :
              Build.files[d][k] > 0 <=> \E i \in DOMAIN log : log[i].files[d][k] > 0
         /\ Build.children[k] # NoHash <=>
              \E i \in DOMAIN log : \E j \in DOMAIN log[i].children :
                log[i].children[j][1] = k
<1>1. Build.observed[k].count > 0 <=> \E i \in DOMAIN log : k \in SyscallsOf(log[i])
  BY DEF OnlyTwoFieldsDropped, NothingInvented, RunsWithSyscall
<1>2. \A d \in ListDims :
        k \in Build.lists[d] <=> \E i \in DOMAIN log : k \in ListOf(log[i], d)
  BY DEF OnlyTwoFieldsDropped, NothingInvented, RunsWithKey
<1>3. \A d \in UnionDims :
        k \in Build.sets[d] <=> \E i \in DOMAIN log : k \in log[i].sets[d]
  BY DEF OnlyTwoFieldsDropped, NothingInvented
<1>4. ASSUME NEW d \in Buckets
      PROVE  Build.files[d][k] > 0 <=> \E i \in DOMAIN log : log[i].files[d][k] > 0
  <2>1. ASSUME NEW i \in DOMAIN log, log[i].files[d][k] > 0 PROVE Build.files[d][k] > 0
    <3>1. PICK m, n : m = log[i].files[d][k] /\ n = Build.files[d][k]
      OBVIOUS
    <3>2. log[i] \in Capture
      BY CapturesAssumption DEF AccTypeOK
    <3>3. m \in Nat /\ n \in Nat /\ m <= n
      BY <3>1, <3>2 DEF Capture, AccTypeOK, Build, OnlyTwoFieldsDropped
    <3>4. n > 0
      BY <2>1, <3>1, <3>3
    <3> QED BY <3>1, <3>4
  <2> QED BY <2>1 DEF NothingInvented
<1>5. Build.children[k] # NoHash <=>
        \E i \in DOMAIN log : \E j \in DOMAIN log[i].children : log[i].children[j][1] = k
  <2>1. ASSUME Build.children[k] # NoHash
        PROVE  \E i \in DOMAIN log : \E j \in DOMAIN log[i].children :
                 log[i].children[j][1] = k
    <3>1. PICK i \in DOMAIN log : \E j \in DOMAIN log[i].children :
                                    log[i].children[j] = <<k, Build.children[k]>>
      BY <2>1 DEF NothingInvented
    <3> QED BY <3>1
  <2> QED BY <2>1 DEF OnlyTwoFieldsDropped
<1> QED BY <1>1, <1>2, <1>3, <1>4, <1>5

(* So what is new to the baseline is what is new to its runs.                *)
LEMMA NewToRuns ==
  ASSUME AccTypeOK, OnlyTwoFieldsDropped, NothingInvented, NEW b, b.data = Build,
         NEW o, o.data \in Capture, NEW type \in DOMAIN NewByType(b, o)
  PROVE  /\ type \in DOMAIN Shown(o.data)
         /\ NewByType(b, o)[type] =
              {k \in Shown(o.data)[type] \ Exempt(o.data, type) :
                 \A i \in DOMAIN log : k \notin Shown(log[i])[type]}
<1>1. PICK New : New = {k \in Shown(o.data)[type] \ Exempt(o.data, type) :
                          \A i \in DOMAIN log : k \notin Shown(log[i])[type]}
  OBVIOUS
<1>2. ASSUME NEW d \in ListDims PROVE Range(o.data.lists[d]) = ListOf(o.data, d)
  <2>1. Range(o.data.lists[d]) \subseteq Item
    BY ObservedLists, RangeHeld
  <2> QED BY <2>1 DEF Range, ListOf
<1>3. "ports" \in ListDims /\ "conns" \in ListDims /\ "raw" \in ListDims
  BY DEF ListDims
<1>4. CASE type = "unexpected_syscall"
  <2>1. NewByType(b, o)[type] = Called(o.data) \ Called(b.data)
    BY <1>4 DEF NewByType
  <2>2. New = {k \in SyscallsOf(o.data) : \A i \in DOMAIN log : k \notin SyscallsOf(log[i])}
    BY <1>1, <1>4 DEF Shown, Exempt
  <2>3. NewByType(b, o)[type] = New
    BY <2>1, <2>2, BaselineKnows DEF Called, SyscallsOf
  <2> QED BY <1>1, <1>4, <2>3 DEF Shown
<1>5. ASSUME NEW d \in ListDims,
             NewByType(b, o)[type] = Range(o.data.lists[d]) \ b.data.lists[d],
             New = {k \in ListOf(o.data, d) : \A i \in DOMAIN log : k \notin ListOf(log[i], d)}
      PROVE  NewByType(b, o)[type] = New
  <2>1. ListOf(o.data, d) \subseteq Item
    BY DEF ListOf
  <2> QED BY <1>2, <1>5, <2>1, BaselineKnows
<1>6. CASE type = "new_listening_port"
  <2>1. /\ NewByType(b, o)[type] = Range(o.data.lists["ports"]) \ b.data.lists["ports"]
        /\ type \in DOMAIN Shown(o.data)
    BY <1>6 DEF NewByType, Shown
  <2>2. New = {k \in ListOf(o.data, "ports") :
                 \A i \in DOMAIN log : k \notin ListOf(log[i], "ports")}
    BY <1>1, <1>6 DEF Shown, Exempt
  <2> QED BY <1>1, <1>3, <1>5, <2>1, <2>2
<1>7. CASE type = "new_outbound_connection"
  <2>1. /\ NewByType(b, o)[type] = Range(o.data.lists["conns"]) \ b.data.lists["conns"]
        /\ type \in DOMAIN Shown(o.data)
    BY <1>7 DEF NewByType, Shown
  <2>2. New = {k \in ListOf(o.data, "conns") :
                 \A i \in DOMAIN log : k \notin ListOf(log[i], "conns")}
    BY <1>1, <1>7 DEF Shown, Exempt
  <2> QED BY <1>1, <1>3, <1>5, <2>1, <2>2
<1>8. CASE type = "raw_socket_opened"
  <2>1. /\ NewByType(b, o)[type] = Range(o.data.lists["raw"]) \ b.data.lists["raw"]
        /\ type \in DOMAIN Shown(o.data)
    BY <1>8 DEF NewByType, Shown
  <2>2. New = {k \in ListOf(o.data, "raw") :
                 \A i \in DOMAIN log : k \notin ListOf(log[i], "raw")}
    BY <1>1, <1>8 DEF Shown, Exempt
  <2> QED BY <1>1, <1>3, <1>5, <2>1, <2>2
<1>9. CASE type = "executable_written"
  <2>1. NewByType(b, o)[type] = FreshExecutables(b, o)
    BY <1>9 DEF NewByType
  <2>2. New = {k \in Present(o.data.files["exec"])
                   \cap (Present(o.data.files["written"]) \cup Present(o.data.files["created"])) :
                 \A i \in DOMAIN log : k \notin Present(log[i].files["exec"])}
    <3>1. /\ Shown(o.data)[type] = Present(o.data.files["exec"])
          /\ \A i \in DOMAIN log : Shown(log[i])[type] = Present(log[i].files["exec"])
      BY <1>9 DEF Shown
    <3>2. Exempt(o.data, type) = Item \ (Present(o.data.files["written"])
                                           \cup Present(o.data.files["created"]))
      BY <1>9 DEF Exempt
    <3> QED BY <1>1, <3>1, <3>2 DEF Present
  <2>3. "exec" \in Buckets
    BY DEF Buckets
  <2>4. \A k \in Item : k \in Present(b.data.files["exec"]) <=>
          \E i \in DOMAIN log : k \in Present(log[i].files["exec"])
    BY <2>3, BaselineKnows DEF Present
  <2>5. Present(o.data.files["exec"]) \subseteq Item
    BY DEF Present
  <2>6. NewByType(b, o)[type] = New
    BY <2>1, <2>2, <2>4, <2>5 DEF FreshExecutables
  <2> QED BY <1>1, <1>9, <2>6 DEF Shown
<1>10. o.data.sets \in [UnionDims -> SUBSET Item]
  BY DEF Capture
<1>11. {"regWritten", "regCreated", "mapped"} \subseteq UnionDims
  BY DEF UnionDims
<1>12. CASE type = "registry_new_write"
  <2>1. NewByType(b, o)[type] =
          (o.data.sets["regWritten"] \cup o.data.sets["regCreated"])
             \ (SensitiveKeys \cup (b.data.sets["regWritten"] \cup b.data.sets["regCreated"]))
    BY <1>12 DEF NewByType, FreshKeys
  <2>2. New = {k \in (o.data.sets["regWritten"] \cup o.data.sets["regCreated"]) \ SensitiveKeys :
                 \A i \in DOMAIN log :
                   k \notin log[i].sets["regWritten"] \cup log[i].sets["regCreated"]}
    BY <1>1, <1>12 DEF Shown, Exempt
  <2>3. \A k \in Item :
          k \in b.data.sets["regWritten"] \cup b.data.sets["regCreated"] <=>
            \E i \in DOMAIN log : k \in log[i].sets["regWritten"] \cup log[i].sets["regCreated"]
    BY <1>11, BaselineKnows
  <2>4. o.data.sets["regWritten"] \cup o.data.sets["regCreated"] \subseteq Item
    BY <1>10, <1>11
  <2>5. NewByType(b, o)[type] = New
    BY <2>1, <2>2, <2>3, <2>4
  <2> QED BY <1>1, <1>12, <2>5 DEF Shown
<1>13. CASE type = "unexpected_module_load"
  <2>1. NewByType(b, o)[type] = o.data.sets["mapped"] \ b.data.sets["mapped"]
    BY <1>13 DEF NewByType
  <2>2. New = {k \in o.data.sets["mapped"] : \A i \in DOMAIN log : k \notin log[i].sets["mapped"]}
    BY <1>1, <1>13 DEF Shown, Exempt
  <2>3. o.data.sets["mapped"] \subseteq Item
    BY <1>10, <1>11
  <2>4. NewByType(b, o)[type] = New
    BY <1>11, <2>1, <2>2, <2>3, BaselineKnows
  <2> QED BY <1>1, <1>13, <2>4 DEF Shown
<1>14. CASE type = "new_child_process"
  <2>1. PICK kids : kids = o.data.children /\ kids \in Seq(Item \X Hash)
    BY DEF Capture
  <2>2. NewByType(b, o)[type] =
          {c[1] : c \in {c \in Range(kids) : b.data.children[c[1]] = NoHash}}
    BY <1>14, <2>1 DEF NewByType
  <2>3. New = {k \in {k \in Item : \E j \in DOMAIN kids : kids[j][1] = k} :
                 \A i \in DOMAIN log :
                   k \notin {k_1 \in Item : \E j \in DOMAIN log[i].children :
                                              log[i].children[j][1] = k_1}}
    BY <1>1, <1>14, <2>1 DEF Shown, Exempt
  <2>4. \A k \in Item : b.data.children[k] = NoHash <=>
          \A i \in DOMAIN log : \A j \in DOMAIN log[i].children : log[i].children[j][1] # k
    BY BaselineKnows
  <2>5. \A c \in Range(kids) : c[1] \in Item
    BY <2>1 DEF Range
  <2>6. NewByType(b, o)[type] = New
    <3>1. ASSUME NEW k \in NewByType(b, o)[type] PROVE k \in New
      <4>1. PICK c \in Range(kids) : c[1] = k /\ b.data.children[c[1]] = NoHash
        BY <2>2
      <4>2. k \in Item /\ \E j \in DOMAIN kids : kids[j][1] = k
        BY <2>5, <4>1 DEF Range
      <4> QED BY <2>3, <2>4, <4>1, <4>2
    <3>2. ASSUME NEW k \in New PROVE k \in NewByType(b, o)[type]
      <4>1. PICK j \in DOMAIN kids : kids[j][1] = k /\ k \in Item
        BY <2>3
      <4>2. b.data.children[k] = NoHash
        BY <2>3, <2>4, <4>1
      <4> QED BY <2>2, <4>1, <4>2 DEF Range
    <3> QED BY <3>1, <3>2
  <2> QED BY <1>1, <1>14, <2>6 DEF Shown
<1> QED BY <1>4, <1>6, <1>7, <1>8, <1>9, <1>12, <1>13, <1>14 DEF NewByType

(* The report names exactly what the observed target showed and had shown in *)
(* none of the baseline runs: the way through accumulator, files, diffs and  *)
(* sort neither loses a new feature nor takes an old one for new.            *)
THEOREM NewCorrect == PipelineSpec => []ReportedIffNew
<1>1. FilesTell /\ AccTypeOK /\ OnlyTwoFieldsDropped /\ NothingInvented => ReportedIffNew
  <2> SUFFICES ASSUME FilesTell, AccTypeOK, OnlyTwoFieldsDropped, NothingInvented, step = "done",
                      NEW type \in DOMAIN Shown(obsFile[1].data)
               PROVE  Named(type) =
                        {k \in Shown(obsFile[1].data)[type] \ Exempt(obsFile[1].data, type) :
                           \A i \in DOMAIN log : k \notin Shown(log[i])[type]}
    BY DEF ReportedIffNew
  <2>1. PICK b, o, s : /\ b = baseFile[1] /\ o = obsFile[1] /\ s = report[1].anomalies
    OBVIOUS
  <2>2. b.data = Build /\ o.data \in Capture /\ Holds(s, Found(b, o))
    BY <2>1, FilesReport
  <2>3. type \in DOMAIN NewByType(b, o)
    BY <2>1 DEF Shown, NewByType
  <2>4. \A x, y \in Item : Rank[x] = Rank[y] => x = y
    BY RankAssumption DEF RankAssumption
  <2>5. NewByType(b, o)[type] \subseteq Item
    <3>1. Shown(o.data)[type] \subseteq Item
      <4>1. /\ o.data.sets["regWritten"] \subseteq Item
            /\ o.data.sets["regCreated"] \subseteq Item
            /\ o.data.sets["mapped"] \subseteq Item
        BY <2>2 DEF Capture, UnionDims
      <4>2. /\ SyscallsOf(o.data) \subseteq Item /\ Present(o.data.files["exec"]) \subseteq Item
            /\ \A d \in ListDims : ListOf(o.data, d) \subseteq Item
        BY DEF SyscallsOf, ListOf, Present
      <4> QED BY <2>1, <4>1, <4>2 DEF Shown, ListDims
    <3> QED BY <2>2, <2>3, <3>1, NewToRuns
  <2>6. Named(type) = {k \in Item : \E i \in DOMAIN s : s[i].type = type /\ s[i].item = Rank[k]}
    BY <2>1 DEF Named
  <2>7. ASSUME NEW k \in Named(type) PROVE k \in NewByType(b, o)[type]
    <3>1. PICK i \in DOMAIN s : s[i].type = type /\ s[i].item = Rank[k] /\ k \in Item
      BY <2>6
    <3>2. s[i] \in Found(b, o)
      BY <2>2 DEF Holds
    <3>3. PICK j \in NewByType(b, o)[type] : s[i].item = Rank[j]
      BY <2>3, <3>1, <3>2, FoundByType
    <3> QED BY <2>4, <2>5, <3>1, <3>3
  <2>8. ASSUME NEW k \in NewByType(b, o)[type] PROVE k \in Named(type)
    <3>1. PICK x \in Found(b, o) : x.type = type /\ x.item = Rank[k]
      BY <2>3, TypeFound
    <3>2. \E i \in DOMAIN s : s[i] = x
      BY <2>2 DEF Holds
    <3> QED BY <2>5, <2>6, <3>1, <3>2
  <2>9. Named(type) = NewByType(b, o)[type]
    BY <2>7, <2>8
  <2> QED BY <2>1, <2>2, <2>3, <2>9, NewToRuns
<1> QED BY <1>1, FilesTellAlways, CommandsAccumulate, AccTypeCorrect, TwoFieldsDroppedCorrect,
           NothingInventedCorrect, PTL
=============================================================================
