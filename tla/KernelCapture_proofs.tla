------------------------ MODULE KernelCapture_proofs ------------------------
(***************************************************************************)
(* The selection of the sensor backend and the file lists, for every host  *)
(* that can exist and whatever the target does: the run `capture`          *)
(* enumerates a grid of hosts and two accesses.                            *)
(***************************************************************************)
EXTENDS KernelCapture, Ordered_proofs

(* detectLinux tells the machines whose kernel takes the tracer from WSL1.   *)
LEMMA LoadsIsNotWSL1 ==
  ASSUME NEW h \in Hosts, h.loads
  PROVE  h.machine # "windows" /\ Detect(h) # "wsl1"
<1>1. h.machine \in {"linux", "wsl2"}
  BY CaptureAssumption DEF Real
<1> QED BY <1>1 DEF Detect, DetectWSL1

(* The gates of linuxProbe before the live load let pass every host whose    *)
(* kernel takes the tracer, but for a WSL2 without a sign of BPF and a       *)
(* process that has CAP_SYS_ADMIN only.                                      *)
LEMMA GatesLetPass ==
  ASSUME NEW h \in Hosts, h.loads, Detect(h) = "wsl2" => h.bpf, h.root \/ "bpf" \in h.caps
  PROVE  ~EBPFRefused(h, Detect(h))
<1>1. /\ h.kernel[1] \in Nat /\ h.kernel[2] \in Nat
      /\ KernelMeetsMin(h.kernel, <<5, 8>>)
  BY CaptureAssumption DEF Real
<1>2. KernelMeetsMin(h.kernel, <<4, 15>>)
  BY <1>1 DEF KernelMeetsMin
<1>3. HasCap(h, "bpf")
  BY DEF HasCap
<1>4. Detect(h) # "wsl1"
  BY LoadsIsNotWSL1
<1> QED BY <1>2, <1>3, <1>4 DEF EBPFRefused, EBPFRefusedOnPaper

(* What the probe chooses works there: a tracer that loads, a strace that is *)
(* installed; and WSL1 never gets the tracer.                                *)
LEMMA ChoiceWorks ==
  ASSUME NEW h \in Hosts
  PROVE  /\ Probe(h, Detect(h)) = "ebpf" => h.loads /\ h.machine # "wsl1"
         /\ Probe(h, Detect(h)) = "strace" => h.strace
<1>1. CASE h.machine = "windows"
  BY <1>1 DEF Probe
<1>2. CASE h.machine # "windows" /\ EBPFRefused(h, Detect(h))
  BY <1>2 DEF Probe, PickFallback
<1>3. CASE h.machine # "windows" /\ ~EBPFRefused(h, Detect(h))
  <2>1. Probe(h, Detect(h)) = "ebpf" /\ h.loads
    BY <1>3 DEF Probe, EBPFRefused
  <2>2. h.machine # "wsl1"
    BY <2>1, CaptureAssumption DEF Real
  <2> QED BY <2>1, <2>2
<1> QED BY <1>1, <1>2, <1>3

(* The program runs on what detectAndProbe returned, and ends early only     *)
(* when the backend cannot work.                                             *)
Chosen ==
  /\ host \in Hosts
  /\ phase # "start" => ctx = DetectAndProbe(host, override)
  /\ phase = "fatal" => \/ ctx.backend = "ebpf" /\ ~host.loads
                        \/ ctx.backend = "strace" /\ ~host.strace

(* Chosen holds throughout.                                                  *)
LEMMA ChosenAlways == Spec => []Chosen
<1>1. Init => Chosen
  BY DEF Init, Chosen
<1>2. Chosen /\ [Next]_vars => Chosen'
  <2> SUFFICES ASSUME Chosen, [Next]_vars PROVE Chosen'
    OBVIOUS
  <2>1. CASE Begin
    <3>1. UNCHANGED <<host, override>> /\ ctx' = DetectAndProbe(host, override)
      BY <2>1 DEF Begin
    <3>2. phase' = "fatal" => \/ ctx'.backend = "ebpf" /\ ~host.loads
                              \/ ctx'.backend = "strace" /\ ~host.strace
      BY <2>1 DEF Begin
    <3> QED BY <3>1, <3>2 DEF Chosen
  <2>2. CASE UNCHANGED <<host, override, ctx>> /\ phase # "start" /\ phase' # "fatal"
    BY <2>2 DEF Chosen
  <2>3. CASE UNCHANGED vars
    BY <2>3 DEF Chosen, vars
  <2>4. (\E a \in Acts : Access(a)) \/ WindowEnds \/ (\E k \in Buckets \X Path : Visit(k)) \/ Return
        => UNCHANGED <<host, override, ctx>> /\ phase # "start" /\ phase' # "fatal"
    BY DEF Access, WindowEnds, Visit, Return
  <2> QED
    BY <2>1, <2>2, <2>3, <2>4 DEF Next
<1> QED
  BY <1>1, <1>2, PTL DEF Spec

(* Without --backend no host ends in an error; a host that could have the    *)
(* tracer has it, or is one of the two linuxProbe is known to turn away; and *)
(* syscheck without --json says when there is no sensor.                     *)
THEOREM SelectionCorrect == Spec => []SelectionWorks
<1>1. Chosen => SelectionWorks
  <2> SUFFICES ASSUME Chosen, override = NoOverride, phase # "start"
               PROVE  /\ phase # "fatal"
                      /\ host.loads => \/ ctx.backend = "ebpf"
                                       \/ ctx.platform = "wsl2" /\ ~host.bpf
                                       \/ ~host.root /\ "bpf" \notin host.caps
                      /\ host.machine = "wsl1" => ctx.backend # "ebpf"
                      /\ \A json \in BOOLEAN :
                           Syscheck(host, json) = 2 <=> ctx.backend = "none" /\ ~json
    BY DEF SelectionWorks
  <2>1. ctx.platform = Detect(host) /\ ctx.backend = Probe(host, Detect(host))
    BY DEF Chosen, DetectAndProbe
  <2>2. phase # "fatal"
    BY <2>1, ChoiceWorks DEF Chosen
  <2>3. ASSUME host.loads, ctx.platform = "wsl2" => host.bpf,
               host.root \/ "bpf" \in host.caps
        PROVE  ctx.backend = "ebpf"
    <3>1. host.machine # "windows"
      BY <2>3, LoadsIsNotWSL1 DEF Chosen
    <3>2. ~EBPFRefused(host, Detect(host))
      BY <2>1, <2>3, GatesLetPass DEF Chosen
    <3> QED BY <2>1, <3>1, <3>2 DEF Probe
  <2>4. host.machine = "wsl1" => ctx.backend # "ebpf"
    BY <2>1, ChoiceWorks DEF Chosen
  <2>5. ASSUME NEW json \in BOOLEAN
        PROVE  Syscheck(host, json) = 2 <=> ctx.backend = "none" /\ ~json
    BY <2>1 DEF Syscheck
  <2> QED BY <2>2, <2>3, <2>4, <2>5
<1> QED
  BY <1>1, ChosenAlways, PTL
----------------------------------------------------------------------------
(* What the target does to a path is what the lists of the kernel's event    *)
(* say of it, whatever the call and its flags.                               *)
LEMMA DoesIsBucket ==
  ASSUME NEW a \in Acts, NEW b \in Buckets
  PROVE  Does(a, b) <=> b \in BucketsFor(Emitted(a))
<1> DEFINE f == Emitted(a)
<1>1. a.call \in Calls /\ a.flags \subseteq Flags
  BY CaptureAssumption DEF CaptureAssumption
<1>2. CASE a.call \in Deletes \cup Execs \cup Renames
  BY <1>2 DEF Does, BucketsFor, Emitted, Deletes, Execs, Renames, Opens, Buckets
<1>3. CASE a.call = "creat"
  <2>1. f.op = "open" /\ f.flags = {"CREAT", "WRONLY", "TRUNC"}
    BY <1>3 DEF Emitted, Deletes, Execs, Renames
  <2>2. BucketsFor(f) = {"created", "written"}
    BY <2>1 DEF BucketsFor
  <2> QED BY <1>3, <2>2 DEF Does, Deletes, Execs, Renames, Opens, Buckets
<1>4. CASE a.call = "openat2"
  <2>1. f.op = "open" /\ f.flags = {}
    BY <1>4 DEF Emitted, Deletes, Execs, Renames
  <2>2. BucketsFor(f) = {"read"}
    BY <2>1 DEF BucketsFor
  <2> QED BY <1>4, <2>2 DEF Does, Deletes, Execs, Renames, Opens, Buckets
<1>5. CASE a.call \in {"open", "openat"}
  <2>1. f.op = "open" /\ f.flags = a.flags
    BY <1>5 DEF Emitted, Deletes, Execs, Renames
  <2> DEFINE w == a.flags \cap {"WRONLY", "RDWR", "TRUNC"} # {}
             c == "CREAT" \in a.flags
  <2>2. "written" \in BucketsFor(f) <=> w
    BY <2>1 DEF BucketsFor
  <2>3. "created" \in BucketsFor(f) <=> c
    BY <2>1 DEF BucketsFor
  <2>4. "read" \in BucketsFor(f) <=> ~w /\ ~c
    BY <2>1 DEF BucketsFor
  <2>5. "deleted" \notin BucketsFor(f) /\ "exec" \notin BucketsFor(f)
    BY <2>1 DEF BucketsFor
  <2>6. a.flags = {} <=> ~w /\ ~c
    BY <1>1 DEF Flags
  <2>7. /\ Does(a, "written") <=> w /\ a.call \in {"open", "openat"}
        /\ Does(a, "created") <=> c /\ a.call \in {"open", "openat"}
        /\ Does(a, "read") <=> a.flags = {} /\ a.call \in {"open", "openat"}
        /\ ~Does(a, "deleted") /\ ~Does(a, "exec")
    BY <1>5 DEF Does, Deletes, Execs, Renames, Opens
  <2> QED BY <1>5, <2>2, <2>3, <2>4, <2>5, <2>6, <2>7 DEF Buckets
<1> QED BY <1>1, <1>2, <1>3, <1>4, <1>5 DEF Calls, Opens

(* A line of a list, and a list with one line for each path of P, with the   *)
(* count c has for it.                                                       *)
Line(p, n, platform) ==
  [path |-> p, count |-> n, sensitive |-> p \in Sensitive,
   interop |-> IsInteropPath(Area[p], platform)]
Lines == [path : Path, count : Nat, sensitive : BOOLEAN, interop : BOOLEAN]
Tells(list, P, c, platform) ==
  /\ list \in Seq(Lines)
  /\ \A i \in DOMAIN list : /\ list[i].path \in P
                            /\ list[i] = Line(list[i].path, c[list[i].path], platform)
  /\ \A i, j \in DOMAIN list : list[i].path = list[j].path => i = j
  /\ \A p \in P : \E i \in DOMAIN list : list[i].path = p

(* A path no list has yet adds its line.                                     *)
LEMMA TellsMore ==
  ASSUME NEW P \in SUBSET Path, NEW c \in [Path -> Nat], NEW platform, NEW list,
         Tells(list, P, c, platform), NEW p \in Path \ P
  PROVE  Tells(Append(list, Line(p, c[p], platform)), P \cup {p}, c, platform)
<1> DEFINE e == Line(p, c[p], platform)
           l == Append(list, e)
<1>1. e \in Lines /\ e.path = p
  BY DEF Line, Lines, IsInteropPath
<1>2. list \in Seq(Lines) /\ Len(list) \in Nat /\ DOMAIN list = 1 .. Len(list)
  BY DEF Tells
<1> HIDE DEF e
<1>3. /\ l \in Seq(Lines) /\ DOMAIN l = (DOMAIN list) \cup {Len(list) + 1}
      /\ \A i \in DOMAIN list : l[i] = list[i]
      /\ l[Len(list) + 1] = e /\ Len(list) + 1 \notin DOMAIN list
  BY <1>1, <1>2
<1> HIDE DEF l
<1>4. ASSUME NEW i \in DOMAIN l
      PROVE  l[i].path \in P \cup {p} /\ l[i] = Line(l[i].path, c[l[i].path], platform)
  <2>1. CASE i \in DOMAIN list
    BY <1>3, <2>1 DEF Tells
  <2>2. CASE i = Len(list) + 1
    BY <1>1, <1>3, <2>2 DEF e
  <2> QED BY <1>3, <2>1, <2>2
<1>5. ASSUME NEW i \in DOMAIN l, NEW j \in DOMAIN l, l[i].path = l[j].path PROVE i = j
  <2>1. \A k \in DOMAIN list : list[k].path # p
    BY DEF Tells
  <2>2. \A m, k \in DOMAIN list : list[m].path = list[k].path => m = k
    BY DEF Tells
  <2> QED BY <1>1, <1>3, <1>5, <2>1, <2>2
<1>6. ASSUME NEW x \in P \cup {p} PROVE \E i \in DOMAIN l : l[i].path = x
  <2>1. CASE x = p
    BY <1>1, <1>3, <2>1
  <2>2. CASE x \in P
    <3>1. PICK i \in DOMAIN list : list[i].path = x
      BY <2>2 DEF Tells
    <3> QED BY <1>3, <3>1
  <2> QED BY <2>1, <2>2
<1> QED BY <1>3, <1>4, <1>5, <1>6 DEF Tells, l, e

(* Sorting keeps the lines and puts the paths in order.                      *)
LEMMA TellsSorted ==
  ASSUME NEW P \in SUBSET Path, NEW c, NEW platform, NEW list,
         Tells(list, P, c, platform)
  PROVE  /\ Tells(Sorted(list), P, c, platform)
         /\ \A i, j \in DOMAIN Sorted(list) :
              i < j => Sorted(list)[i].path < Sorted(list)[j].path
<1> DEFINE D == DOMAIN list
           before == {p \in D \X D : list[p[1]].path < list[p[2]].path}
           l == Sorted(list)
<1>1. list \in Seq(Lines) /\ D = 1 .. Len(list) /\ Len(list) \in Nat
  BY DEF Tells
<1>2. \A i \in D : list[i].path \in Nat
  BY CaptureAssumption DEF Tells, CaptureAssumption
<1>3. \A i, j \in D : <<i, j>> \in before <=> list[i].path < list[j].path
  OBVIOUS
<1>4. l = StableSort(list, before)
  BY DEF Sorted
<1> HIDE DEF before, l, D
<1>5. WeakOn(D, before)
  <2>1. \A i, j \in D : <<i, j>> \in before => <<j, i>> \notin before
    BY <1>2, <1>3
  <2>2. ASSUME NEW i \in D, NEW j \in D, NEW k \in D, <<i, k>> \in before
        PROVE  <<i, j>> \in before \/ <<j, k>> \in before
    <3>1. list[i].path < list[k].path
      BY <1>3, <2>2
    <3>2. list[i].path < list[j].path \/ list[j].path < list[k].path
      BY <1>2, <3>1
    <3> QED BY <1>3, <3>2
  <2> QED BY <2>1, <2>2 DEF WeakOn
<1>6. PICK at : at = Origin(list, before)
  OBVIOUS
<1>7. /\ l \in Seq(Lines) /\ DOMAIN l = D /\ at \in [D -> D]
      /\ \A p \in D : l[p] = list[at[p]]
      /\ \A p, q \in D : p < q => <<at[q], at[p]>> \notin before
      /\ \A p, q \in D : p # q => at[p] # at[q]
      /\ \A i \in D : \E p \in D : at[p] = i
  <2>1. list \in Seq(Lines) /\ D = DOMAIN list
    BY <1>1 DEF D
  <2> QED BY <1>4, <1>5, <1>6, <2>1, StableSortAll
<1>8. \A i \in D : l[i].path \in P /\ l[i] = Line(l[i].path, c[l[i].path], platform)
  BY <1>7 DEF Tells, D
<1>9. ASSUME NEW i \in D, NEW j \in D, l[i].path = l[j].path PROVE i = j
  <2>1. list[at[i]].path = list[at[j]].path /\ at[i] \in D /\ at[j] \in D
    BY <1>7, <1>9
  <2>2. at[i] = at[j]
    BY <2>1 DEF Tells, D
  <2> QED BY <1>7, <2>2
<1>10. ASSUME NEW p \in P PROVE \E i \in D : l[i].path = p
  <2>1. PICK i \in D : list[i].path = p
    BY DEF Tells, D
  <2> QED BY <1>7, <2>1
<1>11. ASSUME NEW i \in D, NEW j \in D, i < j PROVE l[i].path < l[j].path
  <2>1. ~(list[at[j]].path < list[at[i]].path)
    BY <1>3, <1>7, <1>11
  <2>2. l[i].path # l[j].path
    BY <1>1, <1>9, <1>11
  <2>3. l[i] = list[at[i]] /\ l[j] = list[at[j]] /\ at[i] \in D /\ at[j] \in D
    BY <1>7
  <2>4. list[at[i]].path \in Nat /\ list[at[j]].path \in Nat
    BY <1>2, <2>3
  <2> QED BY <2>1, <2>2, <2>3, <2>4
<1> QED BY <1>7, <1>8, <1>9, <1>10, <1>11 DEF Tells, l
----------------------------------------------------------------------------
(* What there is of an accesses's bucket and path, as the counts map has it. *)
SeenIn(b, seen) == {p \in Path : <<b, p>> \in seen}
CountIn(b, as) == [p \in Path |-> Counts(as, Path)[<<b, p>>]]

(* Collect's slice is what the target did, and the lists tell the part of    *)
(* the counts map the range has been through.                                *)
Folding ==
  /\ acts \in Seq(Acts) /\ accesses = [i \in DOMAIN acts |-> Emitted(acts[i])]
  /\ visited \in SUBSET (Buckets \X Path)
  /\ phase \in {"start", "window"} => visited = {}
  /\ lists = [b \in Buckets |-> lists[b]]
  /\ \A b \in Buckets :
       Tells(lists[b], SeenIn(b, visited), CountIn(b, accesses), ctx.platform)
  /\ phase = "done" /\ ctx.backend = "ebpf" =>
       /\ visited = Keys
       /\ \A b \in Buckets : \A i, j \in DOMAIN lists[b] :
            i < j => lists[b][i].path < lists[b][j].path

(* An empty list tells nothing, whatever the counts and the platform.        *)
LEMMA TellsNothing ==
  ASSUME NEW list, NEW c, NEW platform, Tells(list, {}, c, platform), NEW d, NEW other
  PROVE  Tells(list, {}, d, other)
BY DEF Tells

(* The number of accesses to a path is how often the target did it.          *)
LEMMA CountIsTimes ==
  ASSUME Folding, NEW b \in Buckets, NEW p \in Path
  PROVE  /\ CountIn(b, accesses)[p] = Times(b, p)
         /\ Counts(accesses, Path)[<<b, p>>] = Times(b, p)
<1>1. \A i \in DOMAIN acts : acts[i] \in Acts
  BY DEF Folding
<1>2. DOMAIN accesses = DOMAIN acts /\ \A i \in DOMAIN acts : accesses[i] = Emitted(acts[i])
  BY DEF Folding
<1>3. \A i \in DOMAIN acts : accesses[i].path = acts[i].path
  BY <1>2 DEF Emitted
<1>4. \A i \in DOMAIN acts : b \in BucketsFor(accesses[i]) <=> Does(acts[i], b)
  BY <1>1, <1>2, DoesIsBucket
<1>5. {i \in DOMAIN accesses : accesses[i].path = p /\ b \in BucketsFor(accesses[i])}
      = {i \in DOMAIN acts : acts[i].path = p /\ Does(acts[i], b)}
  BY <1>2, <1>3, <1>4
<1>6. Counts(accesses, Path)[<<b, p>>]
      = Cardinality({i \in DOMAIN accesses : accesses[i].path = p /\ b \in BucketsFor(accesses[i])})
  BY DEF Counts
<1> QED BY <1>5, <1>6 DEF Times, CountIn

(* A count is a number.                                                      *)
LEMMA TimesNat ==
  ASSUME Folding, NEW b \in Buckets, NEW p \in Path
  PROVE  Times(b, p) \in Nat
<1> DEFINE S == {i \in DOMAIN acts : acts[i].path = p /\ Does(acts[i], b)}
<1>1. DOMAIN acts = 1 .. Len(acts) /\ Len(acts) \in Nat
  BY DEF Folding
<1>2. IsFiniteSet(DOMAIN acts)
  BY <1>1, FS_Interval
<1>3. S \in SUBSET DOMAIN acts
  OBVIOUS
<1> HIDE DEF S
<1>4. Cardinality(S) \in Nat
  BY <1>2, <1>3, FS_Subset, FS_CardinalityType
<1> QED BY <1>4 DEF S, Times

(* Folding holds throughout: each step of the range adds one line, and       *)
(* sorting at the end keeps them.                                            *)
LEMMA FoldingAlways == Spec => []Folding
<1>1. Init => Folding
  <2> SUFFICES ASSUME Init PROVE Folding
    OBVIOUS
  <2>1. /\ visited = {} /\ acts = <<>> /\ accesses = <<>> /\ phase = "start"
        /\ lists = [b \in Buckets |-> <<>>]
    BY DEF Init
  <2>2. acts \in Seq(Acts) /\ accesses = [i \in DOMAIN acts |-> Emitted(acts[i])]
    BY <2>1
  <2>3. ASSUME NEW b \in Buckets
        PROVE  Tells(lists[b], SeenIn(b, visited), CountIn(b, accesses), ctx.platform)
    <3>1. lists[b] = <<>> /\ SeenIn(b, visited) = {}
      BY <2>1 DEF SeenIn
    <3> QED BY <3>1 DEF Tells
  <2> QED BY <2>1, <2>2, <2>3 DEF Folding
<1>2. Folding /\ [Next]_vars => Folding'
  <2> SUFFICES ASSUME Folding, [Next]_vars PROVE Folding'
    OBVIOUS
  <2>1. CASE Begin
    <3>1. UNCHANGED <<acts, accesses, visited, lists>> /\ visited = {}
      BY <2>1 DEF Begin, Folding
    <3>2. phase' = "done" => ctx'.backend # "ebpf"
      BY <2>1 DEF Begin
    <3>3. ASSUME NEW b \in Buckets
          PROVE  Tells(lists[b], SeenIn(b, visited), CountIn(b, accesses), ctx'.platform)
      <4>1. SeenIn(b, visited) = {}
        BY <3>1 DEF SeenIn
      <4>2. Tells(lists[b], {}, CountIn(b, accesses), ctx.platform)
        BY <4>1 DEF Folding
      <4> QED BY <4>1, <4>2, TellsNothing, Zenon
    <3> QED BY <3>1, <3>2, <3>3 DEF Folding
  <2>2. ASSUME NEW a \in Acts, Access(a) PROVE Folding'
    <3>1. /\ acts' = Append(acts, a) /\ accesses' = Append(accesses, Emitted(a))
          /\ UNCHANGED <<phase, ctx, visited, lists>> /\ phase = "window" /\ visited = {}
      BY <2>2 DEF Access, Folding
    <3>2. acts' \in Seq(Acts) /\ accesses' = [i \in DOMAIN acts' |-> Emitted(acts'[i])]
      <4> DEFINE n == Len(acts)
      <4>1. acts \in Seq(Acts) /\ n \in Nat /\ DOMAIN acts = 1 .. n
            /\ accesses = [i \in 1 .. n |-> Emitted(acts[i])]
        BY DEF Folding
      <4>2. acts' \in Seq(Acts) /\ DOMAIN acts' = 1 .. n + 1 /\ acts'[n + 1] = a
            /\ \A i \in 1 .. n : acts'[i] = acts[i]
        BY <3>1, <4>1
      <4>3. Len(accesses) = n
        BY <4>1
      <4>4. accesses' = [i \in 1 .. n + 1 |-> IF i = n + 1 THEN Emitted(a) ELSE accesses[i]]
        BY <3>1, <4>1, <4>3
      <4> HIDE DEF n
      <4>5. \A i \in 1 .. n + 1 : i = n + 1 \/ i \in 1 .. n
        BY <4>1
      <4>6. \A i \in 1 .. n + 1 :
              (IF i = n + 1 THEN Emitted(a) ELSE accesses[i]) = Emitted(acts'[i])
        BY <4>1, <4>2, <4>5
      <4> QED BY <4>2, <4>4, <4>6
    <3>3. ASSUME NEW b \in Buckets
          PROVE  Tells(lists[b], SeenIn(b, visited), CountIn(b, accesses'), ctx.platform)
      <4>1. SeenIn(b, visited) = {}
        BY <3>1 DEF SeenIn
      <4>2. Tells(lists[b], {}, CountIn(b, accesses), ctx.platform)
        BY <4>1 DEF Folding
      <4> QED BY <4>1, <4>2, TellsNothing, Zenon
    <3> QED BY <3>1, <3>2, <3>3 DEF Folding
  <2>3. CASE WindowEnds
    <3>1. UNCHANGED <<acts, accesses, visited, lists, ctx>> /\ phase' = "fold"
      BY <2>3 DEF WindowEnds
    <3> QED BY <3>1 DEF Folding
  <2>4. ASSUME NEW k \in Buckets \X Path, Visit(k) PROVE Folding'
    <3> DEFINE b0 == k[1]
               p0 == k[2]
    <3>1. /\ k = <<b0, p0>> /\ b0 \in Buckets /\ p0 \in Path /\ phase = "fold"
          /\ UNCHANGED <<acts, accesses, ctx, phase>> /\ visited' = visited \cup {k}
          /\ k \notin visited
          /\ lists' = [lists EXCEPT ![b0] = Append(@, Entry(p0, Counts(accesses, Path)[k]))]
      BY <2>4 DEF Visit
    <3> HIDE DEF b0, p0
    <3>2. Entry(p0, Counts(accesses, Path)[k]) = Line(p0, CountIn(b0, accesses)[p0], ctx.platform)
      BY <3>1 DEF Entry, Line, CountIn
    <3>3. CountIn(b0, accesses) \in [Path -> Nat]
      <4>1. \A p \in Path : CountIn(b0, accesses)[p] \in Nat
        BY <3>1, CountIsTimes, TimesNat
      <4> QED BY <4>1 DEF CountIn
    <3>4. SeenIn(b0, visited') = SeenIn(b0, visited) \cup {p0} /\ p0 \notin SeenIn(b0, visited)
      BY <3>1 DEF SeenIn
    <3>5. lists'[b0] = Append(lists[b0], Line(p0, CountIn(b0, accesses)[p0], ctx.platform))
          /\ lists' = [b \in Buckets |-> lists'[b]]
          /\ \A b \in Buckets \ {b0} : lists'[b] = lists[b]
      <4> DEFINE e == Entry(p0, Counts(accesses, Path)[k])
      <4>1. lists = [b \in Buckets |-> lists[b]] /\ lists' = [lists EXCEPT ![b0] = Append(@, e)]
        BY <3>1 DEF Folding
      <4> HIDE DEF e
      <4>2. lists'[b0] = Append(lists[b0], e) /\ lists' = [b \in Buckets |-> lists'[b]]
            /\ \A b \in Buckets \ {b0} : lists'[b] = lists[b]
        BY <3>1, <4>1
      <4> QED BY <3>2, <4>2 DEF e
    <3>6. ASSUME NEW b \in Buckets
          PROVE  Tells(lists'[b], SeenIn(b, visited'), CountIn(b, accesses), ctx.platform)
      <4>1. Tells(lists[b], SeenIn(b, visited), CountIn(b, accesses), ctx.platform)
        BY DEF Folding
      <4>2. CASE b = b0
        <5>1. SeenIn(b, visited) \in SUBSET Path /\ p0 \in Path \ SeenIn(b, visited)
          BY <3>1, <3>4, <4>2 DEF SeenIn
        <5>2. Tells(Append(lists[b], Line(p0, CountIn(b, accesses)[p0], ctx.platform)),
                    SeenIn(b, visited) \cup {p0}, CountIn(b, accesses), ctx.platform)
          BY <3>3, <4>1, <4>2, <5>1, TellsMore
        <5> QED BY <3>4, <3>5, <4>2, <5>2
      <4>3. CASE b # b0
        <5>1. SeenIn(b, visited') = SeenIn(b, visited)
          BY <3>1, <4>3 DEF SeenIn
        <5> QED BY <3>5, <4>1, <4>3, <5>1
      <4> QED BY <4>2, <4>3
    <3>7. visited' \in SUBSET (Buckets \X Path)
      BY <3>1 DEF Folding
    <3> QED BY <3>1, <3>5, <3>6, <3>7 DEF Folding
  <2>5. CASE Return
    <3>1. /\ UNCHANGED <<acts, accesses, ctx, visited>> /\ visited = Keys
          /\ lists' = [b \in Buckets |-> Sorted(lists[b])] /\ phase' = "done"
      BY <2>5 DEF Return
    <3>2. ASSUME NEW b \in Buckets
          PROVE  /\ Tells(lists'[b], SeenIn(b, visited), CountIn(b, accesses), ctx.platform)
                 /\ \A i, j \in DOMAIN lists'[b] : i < j => lists'[b][i].path < lists'[b][j].path
      <4>1. Tells(lists[b], SeenIn(b, visited), CountIn(b, accesses), ctx.platform)
            /\ SeenIn(b, visited) \in SUBSET Path /\ lists'[b] = Sorted(lists[b])
        BY <3>1 DEF Folding, SeenIn
      <4> QED BY <4>1, TellsSorted
    <3>3. Keys' = Keys
      BY <3>1 DEF Keys
    <3> QED BY <3>1, <3>2, <3>3 DEF Folding
  <2>6. CASE UNCHANGED vars
    <3>1. Keys' = Keys
      BY <2>6 DEF Keys, vars
    <3> QED BY <2>6, <3>1 DEF Folding, vars
  <2> QED BY <2>1, <2>2, <2>3, <2>4, <2>5, <2>6 DEF Next
<1> QED BY <1>1, <1>2, PTL DEF Spec

(* The lists do not depend on the order of the map: each path once per list, *)
(* in order, with the number of accesses, for every sequence of accesses.    *)
THEOREM ListsCorrect == Spec => []ListsTellWhatHappened
<1>1. Folding => ListsTellWhatHappened
  <2> SUFFICES ASSUME Folding, phase = "done", ctx.backend = "ebpf", NEW b \in Buckets
      PROVE  /\ \A i, j \in DOMAIN lists[b] : i < j => lists[b][i].path < lists[b][j].path
             /\ \A p \in Path : Times(b, p) > 0 => \E i \in DOMAIN lists[b] : lists[b][i].path = p
             /\ \A i \in DOMAIN lists[b] : /\ lists[b][i].count = Times(b, lists[b][i].path)
                                           /\ lists[b][i].count > 0
    BY DEF ListsTellWhatHappened
  <2>1. Tells(lists[b], SeenIn(b, visited), CountIn(b, accesses), ctx.platform) /\ visited = Keys
    BY DEF Folding
  <2>2. \A p \in Path : p \in SeenIn(b, visited) <=> Times(b, p) > 0
    BY <2>1, CountIsTimes DEF SeenIn, Keys
  <2>3. ASSUME NEW i \in DOMAIN lists[b]
        PROVE  lists[b][i].count = Times(b, lists[b][i].path) /\ lists[b][i].count > 0
    <3>1. /\ lists[b][i].path \in SeenIn(b, visited)
          /\ lists[b][i] = Line(lists[b][i].path, CountIn(b, accesses)[lists[b][i].path], ctx.platform)
      BY <2>1 DEF Tells
    <3>2. lists[b][i].path \in Path
      BY <3>1 DEF SeenIn
    <3>3. lists[b][i].count = CountIn(b, accesses)[lists[b][i].path]
      BY <3>1 DEF Line
    <3> QED BY <2>2, <3>1, <3>2, <3>3, CountIsTimes
  <2>4. \A i, j \in DOMAIN lists[b] : i < j => lists[b][i].path < lists[b][j].path
    BY DEF Folding
  <2>5. ASSUME NEW p \in Path, Times(b, p) > 0 PROVE \E i \in DOMAIN lists[b] : lists[b][i].path = p
    BY <2>1, <2>2, <2>5 DEF Tells
  <2> QED BY <2>3, <2>4, <2>5
<1> QED BY <1>1, FoldingAlways, PTL

(* A path is marked exactly when it crosses to Windows, on every host.       *)
THEOREM InteropCorrect == Spec => []InteropIsTheBoundary
<1>1. Folding /\ Chosen => InteropIsTheBoundary
  <2> SUFFICES ASSUME Folding, Chosen, phase = "done", NEW b \in Buckets, NEW i \in DOMAIN lists[b],
                      NEW e, e = lists[b][i]
      PROVE  /\ host.wine # {} => (e.interop <=> Area[e.path] = "drive_c")
             /\ host.wine = {} /\ host.machine \in {"wsl1", "wsl2"}
                  => (e.interop <=> Area[e.path] = "mnt")
             /\ host.wine = {} /\ host.machine = "linux" => ~e.interop
             /\ e.interop => FilesystemSensor[ctx.platform] = "interop"
    BY DEF InteropIsTheBoundary
  <2>1. /\ host \in Hosts /\ ctx.platform = Detect(host)
    BY DEF Chosen, DetectAndProbe
  <2>2. e = Line(e.path, CountIn(b, accesses)[e.path], ctx.platform)
    BY DEF Folding, Tells
  <2>3. e.interop <=> IsInteropPath(Area[e.path], ctx.platform)
    BY <2>2 DEF Line
  <2>4. host.wine # {} => ctx.platform = "wine"
    BY <2>1, CaptureAssumption DEF Detect, DetectWine, Real
  <2>5. host.wine = {} /\ host.machine = "wsl1" => ctx.platform = "wsl1"
    BY <2>1 DEF Detect, DetectWine, DetectWSL1, DetectWSL2
  <2>6. host.wine = {} /\ host.machine = "wsl2" => ctx.platform = "wsl2"
    BY <2>1 DEF Detect, DetectWine, DetectWSL2
  <2>7. host.wine = {} /\ host.machine = "linux" => ctx.platform \in {"container", "native_linux"}
    BY <2>1 DEF Detect, DetectWine, DetectWSL1, DetectWSL2
  <2>8. IsInteropPath(Area[e.path], ctx.platform) => FilesystemSensor[ctx.platform] = "interop"
    BY DEF IsInteropPath, FilesystemSensor
  <2> QED BY <2>3, <2>4, <2>5, <2>6, <2>7, <2>8 DEF IsInteropPath
<1> QED BY <1>1, FoldingAlways, ChosenAlways, PTL
=============================================================================
