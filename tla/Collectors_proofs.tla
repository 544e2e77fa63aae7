-------------------------- MODULE Collectors_proofs --------------------------
(***************************************************************************)
(* Theorems about the collectors, for any number of sockets, children,     *)
(* executables and ranges and for any number of changes of the target.     *)
(***************************************************************************)
EXTENDS Collectors, FiniteSetTheorems, TLAPS

(* What a socket of the target is it was, and only its inodes are read.      *)
OnlyEver ==
  /\ owned \in [Sock -> Mode \cup {"closed"}]
  /\ \A s \in Sock : owned[s] # "closed" => <<s, owned[s]>> \in ever
  /\ inodes \subseteq Sock /\ netSeen \subseteq ever \cap (Sock \X Reported)

(* network.Collect reports no socket of another process, although the tables *)
(* it reads are those of the whole namespace, and none as what it was not.   *)
THEOREM SocketsCorrect == Spec => []SocketsAreTheTargets
<1>1. Init => OnlyEver
  BY CollectorsAssumption DEF Init, OnlyEver
<1>2. OnlyEver /\ [Next]_vars => OnlyEver'
  <2> SUFFICES ASSUME OnlyEver, [Next]_vars PROVE OnlyEver'
    OBVIOUS
  <2> USE DEF OnlyEver
  <2>1. ASSUME NEW s \in Sock, NEW m \in Modes \cup {"closed"}, SocketsChange(s, m)
        PROVE  OnlyEver'
    <3>1. /\ owned' = [owned EXCEPT ![s] = m] /\ ever' = ever \cup {<<s, m>>}
          /\ UNCHANGED netVars
      BY <2>1 DEF SocketsChange, Change
    <3>2. \A t \in Sock : owned'[t] = owned[t] \/ (t = s /\ owned'[t] = m)
      BY <3>1
    <3>3. owned' \in [Sock -> Mode \cup {"closed"}]
      BY <3>1, CollectorsAssumption
    <3> QED BY <3>1, <3>2, <3>3 DEF netVars
  <2>2. ASSUME NEW p \in Pid, NEW x \in Exe \cup {NoExe}, ChildChanges(p, x) PROVE OnlyEver'
    BY <2>2 DEF ChildChanges, Change, netVars
  <2>3. ASSUME NEW u \in Uid, UidChanges(u) PROVE OnlyEver'
    BY <2>3 DEF UidChanges, Change, netVars
  <2>4. ASSUME NEW a \in Addr, NEW m \in Mappings, MapsChange(a, m) PROVE OnlyEver'
    BY <2>4 DEF MapsChange, Change, netVars
  <2>5. CASE TargetExits
    <3>1. owned' = [s \in Sock |-> "closed"] /\ UNCHANGED <<ever, inodes, netSeen>>
      BY <2>5 DEF TargetExits, netVars
    <3> QED BY <3>1
  <2>6. CASE SocketInodes
    BY <2>6 DEF SocketInodes, targetVars
  <2>7. CASE ParseTables
    <3>1. \A r \in OwnSockets(Rows) : r \in ever /\ r \in Sock \X Reported
      <4> TAKE r \in OwnSockets(Rows)
      <4>1. r \in Rows /\ r[1] \in Sock /\ r[2] \in Reported
        BY DEF OwnSockets
      <4>2. r \notin Foreign \X Reported
        BY <4>1, CollectorsAssumption
      <4>3. PICK s \in Sock : r = <<s, owned[s]>> /\ owned[s] # "closed"
        BY <4>1, <4>2 DEF Rows
      <4> QED BY <4>1, <4>3
    <3>2. UNCHANGED <<owned, ever, inodes>>
      BY <2>7 DEF ParseTables, targetVars
    <3>3. netSeen' \subseteq netSeen \cup OwnSockets(Rows)
      BY <2>7 DEF ParseTables
    <3> QED BY <3>1, <3>2, <3>3
  <2>8. CASE UNCHANGED <<targetVars, netVars>>
    BY <2>8 DEF targetVars, netVars
  <2>9. \/ InitialUID \/ ChildrenOf \/ (\E p \in Pid : ChildPath(p)) \/ ChildHash \/ ReadEUID
        \/ ReadMaps \/ (\E c \in Collector : Tick(c)) \/ (\E c \in Collector : Finish(c))
        \/ KernelReturns \/ WaitReturns \/ UNCHANGED vars
        => UNCHANGED <<targetVars, netVars>>
    BY DEF InitialUID, ChildrenOf, ChildPath, ChildHash, ReadEUID, ReadMaps, Tick, Finish,
           KernelReturns, WaitReturns, vars
  <2> QED
    BY <2>1, <2>2, <2>3, <2>4, <2>5, <2>6, <2>7, <2>8, <2>9 DEF Next
<1>3. OnlyEver => SocketsAreTheTargets
  BY DEF OnlyEver, SocketsAreTheTargets
<1> QED
  BY <1>1, <1>2, <1>3, PTL DEF Spec

-----------------------------------------------------------------------------
(* The goroutines still running, and what wg.Wait relies on: the counter is  *)
(* their number, until the program is ended.                                 *)
Phases == {"inodes", "tables", "uid0", "list", "info", "hash", "maps", "wait", "done", "gone"}
Running == {c \in Collector : phase[c] # "done"}
WgCounts ==
  /\ phase \in [Collector -> Phases]
  /\ main # "fatal" => wg = Cardinality(Running)
  /\ main = "returned" => Running = {}

(* Three goroutines are counted.                                             *)
LEMMA ThreeCollectors == IsFiniteSet(Collector) /\ Cardinality(Collector) = 3
<1>1. Cardinality({}) = 0 /\ IsFiniteSet({})
  BY FS_EmptySet
<1>2. {"net"} = {} \cup {"net"} /\ "net" \notin {}
  OBVIOUS
<1>3. Cardinality({"net"}) = 1 /\ IsFiniteSet({"net"})
  <2>1. IsFiniteSet({} \cup {"net"}) /\ Cardinality({} \cup {"net"}) = Cardinality({}) + 1
    BY <1>1, FS_AddElement, Zenon
  <2> QED BY <1>1, <1>2, <2>1
<1>4. /\ {"net", "proc"} = {"net"} \cup {"proc"} /\ "proc" \notin {"net"}
      /\ Collector = {"net", "proc"} \cup {"mem"} /\ "mem" \notin {"net", "proc"}
  BY DEF Collector
<1>5. Cardinality({"net", "proc"}) = 2 /\ IsFiniteSet({"net", "proc"})
  BY <1>3, <1>4, FS_AddElement
<1> QED BY <1>4, <1>5, FS_AddElement

(* So those still running are finitely many.                                *)
LEMMA RunningFinite == IsFiniteSet(Running)
BY ThreeCollectors, FS_Subset DEF Running

(* A step of one goroutine that does not end it changes nothing here.        *)
LEMMA GotoKeeps ==
  ASSUME WgCounts, NEW c \in Collector, NEW p \in Phases, phase[c] # "done", p # "done",
         Goto(c, p), UNCHANGED mainVars
  PROVE  WgCounts'
<1>1. phase' \in [Collector -> Phases]
  BY DEF WgCounts, Goto
<1>2. Running' = Running
  BY DEF WgCounts, Goto, Running
<1> QED BY <1>1, <1>2 DEF WgCounts, mainVars

(* The counter is the number of running goroutines in every state.           *)
LEMMA WgAlways == Spec => []WgCounts
<1>1. Init => WgCounts
  <2> SUFFICES ASSUME Init PROVE WgCounts
    OBVIOUS
  <2>1. phase \in [Collector -> Phases] /\ Running = Collector
    BY DEF Init, FirstPhase, Collector, Running, Phases
  <2> QED BY <2>1, ThreeCollectors DEF Init, WaitCount, WgCounts
<1>2. WgCounts /\ [Next]_vars => WgCounts'
  <2> SUFFICES ASSUME WgCounts, [Next]_vars PROVE WgCounts'
    OBVIOUS
  <2>1. CASE UNCHANGED <<mainVars, phase>>
    BY <2>1 DEF WgCounts, Running, mainVars
  <2>2. \/ (\E s \in Sock, m \in Modes \cup {"closed"} : SocketsChange(s, m)) \/ (\E u \in Uid : UidChanges(u))
        \/ (\E p \in Pid, x \in Exe \cup {NoExe} : ChildChanges(p, x))
        \/ (\E a \in Addr, m \in Mappings : MapsChange(a, m)) \/ TargetExits \/ UNCHANGED vars
        => UNCHANGED <<mainVars, phase>>
    BY DEF SocketsChange, UidChanges, ChildChanges, MapsChange, Change, TargetExits, vars
  <2>3. CASE SocketInodes
    <3>1. CASE alive
      BY <2>3, <3>1, GotoKeeps DEF Phases, Collector, SocketInodes, Now
    <3>2. CASE ~alive
      BY <2>3, <3>2, GotoKeeps DEF Phases, Collector, SocketInodes, Now
    <3> QED BY <3>1, <3>2
  <2>4. CASE ParseTables
    BY <2>4, GotoKeeps DEF Phases, Collector, ParseTables, Now
  <2>5. CASE InitialUID
    BY <2>5, GotoKeeps DEF Phases, Collector, InitialUID, Now
  <2>6. CASE ChildrenOf
    BY <2>6, GotoKeeps DEF Phases, Collector, ChildrenOf, Now
  <2>7. ASSUME NEW p \in Pid, ChildPath(p) PROVE WgCounts'
    BY <2>7, GotoKeeps DEF Phases, Collector, ChildPath, Now
  <2>8. CASE ChildHash
    BY <2>8, GotoKeeps DEF Phases, Collector, ChildHash, Now
  <2>9. CASE ReadEUID
    BY <2>9, GotoKeeps DEF Phases, Collector, ReadEUID, Now
  <2>10. CASE ReadMaps
    BY <2>10, GotoKeeps DEF Phases, Collector, ReadMaps, Now
  <2>11. ASSUME NEW c \in Collector, Tick(c) PROVE WgCounts'
    <3>1. PollPhase[c] \in Phases /\ PollPhase[c] # "done"
      BY DEF PollPhase, Collector, Phases
    <3> QED BY <2>11, <3>1, GotoKeeps DEF Tick, Now
  <2>12. ASSUME NEW c \in Collector, Finish(c) PROVE WgCounts'
    <3>1. phase' \in [Collector -> Phases] /\ c \in Running
      BY <2>12 DEF Finish, Now, Goto, WgCounts, Running, Phases
    <3>2. Running' = Running \ {c}
      BY <2>12 DEF Finish, Now, Goto, WgCounts, Running
    <3>3. Cardinality(Running') = Cardinality(Running) - 1
      BY <3>1, <3>2, RunningFinite, FS_RemoveElement
    <3> QED BY <2>12, <3>1, <3>2, <3>3 DEF Finish, WgCounts
  <2>13. CASE KernelReturns
    <3>1. CASE main' = "wait" /\ phase' = phase
      BY <2>13, <3>1 DEF KernelReturns, WgCounts, Running
    <3>2. CASE main' = "fatal" /\ phase' = [c \in Collector |-> "gone"]
      BY <3>2 DEF WgCounts, Phases
    <3> QED BY <2>13, <3>1, <3>2 DEF KernelReturns
  <2>14. CASE WaitReturns
    <3>1. Running' = Running /\ phase' \in [Collector -> Phases]
      BY <2>14 DEF WaitReturns, WgCounts, Running
    <3>2. Cardinality(Running) = 0
      BY <2>14 DEF WaitReturns, WgCounts
    <3>3. Running = {}
      BY <3>2, RunningFinite, FS_EmptySet
    <3> QED BY <2>14, <3>1, <3>2, <3>3 DEF WaitReturns, WgCounts
  <2> QED
    BY <2>1, <2>2, <2>3, <2>4, <2>5, <2>6, <2>7, <2>8, <2>9, <2>10, <2>11, <2>12, <2>13, <2>14
    DEF Next
<1> QED
  BY <1>1, <1>2, PTL DEF Spec

(* captureAll returns from wg.Wait only when all three results are written.  *)
THEOREM ResultsCorrect == Spec => []ResultsAreFinal
<1>1. WgCounts => ResultsAreFinal
  BY DEF WgCounts, ResultsAreFinal, Running
<1> QED
  BY <1>1, WgAlways, PTL

-----------------------------------------------------------------------------
(* What CollectProcess has in hand about children is from executables that   *)
(* their pids ran; a child now running is at the end of its history.         *)
KidsRan ==
  /\ phase \in [Collector -> Phases]
  /\ kids \in [Pid -> Exe \cup {NoExe}] /\ ran \in [Pid -> Seq(Exe)] /\ todo \subseteq Pid
  /\ children \in [Pid -> [path : Exe \cup {NoExe}, hash : Exe \cup {NoExe}, seen : BOOLEAN]]
  /\ \A p \in Pid : kids[p] # NoExe => ran[p] # <<>> /\ kids[p] = ran[p][Len(ran[p])]
  /\ phase["proc"] = "hash" =>
       /\ current \in Pid \X (Exe \cup {NoExe})
       /\ current[2] # NoExe =>
            \E i \in DOMAIN ran[current[1]] : ran[current[1]][i] = current[2]

(* A history that only grows keeps what was true of a child.                 *)
LEMMA HistoryKeepsChildren ==
  ASSUME KidsRan, ChildrenAreReal, UNCHANGED children,
         \A p \in Pid : /\ DOMAIN ran[p] \subseteq DOMAIN ran'[p]
                       /\ \A i \in DOMAIN ran[p] : ran'[p][i] = ran[p][i]
  PROVE  ChildrenAreReal'
<1> SUFFICES ASSUME NEW p \in Pid, children[p].seen
             PROVE  LET c == children[p]
                        At(x) == {i \in DOMAIN ran'[p] : ran'[p][i] = x}
                    IN  /\ {c.path, c.hash} \subseteq {NoExe} \cup {ran'[p][i] : i \in DOMAIN ran'[p]}
                        /\ c.path # NoExe /\ c.hash # NoExe =>
                             \E i \in At(c.path), j \in At(c.hash) : i <= j
  BY DEF ChildrenAreReal
<1> DEFINE c == children[p]
<1>1. /\ {c.path, c.hash} \subseteq {NoExe} \cup {ran[p][i] : i \in DOMAIN ran[p]}
      /\ c.path # NoExe /\ c.hash # NoExe =>
           \E i, j \in DOMAIN ran[p] : ran[p][i] = c.path /\ ran[p][j] = c.hash /\ i <= j
  BY DEF ChildrenAreReal
<1>2. {ran[p][i] : i \in DOMAIN ran[p]} \subseteq {ran'[p][i] : i \in DOMAIN ran'[p]}
  OBVIOUS
<1> QED BY <1>1, <1>2

(* So does a step that touches neither the children's side of the target nor *)
(* what CollectProcess holds.                                                *)
LEMMA OthersKeepChildren ==
  ASSUME KidsRan, ChildrenAreReal, UNCHANGED <<kids, ran, todo, children, current>>,
         phase' \in [Collector -> Phases], phase'["proc"] = "hash" => phase["proc"] = "hash"
  PROVE  KidsRan' /\ ChildrenAreReal'
<1>1. KidsRan'
  BY DEF KidsRan
<1>2. ChildrenAreReal'
  BY HistoryKeepsChildren
<1> QED BY <1>1, <1>2

(* Both hold in every state.                                                 *)
LEMMA ChildrenAlways == Spec => [](KidsRan /\ ChildrenAreReal)
<1> DEFINE IInv == KidsRan /\ ChildrenAreReal
<1>1. Init => IInv
  <2> SUFFICES ASSUME Init PROVE IInv
    OBVIOUS
  <2>1. phase \in [Collector -> Phases] /\ phase["proc"] = "uid0"
    BY DEF Init, FirstPhase, Collector, Phases
  <2>2. /\ kids \in [Pid -> Exe \cup {NoExe}] /\ todo \subseteq Pid
        /\ \A p \in Pid : children[p] = NoInfo
        /\ children \in [Pid -> [path : Exe \cup {NoExe}, hash : Exe \cup {NoExe}, seen : BOOLEAN]]
    BY DEF Init, NoInfo
  <2>3. ran = [p \in Pid |-> IF kids[p] = NoExe THEN <<>> ELSE <<kids[p]>>]
    BY DEF Init
  <2>4. \A p \in Pid : /\ ran[p] \in Seq(Exe)
                       /\ kids[p] # NoExe => ran[p] # <<>> /\ kids[p] = ran[p][Len(ran[p])]
    BY <2>2, <2>3
  <2>5. ran \in [Pid -> Seq(Exe)]
    BY <2>3, <2>4
  <2>6. KidsRan
    BY <2>1, <2>2, <2>4, <2>5 DEF KidsRan
  <2>7. ChildrenAreReal
    BY <2>2 DEF ChildrenAreReal, NoInfo
  <2> QED BY <2>6, <2>7
<1>2. IInv /\ [Next]_vars => IInv'
  <2> SUFFICES ASSUME KidsRan, ChildrenAreReal, [Next]_vars PROVE KidsRan' /\ ChildrenAreReal'
    OBVIOUS
  <2>0. phase \in [Collector -> Phases]
    BY DEF KidsRan
  <2>1. ASSUME NEW p \in Pid, NEW x \in Exe \cup {NoExe}, ChildChanges(p, x)
        PROVE  KidsRan' /\ ChildrenAreReal'
    <3>1. UNCHANGED <<phase, todo, children, current>>
      BY <2>1 DEF ChildChanges, Change, procVars
    <3>2. kids' = [kids EXCEPT ![p] = x]
      BY <2>1 DEF ChildChanges
    <3>3. \A q \in Pid : ran'[q] = IF q = p /\ x # NoExe THEN Append(ran[q], x) ELSE ran[q]
      BY <2>1 DEF ChildChanges, KidsRan
    <3>4. ran' \in [Pid -> Seq(Exe)]
      BY <2>1 DEF ChildChanges, KidsRan
    <3>5. \A q \in Pid : /\ DOMAIN ran[q] \subseteq DOMAIN ran'[q]
                         /\ \A i \in DOMAIN ran[q] : ran'[q][i] = ran[q][i]
      <4> TAKE q \in Pid
      <4>1. ran[q] \in Seq(Exe)
        BY DEF KidsRan
      <4>2. CASE q = p /\ x # NoExe
        <5>1. x \in Exe /\ ran'[q] = Append(ran[q], x)
          BY <3>3, <4>2
        <5> QED BY <4>1, <5>1
      <4>3. CASE ~(q = p /\ x # NoExe)
        BY <3>3, <4>3
      <4> QED BY <4>2, <4>3
    <3>6. \A q \in Pid : kids'[q] # NoExe => ran'[q] # <<>> /\ kids'[q] = ran'[q][Len(ran'[q])]
      <4> SUFFICES ASSUME NEW q \in Pid, kids'[q] # NoExe
                   PROVE  ran'[q] # <<>> /\ kids'[q] = ran'[q][Len(ran'[q])]
        OBVIOUS
      <4>1. ran[q] \in Seq(Exe)
        BY DEF KidsRan
      <4>2. CASE q = p
        <5>1. kids'[q] = x /\ x \in Exe
          BY <3>2, <4>2 DEF KidsRan
        <5>2. ran'[q] = Append(ran[q], x)
          BY <3>3, <4>2, <5>1
        <5> QED BY <4>1, <5>1, <5>2
      <4>3. CASE q # p
        BY <3>2, <3>3, <4>3 DEF KidsRan
      <4> QED BY <4>2, <4>3
    <3>7. KidsRan'
      BY <3>1, <3>2, <3>4, <3>5, <3>6 DEF KidsRan
    <3>8. ChildrenAreReal'
      BY <3>1, <3>5, HistoryKeepsChildren
    <3> QED BY <3>7, <3>8
  <2>2. CASE TargetExits
    <3>1. UNCHANGED <<phase, todo, children, current, ran>> /\ kids' = [p \in Pid |-> NoExe]
      BY <2>2 DEF TargetExits, procVars
    <3>2. KidsRan'
      BY <3>1 DEF KidsRan
    <3> QED BY <3>1, <3>2, HistoryKeepsChildren
  <2>3. CASE ChildrenOf
    <3>1. UNCHANGED <<kids, ran, children, current>> /\ phase' = [phase EXCEPT !["proc"] = "info"]
      BY <2>3 DEF ChildrenOf, Goto, targetVars
    <3>2. KidsRan'
      BY <2>3, <3>1 DEF ChildrenOf, KidsRan, Collector, Phases
    <3> QED BY <3>1, <3>2, HistoryKeepsChildren
  <2>4. ASSUME NEW p \in Pid, ChildPath(p)
        PROVE  KidsRan' /\ ChildrenAreReal'
    <3>1. /\ UNCHANGED <<kids, ran, children, todo>> /\ phase' = [phase EXCEPT !["proc"] = "hash"]
          /\ current' = <<p, kids[p]>>
      BY <2>4 DEF ChildPath, Goto, targetVars
    <3>2. kids[p] # NoExe => \E i \in DOMAIN ran[p] : ran[p][i] = kids[p]
      <4>1. ran[p] \in Seq(Exe)
        BY DEF KidsRan
      <4> QED BY <4>1 DEF KidsRan
    <3>3. KidsRan'
      BY <3>1, <3>2 DEF KidsRan, Collector, Phases
    <3> QED BY <3>1, <3>3, HistoryKeepsChildren
  <2>5. CASE ChildHash
    <3> DEFINE p == current[1]
               n == [path |-> current[2], hash |-> kids[p], seen |-> TRUE]
    <3>1. /\ UNCHANGED <<kids, ran>> /\ phase' = [phase EXCEPT !["proc"] = "info"]
          /\ children' = [children EXCEPT ![p] = n] /\ todo' = todo \ {p}
      BY <2>5 DEF ChildHash, Goto, targetVars, Info
    <3>2. /\ p \in Pid /\ current[2] \in Exe \cup {NoExe} /\ kids[p] \in Exe \cup {NoExe}
          /\ ran[p] \in Seq(Exe)
          /\ current[2] # NoExe => \E i \in DOMAIN ran[p] : ran[p][i] = current[2]
          /\ kids[p] # NoExe => ran[p] # <<>> /\ kids[p] = ran[p][Len(ran[p])]
      BY <2>5 DEF ChildHash, Now, KidsRan
    <3>3. KidsRan'
      BY <3>1, <3>2 DEF KidsRan, Collector, Phases
    <3>4. /\ {n.path, n.hash} \subseteq {NoExe} \cup {ran[p][i] : i \in DOMAIN ran[p]}
          /\ n.path # NoExe /\ n.hash # NoExe =>
               \E i, j \in DOMAIN ran[p] : ran[p][i] = n.path /\ ran[p][j] = n.hash /\ i <= j
      <4>1. kids[p] # NoExe => /\ Len(ran[p]) \in DOMAIN ran[p]
                              /\ \A i \in DOMAIN ran[p] : i <= Len(ran[p])
        BY <3>2
      <4> QED BY <3>2, <4>1
    <3>5. ChildrenAreReal'
      <4> HIDE DEF p, n
      <4> SUFFICES ASSUME NEW q \in Pid, children'[q].seen
                   PROVE  LET c == children'[q]
                              At(x) == {i \in DOMAIN ran[q] : ran[q][i] = x}
                          IN  /\ {c.path, c.hash} \subseteq {NoExe} \cup {ran[q][i] : i \in DOMAIN ran[q]}
                              /\ c.path # NoExe /\ c.hash # NoExe =>
                                   \E i \in At(c.path), j \in At(c.hash) : i <= j
        BY <3>1 DEF ChildrenAreReal
      <4>1. CASE q = p
        <5>1. children'[q] = n
          BY <3>1, <3>2, <4>1 DEF KidsRan
        <5> QED BY <3>4, <4>1, <5>1
      <4>2. CASE q # p
        <5>1. children'[q] = children[q]
          BY <3>1, <4>2 DEF KidsRan
        <5> QED BY <5>1 DEF ChildrenAreReal
      <4> QED BY <4>1, <4>2
    <3> QED BY <3>3, <3>5
  <2>6. CASE \/ SocketInodes \/ ParseTables \/ InitialUID \/ ReadEUID \/ ReadMaps
    <3>1. UNCHANGED <<kids, ran, todo, children, current>>
      BY <2>6 DEF SocketInodes, ParseTables, InitialUID, ReadEUID, ReadMaps, targetVars, procVars
    <3>2. phase' \in [Collector -> Phases] /\ (phase'["proc"] = "hash" => phase["proc"] = "hash")
      BY <2>0, <2>6 DEF SocketInodes, ParseTables, InitialUID, ReadEUID, ReadMaps, Goto, Collector, Phases
    <3> QED BY <3>1, <3>2, OthersKeepChildren
  <2>7. ASSUME NEW c \in Collector, Tick(c) \/ Finish(c)
        PROVE  KidsRan' /\ ChildrenAreReal'
    <3>1. UNCHANGED <<kids, ran, todo, children, current>>
      BY <2>7 DEF Tick, Finish, targetVars, procVars
    <3>2. \E p \in {"inodes", "list", "maps", "done"} : phase' = [phase EXCEPT ![c] = p]
      BY <2>7 DEF Tick, Finish, Goto, PollPhase, Collector
    <3>3. phase' \in [Collector -> Phases] /\ (phase'["proc"] = "hash" => phase["proc"] = "hash")
      BY <2>0, <3>2 DEF Collector, Phases
    <3> QED BY <3>1, <3>3, OthersKeepChildren
  <2>8. CASE KernelReturns
    <3>1. UNCHANGED <<kids, ran, todo, children, current>>
      BY <2>8 DEF KernelReturns, targetVars, procVars
    <3>2. phase' = phase \/ phase' = [c \in Collector |-> "gone"]
      BY <2>8 DEF KernelReturns
    <3>3. phase' \in [Collector -> Phases] /\ (phase'["proc"] = "hash" => phase["proc"] = "hash")
      BY <2>0, <3>2 DEF Collector, Phases
    <3> QED BY <3>1, <3>3, OthersKeepChildren
  <2>9. CASE UNCHANGED <<phase, kids, ran, todo, children, current>>
    BY <2>0, <2>9, OthersKeepChildren
  <2>10. \/ (\E s \in Sock, m \in Modes \cup {"closed"} : SocketsChange(s, m)) \/ (\E u \in Uid : UidChanges(u))
         \/ (\E a \in Addr, m \in Mappings : MapsChange(a, m)) \/ WaitReturns \/ UNCHANGED vars
         => \/ UNCHANGED <<phase, kids, ran, todo, children, current>>
            \/ \E s \in Sock, m \in Modes \cup {"closed"} : SocketsChange(s, m)
    BY DEF UidChanges, MapsChange, Change, WaitReturns, vars, targetVars, procVars
  <2>11. ASSUME NEW s \in Sock, NEW m \in Modes \cup {"closed"}, SocketsChange(s, m)
         PROVE  UNCHANGED <<phase, kids, ran, todo, children, current>>
    BY <2>11 DEF SocketsChange, Change, procVars
  <2> QED
    BY <2>1, <2>2, <2>3, <2>4, <2>5, <2>6, <2>7, <2>8, <2>9, <2>10, <2>11 DEF Next
<1> QED
  BY <1>1, <1>2, PTL DEF Spec

(* No child is reported with an executable its pid did not run, nor with the *)
(* hash of a program that the one at the reported path replaced.             *)
THEOREM ChildrenCorrect == Spec => []ChildrenAreReal
<1> QED
  BY ChildrenAlways, PTL

-----------------------------------------------------------------------------
(* The part of the target that has not changed since the start is part of    *)
(* what it is now, and of a dead target there is none.                       *)
KeptIsNow ==
  /\ kids \in [Pid -> Exe \cup {NoExe}] /\ maps \in [Addr -> Mappings \cup {Unmapped}]
  /\ owned \in [Sock -> Mode \cup {"closed"}]
  /\ kept \in [socks : [Sock -> Mode \cup {"closed"}], kids : [Pid -> Exe \cup {NoExe}],
               maps : [Addr -> Mappings \cup {Unmapped}]]
  /\ \A s \in Sock : kept.socks[s] \in {"closed", owned[s]}
  /\ \A p \in Pid : kept.kids[p] \in {NoExe, kids[p]}
  /\ \A a \in Addr : kept.maps[a] \in {Unmapped, maps[a]}
  /\ alive \/ \A s \in Sock : owned[s] = "closed"

(* A step can only take from it.                                             *)
KeptShrinks ==
  /\ \A s \in Sock : kept'.socks[s] \in {"closed", kept.socks[s]}
  /\ \A p \in Pid : kept'.kids[p] \in {NoExe, kept.kids[p]}
  /\ \A a \in Addr : kept'.maps[a] \in {Unmapped, kept.maps[a]}

(* Only the target's own steps touch it.                                     *)
LEMMA TargetStep ==
  ASSUME [Next]_vars
  PROVE  \/ \E s \in Sock, m \in Modes \cup {"closed"} : SocketsChange(s, m)
         \/ \E p \in Pid, x \in Exe \cup {NoExe} : ChildChanges(p, x)
         \/ \E a \in Addr, m \in Mappings : MapsChange(a, m)
         \/ TargetExits
         \/ UNCHANGED <<alive, owned, kids, maps, kept>>
<1>1. (\E u \in Uid : UidChanges(u)) => UNCHANGED <<alive, owned, kids, maps, kept>>
  BY DEF UidChanges
<1>2. \/ SocketInodes \/ ParseTables \/ InitialUID \/ ChildrenOf
      \/ (\E p \in Pid : ChildPath(p)) \/ ChildHash \/ ReadEUID \/ ReadMaps
      \/ (\E c \in Collector : Tick(c)) \/ (\E c \in Collector : Finish(c))
      \/ KernelReturns \/ WaitReturns \/ UNCHANGED vars
      => UNCHANGED targetVars
  BY DEF SocketInodes, ParseTables, InitialUID, ChildrenOf, ChildPath, ChildHash,
         ReadEUID, ReadMaps, Tick, Finish, KernelReturns, WaitReturns, vars
<1> QED BY <1>1, <1>2 DEF Next, targetVars

(* Every step keeps it right and takes at most from it.                      *)
LEMMA KeptStep ==
  ASSUME KeptIsNow, [Next]_vars
  PROVE  KeptIsNow' /\ KeptShrinks
<1>0. kept = [socks |-> kept.socks, kids |-> kept.kids, maps |-> kept.maps]
  BY DEF KeptIsNow
<1>1. ASSUME NEW s \in Sock, NEW m \in Modes \cup {"closed"}, SocketsChange(s, m)
      PROVE  KeptIsNow' /\ KeptShrinks
  <2>1. UNCHANGED <<alive, kids, maps>> /\ alive /\ owned' = [owned EXCEPT ![s] = m]
    BY <1>1 DEF SocketsChange, Change
  <2>2. kept' = [socks |-> [kept.socks EXCEPT ![s] = "closed"], kids |-> kept.kids,
                 maps |-> kept.maps]
    BY <1>0, <1>1 DEF SocketsChange
  <2>3. owned' \in [Sock -> Mode \cup {"closed"}]
    BY <2>1, CollectorsAssumption DEF KeptIsNow
  <2> QED BY <2>1, <2>2, <2>3 DEF KeptIsNow, KeptShrinks
<1>2. ASSUME NEW p \in Pid, NEW x \in Exe \cup {NoExe}, ChildChanges(p, x)
      PROVE  KeptIsNow' /\ KeptShrinks
  <2>1. UNCHANGED <<alive, owned, maps>> /\ kids' = [kids EXCEPT ![p] = x]
    BY <1>2 DEF ChildChanges
  <2>2. kept' = [socks |-> kept.socks, kids |-> [kept.kids EXCEPT ![p] = NoExe],
                 maps |-> kept.maps]
    BY <1>0, <1>2 DEF ChildChanges
  <2> QED BY <2>1, <2>2 DEF KeptIsNow, KeptShrinks
<1>3. ASSUME NEW a \in Addr, NEW m \in Mappings, MapsChange(a, m)
      PROVE  KeptIsNow' /\ KeptShrinks
  <2>1. UNCHANGED <<alive, owned, kids>> /\ maps' = [maps EXCEPT ![a] = m]
    BY <1>3 DEF MapsChange
  <2>2. kept' = [socks |-> kept.socks, kids |-> kept.kids,
                 maps |-> [kept.maps EXCEPT ![a] = Unmapped]]
    BY <1>0, <1>3 DEF MapsChange
  <2> QED BY <2>1, <2>2 DEF KeptIsNow, KeptShrinks
<1>4. CASE TargetExits
  <2>1. /\ owned' = [s \in Sock |-> "closed"] /\ kids' = [p \in Pid |-> NoExe]
        /\ maps' = [a \in Addr |-> Unmapped]
        /\ kept' = [socks |-> owned', kids |-> kids', maps |-> maps']
    BY <1>4 DEF TargetExits
  <2> QED BY <2>1 DEF KeptIsNow, KeptShrinks
<1>5. CASE UNCHANGED <<alive, owned, kids, maps, kept>>
  BY <1>5 DEF KeptIsNow, KeptShrinks
<1> QED BY <1>1, <1>2, <1>3, <1>4, <1>5, TargetStep

-----------------------------------------------------------------------------
(* What each collector has of it, by the place where its goroutine is.       *)
NetHasKept ==
  /\ phase["net"] = "tables" => \A s \in Sock : kept.socks[s] # "closed" => s \in inodes
  /\ phase["net"] \in {"wait", "done"} =>
       \A s \in Sock : kept.socks[s] \in Reported => <<s, kept.socks[s]>> \in netSeen

ChildKept(p) ==
  kept.kids[p] # NoExe =>
    children[p] = [path |-> kept.kids[p], hash |-> kept.kids[p], seen |-> TRUE]

ProcHasKept ==
  /\ \A p \in Pid : children[p].seen => ChildKept(p)
  /\ phase["proc"] \in {"info", "hash"} => \A p \in Pid : p \in todo \/ ChildKept(p)
  /\ phase["proc"] = "hash" => kept.kids[current[1]] \in {NoExe, current[2]}
  /\ phase["proc"] \in {"wait", "done"} => \A p \in Pid : ChildKept(p)

MapShown(m, a) ==
  /\ m.exec /\ (m.write \/ m.backing \in {"anon", "deleted"}) =>
       regions[a].suspicious = m.write
         /\ (regions[a].backedBy = "file" <=> m.backing = "file")
  /\ m.backing = "file" => a \in mapped
  /\ m.backing \in {"anon", "deleted"} /\ m.write /\ m.big => a \in large

MemHasKept ==
  phase["mem"] \in {"wait", "done"} => \A a \in Addr : MapShown(kept.maps[a], a)

(* A step that leaves a collector's place and results alone, or only moves   *)
(* it where less is asked, keeps what it has.                                *)
LEMMA NetKeeps ==
  ASSUME KeptIsNow, KeptShrinks, NetHasKept, UNCHANGED netVars,
         \/ phase'["net"] = phase["net"]
         \/ phase'["net"] \in {"inodes", "gone"}
         \/ phase["net"] = "wait" /\ phase'["net"] = "done"
  PROVE  NetHasKept'
<1>1. \A s \in Sock : kept'.socks[s] \in Reported =>
        kept'.socks[s] = kept.socks[s]
  BY DEF KeptShrinks, Reported
<1> QED BY <1>1 DEF NetHasKept, KeptShrinks, netVars

(* The same for CollectProcess.                                             *)
LEMMA ProcKeeps ==
  ASSUME KeptIsNow, KeptShrinks, KidsRan, ProcHasKept, UNCHANGED <<todo, current, children>>,
         \/ phase'["proc"] = phase["proc"]
         \/ phase'["proc"] \in {"list", "gone"}
         \/ phase["proc"] = "wait" /\ phase'["proc"] = "done"
  PROVE  ProcHasKept'
<1>1. \A p \in Pid : ChildKept(p) => ChildKept(p)'
  BY DEF ChildKept, KeptShrinks
<1>2. phase["proc"] = "hash" => current[1] \in Pid
  BY DEF KidsRan
<1>3. phase'["proc"] = "hash" => kept'.kids[current'[1]] \in {NoExe, current'[2]}
  BY <1>2 DEF ProcHasKept, KeptShrinks
<1>4. \A p \in Pid : children'[p].seen => ChildKept(p)'
  BY <1>1 DEF ProcHasKept
<1>5. phase'["proc"] \in {"info", "hash"} => \A p \in Pid : p \in todo' \/ ChildKept(p)'
  BY <1>1 DEF ProcHasKept
<1>6. phase'["proc"] \in {"wait", "done"} => \A p \in Pid : ChildKept(p)'
  BY <1>1 DEF ProcHasKept
<1> QED BY <1>3, <1>4, <1>5, <1>6 DEF ProcHasKept

(* The same for CollectMemory.                                              *)
LEMMA MemKeeps ==
  ASSUME KeptIsNow, KeptShrinks, MemHasKept, UNCHANGED memVars,
         \/ phase'["mem"] = phase["mem"]
         \/ phase'["mem"] \in {"maps", "gone"}
         \/ phase["mem"] = "wait" /\ phase'["mem"] = "done"
  PROVE  MemHasKept'
<1> SUFFICES ASSUME phase["mem"] \in {"wait", "done"}, NEW a \in Addr
             PROVE  MapShown(kept.maps[a], a)'
  BY DEF MemHasKept
<1>1. MapShown(kept.maps[a], a)
  BY DEF MemHasKept
<1>2. kept'.maps[a] = kept.maps[a] \/ kept'.maps[a] = Unmapped
  BY DEF KeptShrinks
<1> QED BY <1>1, <1>2 DEF MapShown, Unmapped, memVars
(* The steps of a collector's own poll find it.                              *)
LEMMA NetFinds ==
  ASSUME KeptIsNow, KeptShrinks, NetHasKept, phase \in [Collector -> Phases],
         SocketInodes \/ ParseTables
  PROVE  NetHasKept'
<1>0. "net" \in Collector /\ UNCHANGED kept
  BY DEF Collector, SocketInodes, ParseTables, targetVars
<1>1. CASE SocketInodes
  <2>1. /\ phase'["net"] = (IF alive THEN "tables" ELSE "wait")
        /\ inodes' = {s \in Sock : owned[s] # "closed"}
    BY <1>0, <1>1 DEF SocketInodes, Goto
  <2>2. \A s \in Sock : kept.socks[s] # "closed" => s \in inodes' /\ alive
    BY <2>1 DEF KeptIsNow
  <2>3. "closed" \notin Reported
    BY DEF Reported
  <2> QED BY <1>0, <2>1, <2>2, <2>3 DEF NetHasKept
<1>2. CASE ParseTables
  <2>1. /\ phase["net"] = "tables" /\ phase'["net"] = "wait"
        /\ netSeen' = IF alive THEN netSeen \cup OwnSockets(Rows) ELSE netSeen
    BY <1>0, <1>2 DEF ParseTables, Now, Goto
  <2>2. ASSUME NEW s \in Sock, kept.socks[s] \in Reported
        PROVE  <<s, kept.socks[s]>> \in netSeen'
    <3>1. kept.socks[s] # "closed" /\ kept.socks[s] = owned[s] /\ alive
      BY <2>2 DEF Reported, KeptIsNow
    <3>2. s \in inodes /\ <<s, owned[s]>> \in Rows
      BY <2>1, <3>1 DEF NetHasKept, Rows
    <3>3. <<s, owned[s]>> \in OwnSockets(Rows)
      BY <2>2, <3>1, <3>2 DEF OwnSockets
    <3> QED BY <2>1, <3>1, <3>3
  <2> QED BY <1>0, <2>1, <2>2 DEF NetHasKept
<1> QED BY <1>1, <1>2

(* A child is read by its pid, and until then it is among those to read.     *)
LEMMA ProcFinds ==
  ASSUME KeptIsNow, KeptShrinks, KidsRan, ProcHasKept,
         \/ InitialUID \/ ChildrenOf \/ ChildHash \/ ReadEUID
         \/ \E p \in Pid : ChildPath(p)
  PROVE  ProcHasKept'
<1>0. "proc" \in Collector /\ UNCHANGED <<kept, kids>> /\ phase \in [Collector -> Phases]
  BY DEF Collector, KidsRan, InitialUID, ChildrenOf, ChildHash, ReadEUID, ChildPath, targetVars
<1>1. CASE InitialUID
  <2>1. phase'["proc"] = "list" /\ UNCHANGED <<todo, current, children>>
    BY <1>0, <1>1 DEF InitialUID, Goto
  <2> QED BY <2>1, ProcKeeps
<1>2. CASE ChildrenOf
  <2>1. /\ phase'["proc"] = "info" /\ UNCHANGED <<current, children>>
        /\ todo' = {p \in Pid : kids[p] # NoExe /\ ~children[p].seen}
    BY <1>0, <1>2 DEF ChildrenOf, Goto
  <2>2. \A p \in Pid : p \in todo' \/ ChildKept(p)
    <3> SUFFICES ASSUME NEW p \in Pid, p \notin todo' PROVE ChildKept(p)
      OBVIOUS
    <3>1. kids[p] = NoExe \/ children[p].seen
      BY <2>1
    <3>2. kids[p] = NoExe => kept.kids[p] = NoExe
      BY DEF KeptIsNow
    <3> QED BY <3>1, <3>2 DEF ChildKept, ProcHasKept
  <2> QED BY <1>0, <2>1, <2>2 DEF ProcHasKept, ChildKept
<1>3. ASSUME NEW p \in Pid, ChildPath(p) PROVE ProcHasKept'
  <2>1. /\ phase["proc"] = "info" /\ phase'["proc"] = "hash"
        /\ UNCHANGED <<todo, children>> /\ current' = <<p, kids[p]>>
    BY <1>0, <1>3 DEF ChildPath, Now, Goto
  <2>2. kept.kids[p] \in {NoExe, kids[p]}
    BY DEF KeptIsNow
  <2> QED BY <1>0, <2>1, <2>2 DEF ProcHasKept, ChildKept
<1>4. CASE ChildHash
  <2> DEFINE p == current[1]
  <2>1. /\ phase["proc"] = "hash" /\ phase'["proc"] = "info" /\ todo' = todo \ {p}
        /\ children' = [children EXCEPT ![p] =
                          [path |-> current[2], hash |-> kids[p], seen |-> TRUE]]
    BY <1>0, <1>4 DEF ChildHash, Now, Goto, Info
  <2>2. p \in Pid /\ kept.kids[p] \in {NoExe, current[2]} /\ kept.kids[p] \in {NoExe, kids[p]}
    BY <2>1 DEF KidsRan, ProcHasKept, KeptIsNow
  <2>3. \A q \in Pid : children'[q] = IF q = p THEN [path |-> current[2], hash |-> kids[p],
                                                     seen |-> TRUE]
                                      ELSE children[q]
    BY <2>1, <2>2 DEF KidsRan
  <2> HIDE DEF p
  <2>4. \A q \in Pid : q = p \/ ChildKept(q) => ChildKept(q)'
    BY <1>0, <2>2, <2>3 DEF ChildKept
  <2>5. \A q \in Pid : children'[q].seen => ChildKept(q)'
    BY <2>3, <2>4 DEF ProcHasKept
  <2>6. \A q \in Pid : q \in todo' \/ ChildKept(q)'
    BY <2>1, <2>4 DEF ProcHasKept
  <2> QED BY <2>1, <2>5, <2>6 DEF ProcHasKept
<1>5. CASE ReadEUID
  <2>1. /\ phase["proc"] = "info" /\ phase'["proc"] = "wait" /\ todo = {}
        /\ UNCHANGED <<todo, current, children>>
    BY <1>0, <1>5 DEF ReadEUID, Now, Goto
  <2> QED BY <1>0, <2>1 DEF ProcHasKept, ChildKept
<1> QED BY <1>1, <1>2, <1>3, <1>4, <1>5

(* One poll reads every range.                                               *)
LEMMA MemFinds ==
  ASSUME KeptIsNow, phase \in [Collector -> Phases], ReadMaps
  PROVE  MemHasKept'
<1> SUFFICES ASSUME NEW a \in Addr PROVE MapShown(kept.maps[a], a)'
  BY DEF MemHasKept
<1>1. /\ kept' = kept /\ kept.maps[a] \in {Unmapped, maps[a]}
      /\ maps[a] \in Mappings \cup {Unmapped}
  BY DEF ReadMaps, targetVars, KeptIsNow
<1>2. CASE kept.maps[a] = Unmapped
  BY <1>1, <1>2 DEF MapShown, Unmapped
<1>3. CASE kept.maps[a] # Unmapped
  <2> DEFINE m == maps[a]
  <2>1. kept'.maps[a] = m /\ m \in Mappings /\ m # Unmapped
    BY <1>1, <1>3
  <2>2. /\ m.backing \in {"file", "deleted", "anon"}
        /\ m.write \in BOOLEAN /\ m.exec \in BOOLEAN /\ m.big \in BOOLEAN
    BY <2>1, CollectorsAssumption
  <2>3. /\ regions'[a] = IF Recorded(m) THEN RegionOf(m) ELSE regions[a]
        /\ m.backing = "file" => a \in mapped'
        /\ AnonymousMapping(m) /\ m.write /\ m.big => a \in large'
    BY DEF ReadMaps
  <2> HIDE DEF m
  <2>4. m.exec /\ (m.write \/ m.backing \in {"anon", "deleted"}) =>
          regions'[a].suspicious = m.write
            /\ (regions'[a].backedBy = "file" <=> m.backing = "file")
    BY <2>2, <2>3 DEF Recorded, RegionOf, AnonymousMapping
  <2> QED BY <2>1, <2>3, <2>4 DEF MapShown, AnonymousMapping
<1> QED BY <1>2, <1>3

HasKept == KeptIsNow /\ NetHasKept /\ ProcHasKept /\ MemHasKept

(* Each collector keeps what it has of the lasting part of the target.       *)
LEMMA HasKeptStep ==
  ASSUME HasKept, KidsRan, [Next]_vars
  PROVE  HasKept'
<1>0. /\ KeptIsNow /\ NetHasKept /\ ProcHasKept /\ MemHasKept
      /\ KeptIsNow' /\ KeptShrinks /\ phase \in [Collector -> Phases]
  BY KeptStep DEF HasKept, KidsRan
<1>1. CASE SocketInodes \/ ParseTables
  <2>1. /\ UNCHANGED <<todo, current, children, memVars>>
        /\ \E p \in Phases : phase' = [phase EXCEPT !["net"] = p]
    BY <1>1 DEF SocketInodes, ParseTables, Goto, procVars, Phases
  <2>2. phase'["proc"] = phase["proc"] /\ phase'["mem"] = phase["mem"]
    BY <1>0, <2>1 DEF Collector
  <2> QED BY <1>0, <1>1, <2>1, <2>2, NetFinds, ProcKeeps, MemKeeps DEF HasKept
<1>2. CASE \/ InitialUID \/ ChildrenOf \/ ChildHash \/ ReadEUID
           \/ \E p \in Pid : ChildPath(p)
  <2>1. /\ UNCHANGED <<netVars, memVars>>
        /\ \E p \in Phases : phase' = [phase EXCEPT !["proc"] = p]
    BY <1>2 DEF InitialUID, ChildrenOf, ChildHash, ReadEUID, ChildPath, Goto, Phases
  <2>2. phase'["net"] = phase["net"] /\ phase'["mem"] = phase["mem"]
    BY <1>0, <2>1 DEF Collector
  <2> QED BY <1>0, <1>2, <2>1, <2>2, NetKeeps, ProcFinds, MemKeeps DEF HasKept
<1>3. CASE ReadMaps
  <2>1. /\ UNCHANGED <<netVars, todo, current, children>>
        /\ \E p \in Phases : phase' = [phase EXCEPT !["mem"] = p]
    BY <1>3 DEF ReadMaps, Goto, Phases, procVars
  <2>2. phase'["net"] = phase["net"] /\ phase'["proc"] = phase["proc"]
    BY <1>0, <2>1 DEF Collector
  <2> QED BY <1>0, <1>3, <2>1, <2>2, NetKeeps, ProcKeeps, MemFinds DEF HasKept
<1>4. ASSUME NEW c \in Collector, Tick(c) \/ Finish(c) PROVE HasKept'
  <2>1. /\ UNCHANGED <<netVars, todo, current, children, memVars>>
        /\ phase[c] = "wait"
        /\ phase' = [phase EXCEPT ![c] = PollPhase[c]] \/ phase' = [phase EXCEPT ![c] = "done"]
    BY <1>4 DEF Tick, Finish, Now, Goto, procVars
  <2>2. /\ \/ phase'["net"] = phase["net"] \/ phase'["net"] = "inodes"
           \/ phase["net"] = "wait" /\ phase'["net"] = "done"
        /\ \/ phase'["proc"] = phase["proc"] \/ phase'["proc"] = "list"
           \/ phase["proc"] = "wait" /\ phase'["proc"] = "done"
        /\ \/ phase'["mem"] = phase["mem"] \/ phase'["mem"] = "maps"
           \/ phase["mem"] = "wait" /\ phase'["mem"] = "done"
    BY <1>0, <2>1 DEF Collector, PollPhase
  <2> QED BY <1>0, <2>1, <2>2, NetKeeps, ProcKeeps, MemKeeps DEF HasKept
<1>5. CASE KernelReturns
  <2>1. /\ UNCHANGED <<netVars, todo, current, children, memVars>>
        /\ phase' = phase \/ phase' = [c \in Collector |-> "gone"]
    BY <1>5 DEF KernelReturns, procVars
  <2>2. /\ phase'["net"] = phase["net"] \/ phase'["net"] = "gone"
        /\ phase'["proc"] = phase["proc"] \/ phase'["proc"] = "gone"
        /\ phase'["mem"] = phase["mem"] \/ phase'["mem"] = "gone"
    BY <2>1 DEF Collector
  <2> QED BY <1>0, <2>1, <2>2, NetKeeps, ProcKeeps, MemKeeps DEF HasKept
<1>6. CASE UNCHANGED <<phase, netVars, procVars, memVars>>
  <2>1. UNCHANGED <<todo, current, children>>
    BY <1>6 DEF procVars
  <2> QED BY <1>0, <1>6, <2>1, NetKeeps, ProcKeeps, MemKeeps DEF HasKept
<1>7. \/ (\E s \in Sock, m \in Modes \cup {"closed"} : SocketsChange(s, m)) \/ (\E u \in Uid : UidChanges(u))
      \/ (\E p \in Pid, x \in Exe \cup {NoExe} : ChildChanges(p, x))
      \/ (\E a \in Addr, m \in Mappings : MapsChange(a, m))
      \/ TargetExits \/ WaitReturns \/ UNCHANGED vars
      => UNCHANGED <<phase, netVars, procVars, memVars>>
  BY DEF SocketsChange, UidChanges, ChildChanges, MapsChange, Change, TargetExits,
         WaitReturns, vars
<1> QED BY <1>1, <1>2, <1>3, <1>4, <1>5, <1>6, <1>7 DEF Next

(* Whatever of the target stays for the whole window is in the result: each  *)
(* collector has read it before it first waits, and does not lose it.        *)
THEOREM LastingCorrect == Spec => []LastingStateReported
<1>1. Init => HasKept
  <2> SUFFICES ASSUME Init PROVE HasKept
    OBVIOUS
  <2>1. KeptIsNow
    BY CollectorsAssumption DEF Init, KeptIsNow
  <2>2. phase = [net |-> "inodes", proc |-> "uid0", mem |-> "maps"]
    BY DEF Init, FirstPhase
  <2>3. \A p \in Pid : ~children[p].seen
    BY DEF Init, NoInfo
  <2> QED BY <2>1, <2>2, <2>3 DEF HasKept, NetHasKept, ProcHasKept, MemHasKept
<1>2. HasKept /\ KidsRan /\ [Next]_vars => HasKept'
  BY HasKeptStep
<1>3. HasKept /\ ResultsAreFinal => LastingStateReported
  <2> SUFFICES ASSUME HasKept, ResultsAreFinal, main = "returned"
               PROVE  /\ \A s \in Sock :
                           kept.socks[s] \in Reported => <<s, kept.socks[s]>> \in netSeen
                      /\ \A p \in Pid : ChildKept(p)
                      /\ \A a \in Addr : MapShown(kept.maps[a], a)
    BY DEF LastingStateReported, ChildKept, MapShown
  <2>1. phase["net"] = "done" /\ phase["proc"] = "done" /\ phase["mem"] = "done"
    BY DEF ResultsAreFinal, Collector
  <2> QED BY <2>1 DEF HasKept, NetHasKept, ProcHasKept, MemHasKept
<1> QED BY <1>1, <1>2, <1>3, ChildrenAlways, ResultsCorrect, PTL DEF Spec
=============================================================================
