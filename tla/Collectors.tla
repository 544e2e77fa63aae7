----------------------------- MODULE Collectors -----------------------------
(***************************************************************************)
(* captureAll of cmd/scrutiny/main.go on Linux: while the kernel backend   *)
(* holds the foreground, three goroutines poll /proc for the target's      *)
(* sockets (network.Collect), children and effective uid                   *)
(* (procfs.CollectProcess) and memory map (procfs.CollectMemory), each     *)
(* until its own deadline, and captureAll waits for all of them.           *)
(*                                                                         *)
(* A poll is as many steps as it reads files that can disagree, and the    *)
(* target goes on changing in between.                                     *)
(***************************************************************************)
EXTENDS Integers, Sequences, FiniteSets

CONSTANTS
  Sock,        (* inodes of sockets the target may open                      *)
  Foreign,     (* those of sockets of other processes in the same tables     *)
  Modes,       (* what an open socket may be, see Mode                       *)
  Pid, Exe,    (* its children and the executables they may run              *)
  NoExe,       (* no such child; also an unreadable /proc/<pid>/exe          *)
  Uid, StartUid,  (* effective uids, that of the target at first             *)
  Addr,        (* address ranges                                             *)
  Mappings,    (* what may be mapped at one                                  *)
  MaxChanges   (* bound: changes of the target, but for its exit             *)

(* A range with nothing behind it is not mapped.                             *)
Unmapped == [backing |-> "none", write |-> FALSE, exec |-> FALSE, big |-> FALSE]

(* What a socket is that network.Collect reports: a TCP listener, a TCP      *)
(* connection (established or SYN sent) or a UDP socket with a remote port, a *)
(* raw or packet socket.  "idle" stands for the rest: TCP in another state,   *)
(* unconnected UDP, Unix sockets, which are in no table that is read.         *)
Reported == {"listening", "connected", "raw"}
Mode == Reported \cup {"idle"}

ASSUME CollectorsAssumption ==
  /\ Modes \subseteq Mode
  /\ Sock \cap Foreign = {} /\ NoExe \notin Exe
  /\ Uid \subseteq Nat /\ StartUid \in Uid /\ MaxChanges \in Nat
  /\ Mappings \subseteq [backing : {"none", "file", "deleted", "anon"},
                         write : BOOLEAN, exec : BOOLEAN, big : BOOLEAN]
  /\ \A m \in Mappings : m.backing = "none" => m = Unmapped

Collector == {"net", "proc", "mem"}
NoRegion == [backedBy |-> "none", suspicious |-> FALSE]
NoInfo == [path |-> NoExe, hash |-> NoExe, seen |-> FALSE]

VARIABLES
  main,       (* where captureAll is                                         *)
  wg,         (* the WaitGroup counter                                       *)
  phase,      (* per Collector: where its goroutine is                       *)
  alive, owned, kids, euid, maps, changes,   (* the target                   *)
  inodes, netSeen,                           (* network.Collect              *)
  initialUID, todo, current, children, uidChanges,   (* CollectProcess       *)
  regions, mapped, large,                    (* CollectMemory                *)
  ever,       (* history: sockets the target ever had, each with its mode    *)
  ran,        (* history: executables a child's pid ran, in order            *)
  kept        (* history: sockets, children and ranges unchanged so far      *)

targetVars == <<alive, owned, kids, euid, maps, changes, ever, ran, kept>>
netVars  == <<inodes, netSeen>>
procVars == <<initialUID, todo, current, children, uidChanges>>
memVars  == <<regions, mapped, large>>
mainVars == <<main, wg>>
vars == <<mainVars, phase, targetVars, netVars, procVars, memVars>>

WaitCountShort == 2  (* mutant: one goroutine is not counted *)
WaitCountLong  == 4  (* mutant: one too many is counted *)
WaitCount == 3

(* Each collector samples before it first waits; the mutant waits first.    *)
FirstPhaseWait == [net |-> "wait", proc |-> "wait", mem |-> "wait"]
FirstPhase == [net |-> "inodes", proc |-> "uid0", mem |-> "maps"]

Init ==
  /\ main = "kernel" /\ wg = WaitCount
  /\ phase = FirstPhase
  /\ alive = TRUE /\ owned \in [Sock -> Modes \cup {"closed"}] /\ changes = 0
  /\ kids \in [Pid -> Exe \cup {NoExe}] /\ euid = StartUid
  /\ maps \in [Addr -> Mappings]
  /\ inodes = {} /\ netSeen = {}
  /\ initialUID = -1 /\ todo = {} /\ current = <<>>
  /\ children = [p \in Pid |-> NoInfo] /\ uidChanges = <<>>
  /\ regions = [a \in Addr |-> NoRegion] /\ mapped = {} /\ large = {}
  /\ ever = {<<s, owned[s]>> : s \in Sock} /\ kept = [socks |-> owned, kids |-> kids, maps |-> maps]
  /\ ran = [p \in Pid |-> IF kids[p] = NoExe THEN <<>> ELSE <<kids[p]>>]

Now(c, p) == phase[c] = p
Goto(c, p) == phase' = [phase EXCEPT ![c] = p]

----------------------------------------------------------------------------
(* The target.                                                              *)

Change ==
  /\ main # "fatal" /\ alive /\ changes < MaxChanges /\ changes' = changes + 1
  /\ UNCHANGED <<mainVars, phase, netVars, procVars, memVars>>

(* A socket is opened, begins to listen, connects, is shut down or closed.  *)
SocketsChange(s, m) ==
  /\ Change /\ m # owned[s] /\ owned' = [owned EXCEPT ![s] = m]
  /\ ever' = ever \cup {<<s, m>>} /\ kept' = [kept EXCEPT !.socks[s] = "closed"]
  /\ UNCHANGED <<alive, kids, euid, maps, ran>>

(* A child is forked or execs, or ends; its pid may serve another one later. *)
ChildChanges(p, x) ==
  /\ Change /\ x # kids[p] /\ kids' = [kids EXCEPT ![p] = x]
  /\ ran' = IF x = NoExe THEN ran ELSE [ran EXCEPT ![p] = Append(@, x)]
  /\ kept' = [kept EXCEPT !.kids[p] = NoExe]
  /\ UNCHANGED <<alive, owned, euid, maps, ever>>

UidChanges(u) ==
  /\ Change /\ u # euid /\ euid' = u
  /\ UNCHANGED <<alive, owned, kids, maps, ever, ran, kept>>

MapsChange(a, m) ==
  /\ Change /\ m # maps[a] /\ maps' = [maps EXCEPT ![a] = m]
  /\ kept' = [kept EXCEPT !.maps[a] = Unmapped]
  /\ UNCHANGED <<alive, owned, kids, euid, ever, ran>>

TargetExits ==
  /\ main # "fatal" /\ alive /\ alive' = FALSE
  /\ owned' = [s \in Sock |-> "closed"]
  /\ kids' = [p \in Pid |-> NoExe] /\ maps' = [a \in Addr |-> Unmapped]
  /\ kept' = [socks |-> owned', kids |-> kids', maps |-> maps']
  /\ UNCHANGED <<euid, changes, ever, ran, mainVars, phase, netVars, procVars,
                 memVars>>

----------------------------------------------------------------------------
(* network.Collect's poll: the socket inodes behind /proc/<pid>/fd, then    *)
(* the tables of the network namespace, filtered by these inodes.           *)
SocketInodes ==
  /\ Now("net", "inodes")
  /\ inodes' = {s \in Sock : owned[s] # "closed"} /\ netSeen' = netSeen
  /\ Goto("net", IF alive THEN "tables" ELSE "wait")
  /\ UNCHANGED <<mainVars, targetVars, procVars, memVars>>

(* The tables have a row for every socket of the namespace.                  *)
Rows == {<<s, owned[s]>> : s \in {t \in Sock : owned[t] # "closed"}}
          \cup (Foreign \X Reported)

(* Mutant: the rows are not filtered by inode.                              *)
OwnSocketsAll(rows) == {r \in rows : r[2] \in Reported}

(* parseProcNet, parseRawSockets, parsePacketSockets: rows of other inodes   *)
(* are skipped, and of the rest those that are neither listeners nor have a  *)
(* remote.                                                                   *)
OwnSockets(rows) == {r \in rows : r[1] \in inodes /\ r[2] \in Reported}

ParseTables ==
  /\ Now("net", "tables")
  /\ netSeen' = IF alive THEN netSeen \cup OwnSockets(Rows)
                ELSE netSeen
  /\ Goto("net", "wait") /\ inodes' = inodes
  /\ UNCHANGED <<mainVars, targetVars, procVars, memVars>>

----------------------------------------------------------------------------
(* CollectProcess: the uid at the start, then in each poll the children not *)
(* known by their pid, what /proc tells of each, and the uid.               *)
InitialUID ==
  /\ Now("proc", "uid0") /\ Goto("proc", "list")
  /\ initialUID' = IF alive THEN euid ELSE -1
  /\ UNCHANGED <<mainVars, targetVars, netVars, todo, current,
                 children, uidChanges, memVars>>

ChildrenOf ==
  /\ Now("proc", "list") /\ Goto("proc", "info")
  /\ todo' = {p \in Pid : kids[p] # NoExe /\ ~children[p].seen}
  /\ UNCHANGED <<mainVars, targetVars, netVars, initialUID, current,
                 children, uidChanges, memVars>>

(* childInfo reads the link /proc/<pid>/exe, hashExe later opens the file.  *)
ChildPath(p) ==
  /\ Now("proc", "info") /\ p \in todo
  /\ current' = <<p, kids[p]>> /\ Goto("proc", "hash")
  /\ UNCHANGED <<mainVars, targetVars, netVars, initialUID, todo,
                 children, uidChanges, memVars>>

(* Mutant: the hash is read first, the link after it.                       *)
InfoHashFirst(first, second) == [path |-> second, hash |-> first, seen |-> TRUE]
Info(first, second) == [path |-> first, hash |-> second, seen |-> TRUE]

ChildHash ==
  /\ Now("proc", "hash") /\ Goto("proc", "info")
  /\ LET p == current[1] IN
       /\ children' = [children EXCEPT ![p] = Info(current[2], kids[p])]
       /\ todo' = todo \ {p}
  /\ current' = <<>>
  /\ UNCHANGED <<mainVars, targetVars, netVars, initialUID, uidChanges, memVars>>

(* Only the first transition is recorded (uidFlagged).                      *)
ReadEUID ==
  /\ Now("proc", "info") /\ todo = {} /\ Goto("proc", "wait")
  /\ uidChanges' =
       IF initialUID # -1 /\ alive /\ uidChanges = <<>> /\ euid # initialUID
       THEN <<[from |-> initialUID, to |-> euid]>> ELSE uidChanges
  /\ UNCHANGED <<mainVars, targetVars, netVars, initialUID, todo,
                 current, children, memVars>>

----------------------------------------------------------------------------
(* CollectMemory's poll.  parseMaps: executable ranges that are anonymous,   *)
(* or writable whatever is behind them, files, and large anonymous writable  *)
(* ranges.  A deleted file counts as anonymous.                              *)
AnonymousMapping(m) == m.backing \in {"anon", "deleted"}

Recorded(m) == m.exec /\ (AnonymousMapping(m) \/ m.write)

RegionOf(m) == [backedBy |-> IF AnonymousMapping(m) THEN "anonymous" ELSE "file",
                suspicious |-> m.write]

(* The region record of the latest poll replaces an earlier one of the range. *)
ReadMaps ==
  /\ Now("mem", "maps") /\ Goto("mem", "wait")
  /\ regions' = [a \in Addr |-> IF Recorded(maps[a]) THEN RegionOf(maps[a]) ELSE regions[a]]
  /\ mapped' = mapped \cup {a \in Addr : maps[a].backing = "file"}
  /\ large' = large \cup {a \in Addr : /\ AnonymousMapping(maps[a])
                                       /\ maps[a].write /\ maps[a].big}
  /\ UNCHANGED <<mainVars, targetVars, netVars, procVars>>

----------------------------------------------------------------------------
(* The select loops and captureAll.                                         *)

PollPhase == [net |-> "inodes", proc |-> "list", mem |-> "maps"]

Tick(c) ==
  /\ Now(c, "wait") /\ Goto(c, PollPhase[c])
  /\ UNCHANGED <<mainVars, targetVars, netVars, procVars, memVars>>

(* The deadline case returns and the deferred wg.Done runs.  The deadline is *)
(* a channel of the goroutine's own: that it has fired shows in nothing but  *)
(* this case, so it is ready in any turn of the loop.                        *)
Finish(c) ==
  /\ Now(c, "wait") /\ Goto(c, "done")
  /\ wg' = wg - 1 /\ main' = main
  /\ UNCHANGED <<targetVars, netVars, procVars, memVars>>

(* captureKernel comes back, or ends the program with fatalf and with it    *)
(* the goroutines.                                                          *)
KernelReturns ==
  /\ main = "kernel"
  /\ \/ main' = "wait" /\ phase' = phase
     \/ main' = "fatal" /\ phase' = [c \in Collector |-> "gone"]
  /\ UNCHANGED <<wg, targetVars, netVars, procVars, memVars>>

WaitReturns ==
  /\ main = "wait" /\ wg = 0 /\ main' = "returned"
  /\ UNCHANGED <<wg, phase, targetVars, netVars, procVars, memVars>>

Next ==
  \/ \E s \in Sock, m \in Modes \cup {"closed"} : SocketsChange(s, m)
  \/ \E p \in Pid, x \in Exe \cup {NoExe} : ChildChanges(p, x)
  \/ \E u \in Uid : UidChanges(u)
  \/ \E a \in Addr, m \in Mappings : MapsChange(a, m)
  \/ TargetExits
  \/ SocketInodes
  \/ ParseTables
  \/ InitialUID
  \/ ChildrenOf
  \/ \E p \in Pid : ChildPath(p)
  \/ ChildHash
  \/ ReadEUID
  \/ ReadMaps
  \/ \E c \in Collector : Tick(c)
  \/ \E c \in Collector : Finish(c)
  \/ KernelReturns
  \/ WaitReturns

(* Goroutines run, timers fire and captureKernel comes back (IsObserver of   *)
(* both sensors); select picks at random among ready cases, so a ready    *)
(* deadline is taken in the end although the ticker is often ready too.     *)
Poll == \/ SocketInodes \/ ParseTables \/ InitialUID \/ ChildrenOf
        \/ (\E p \in Pid : ChildPath(p)) \/ ChildHash \/ ReadEUID \/ ReadMaps
Fairness ==
  /\ WF_vars(SocketInodes \/ ParseTables) /\ WF_vars(ReadMaps)
  /\ WF_vars(InitialUID \/ ChildrenOf \/ ChildHash \/ ReadEUID
               \/ \E p \in Pid : ChildPath(p))
  /\ \A c \in Collector : SF_vars(Finish(c))
  /\ WF_vars(KernelReturns \/ WaitReturns)

Spec     == Init /\ [][Next]_vars
LiveSpec == Spec /\ Fairness

----------------------------------------------------------------------------
(* Properties.                                                              *)

(* The shared tables list every process of the namespace, and are read after *)
(* the inodes: what is reported belonged to the target, was then what it is  *)
(* reported as, and is no unconnected socket (parseProcNet's comment).       *)
SocketsAreTheTargets == netSeen \subseteq ever \cap (Sock \X Reported)

(* "sample immediately so very short runs still capture something": a       *)
(* listener, connection or raw socket, a child, an executable range and a   *)
(* large anonymous one that stay for the whole window are in the result as  *)
(* they are, however short the window, whatever else comes and goes and     *)
(* wherever the polls of the three collectors fall.  (A range whose         *)
(* permissions change is shown as the last poll found it.)                  *)
LastingStateReported ==
  main = "returned" =>
    /\ \A s \in Sock : kept.socks[s] \in Reported => <<s, kept.socks[s]>> \in netSeen
    /\ \A p \in Pid : kept.kids[p] # NoExe =>
         children[p] = [path |-> kept.kids[p], hash |-> kept.kids[p], seen |-> TRUE]
    /\ \A a \in Addr :
         LET m == kept.maps[a] IN
           /\ m.exec /\ (m.write \/ m.backing \in {"anon", "deleted"}) =>
                regions[a].suspicious = m.write
                  /\ (regions[a].backedBy = "file" <=> m.backing = "file")
           /\ m.backing = "file" => a \in mapped
           /\ m.backing \in {"anon", "deleted"} /\ m.write /\ m.big => a \in large

(* captureAll reads the three results only when their goroutines are done.  *)
ResultsAreFinal == main = "returned" => \A c \in Collector : phase[c] = "done"

(* The capture ends: with a result, or with the program.                    *)
CaptureEnds == main = "kernel" ~> main \in {"returned", "fatal"}

(* A child that starts, execs or ends while it is read: path and hash are of *)
(* executables it ran, and the hash is not of an earlier one than the path,  *)
(* so no program is shown with the hash of one that it replaced.             *)
ChildrenAreReal ==
  \A p \in Pid : children[p].seen =>
    LET c == children[p]
        At(x) == {i \in DOMAIN ran[p] : ran[p][i] = x}
    IN  /\ {c.path, c.hash} \subseteq {NoExe} \cup {ran[p][i] : i \in DOMAIN ran[p]}
        /\ c.path # NoExe /\ c.hash # NoExe =>
             \E i \in At(c.path), j \in At(c.hash) : i <= j
=============================================================================
