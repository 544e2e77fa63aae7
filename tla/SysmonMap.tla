----------------------------- MODULE SysmonMap -----------------------------
(***************************************************************************)
(* internal/sensor/sysmon: the Windows backend.  Sysmon (external) logs    *)
(* what the processes of the machine do; Collect waits for the capture     *)
(* window to pass, asks PowerShell for the events of the last seconds, and *)
(* MapEvents attributes them to the target by process id.                  *)
(*                                                                         *)
(* An event is its numeric id (named here), the process it is about, an    *)
(* object (image, path, key, address, host name) and one more field the    *)
(* mapping looks at: the hash of an image, add or delete of a key, whether *)
(* a connection was initiated here.                                        *)
(***************************************************************************)
EXTENDS Ordered

CONSTANTS
  Pid, Target, NoPid,  (* process ids, that of --pid                          *)
  Obj,                 (* objects of events                                   *)
  Payload,             (* per event id: the <<object, field>> it may carry    *)
  PersistenceKeys,     (* keys isPersistenceKey accepts                       *)
  WeakeningKeys,       (* keys isSecurityWeakeningKey accepts                 *)
  Second,              (* ticks of the clock in a second                      *)
  Duration,            (* length of the window, in ticks                      *)
  Margin,              (* what the query adds to it, in ticks                 *)
  MaxEvents, MaxTime   (* bounds: events logged, clock                        *)

(* Events of which each object is reported once, in a list of its own.      *)
Deduped == {"fileCreate", "fileDelete", "imageLoad", "dns"}
(* Events whose subject is the source process; they carry no ProcessId.     *)
BySource == {"remoteThread", "processAccess"}
EventIds == {"processCreate", "network", "registryKey", "registrySet"}
              \cup Deduped \cup BySource

ASSUME SysmonAssumption ==
  /\ Target \in Pid /\ NoPid \notin Pid /\ Second \in Nat \ {0}
  /\ PersistenceKeys \subseteq Obj /\ WeakeningKeys \subseteq Obj
  /\ "processCreate" \in DOMAIN Payload /\ DOMAIN Payload \subseteq EventIds
  /\ \A id \in DOMAIN Payload : \A pl \in Payload[id] : pl[1] \in Obj
  /\ Duration \in Nat /\ Margin \in Nat /\ MaxEvents \in Nat /\ MaxTime \in Nat

VARIABLES
  phase,     (* of Collect: "before", "sleep", "done", "failed"               *)
  clock,     (* the time, in ticks                                            *)
  opened,    (* when Collect began                                            *)
  queried,   (* when the query computed its start time                        *)
  proc,      (* per Pid: what the process is to the target                    *)
  reused,    (* Pids handed out a second time: history                        *)
  log,       (* the Sysmon log, oldest first                                  *)
  answer,    (* what the query gave: "none", "events", "nothing", "error"     *)
  result     (* what Collect returned                                         *)

vars == <<phase, clock, opened, queried, proc, reused, log, answer, result>>

(* What a process is to the target: "target", "child", "descendant" or        *)
(* "stranger".  `kin` of an event is history: it says who really acted, which *)
(* the mapping has to recover from process ids.                               *)
KinOf(parent) == CASE parent = "target"                -> "child"
                   [] parent \in {"child", "descendant"} -> "descendant"
                   [] parent = "stranger"              -> "stranger"

----------------------------------------------------------------------------
(* MapEvents over a sequence of events.                                      *)

(* Pass 1: the direct children.                                              *)
Tracked(evs) ==
  {Target} \cup
  {evs[i].pid : i \in {j \in DOMAIN evs : /\ evs[j].id = "processCreate"
                                          /\ evs[j].ppid = Target}}

(* Whose an event is: a process creation is its parent's.  Mutants: children *)
(* and events in one pass over the answer; sources looked up in the set.     *)
AttributedInOnePass(evs, e) ==
  CASE e.id = "processCreate" -> e.ppid = Target
    [] e.id \in BySource      -> e.pid = Target
    [] OTHER                  -> \E i \in DOMAIN evs :
                                   evs[i] = e /\ e.pid \in Tracked(SubSeq(evs, 1, i - 1))
AttributedTrackedSource(evs, e) ==
  IF e.id = "processCreate" THEN e.ppid = Target ELSE e.pid \in Tracked(evs)
Attributed(evs, e) ==
  CASE e.id = "processCreate" -> e.ppid = Target
    [] e.id \in BySource      -> e.pid = Target
    [] OTHER                  -> e.pid \in Tracked(evs)

Of(evs, id) == {i \in DOMAIN evs : evs[i].id = id /\ Attributed(evs, evs[i])}

(* The events of a kind that are not preceded by one with the same object:   *)
(* the childSeen, fileCreated, ... maps.  Keys created and deleted share one. *)
FirstOf(evs, id) ==
  {i \in Of(evs, id) : \A j \in Of(evs, id) : evs[j].obj = evs[i].obj => i <= j}

Objects(evs, is) == {evs[i].obj : i \in is}
CountOf(evs, is) == [o \in Obj |-> Cardinality({i \in is : evs[i].obj = o})]

(* The lists are kept as sets (sortResult orders them), those that may hold  *)
(* an object several times as counts.                                        *)
MapEvents(evs) ==
  LET keys    == FirstOf(evs, "registryKey")
      deleted == {i \in keys : evs[i].val = "delete"}
      touched == Objects(evs, keys) \cup Objects(evs, Of(evs, "registrySet"))
  IN  [children    |-> {<<evs[i].obj, evs[i].val>> : i \in FirstOf(evs, "processCreate")},
       once        |-> [id \in Deduped |-> Objects(evs, FirstOf(evs, id))],
       counted     |-> [network |-> CountOf(evs, {i \in Of(evs, "network") :
                                                    evs[i].val = "initiated"}),
                        registrySet   |-> CountOf(evs, Of(evs, "registrySet")),
                        processAccess |-> CountOf(evs, Of(evs, "processAccess"))],
       keysDeleted |-> Objects(evs, deleted),
       keysCreated |-> Objects(evs, keys \ deleted),
       persistence |-> touched \cap PersistenceKeys # {},
       weakened    |-> touched \cap WeakeningKeys # {},
       injection   |-> Of(evs, "remoteThread") # {}]

----------------------------------------------------------------------------
(* The machine: processes start and act; Sysmon logs it.  That a process     *)
(* ended shows only when its id is handed out again.                         *)

Log(id, p, parent, pl, kin) ==
  /\ Len(log) < MaxEvents
  /\ log' = Append(log, [id |-> id, pid |-> p, ppid |-> parent, obj |-> pl[1],
                         val |-> pl[2], time |-> clock, kin |-> kin])

(* A process starts another one, perhaps with the id of one that has ended.  *)
Launch(parent, p, pl) ==
  /\ proc[parent] # "none" /\ p # parent
  /\ Log("processCreate", p, parent, pl, KinOf(proc[parent]))
  /\ proc' = [proc EXCEPT ![p] = KinOf(proc[parent])]
  /\ reused' = IF proc[p] = "none" THEN reused ELSE reused \cup {p}
  /\ UNCHANGED <<phase, clock, opened, queried, answer, result>>

Act(p, id, pl) ==
  /\ proc[p] # "none" /\ id # "processCreate"
  /\ Log(id, p, NoPid, pl, proc[p])
  /\ UNCHANGED <<phase, clock, opened, queried, proc, reused, answer, result>>

Tick ==
  /\ clock < MaxTime /\ clock' = clock + 1
  /\ UNCHANGED <<phase, opened, queried, proc, reused, log, answer, result>>

----------------------------------------------------------------------------
(* Collect.                                                                  *)

Begin ==
  /\ phase = "before" /\ phase' = "sleep" /\ opened' = clock
  /\ UNCHANGED <<clock, queried, proc, reused, log, answer, result>>

(* int(duration.Seconds()) + 2: the fraction of a second is cut off.         *)
Reach == (Duration \div Second) * Second + Margin

(* Get-WinEvent: newest first.  Mutant: oldest first.                        *)
Since(from) == {i \in DOMAIN log : log[i].time >= from}
AnswerOldestFirst(from) == Pick(log, Since(from))
Answer(from) == PickBack(log, Since(from))

(* The sleep is over and PowerShell, some time later, is up.  It answers, or *)
(* fails; and because it runs with -ErrorAction SilentlyContinue, a log that *)
(* is missing or must not be read gives no events and no error.              *)
Query ==
  /\ phase = "sleep" /\ clock >= opened + Duration
  /\ queried' = clock
  /\ \/ answer' = "events" /\ phase' = "done" /\ result' = MapEvents(Answer(clock - Reach))
     \/ answer' = "nothing" /\ phase' = "done" /\ result' = MapEvents(<<>>)
     \/ answer' = "error" /\ phase' = "failed" /\ result' = MapEvents(<<>>)
  /\ UNCHANGED <<clock, opened, proc, reused, log>>

Init ==
  /\ phase = "before" /\ clock = 0 /\ opened = 0 /\ queried = 0
  /\ proc \in [Pid -> {"none", "target", "child", "stranger"}] /\ reused = {}
  /\ \A p \in Pid : proc[p] = "target" <=> p = Target
  /\ log = <<>> /\ answer = "none" /\ result = MapEvents(<<>>)

Running == phase \in {"before", "sleep"}

Next ==
  \/ Begin
  \/ Query
  \/ Running /\ Tick
  \/ Running /\ \E parent, p \in Pid, pl \in Payload["processCreate"] : Launch(parent, p, pl)
  \/ Running /\ \E p \in Pid, id \in DOMAIN Payload : \E pl \in Payload[id] : Act(p, id, pl)

Spec == Init /\ [][Next]_vars

----------------------------------------------------------------------------
(* The events of a kind about an object that the target, or a process it     *)
(* started, really caused, in the time a query reaches.                      *)
Close(e) == IF e.id = "processCreate" THEN e.kin = "child"
            ELSE IF e.id \in BySource THEN e.kin = "target"
            ELSE e.kin \in {"target", "child"}
Did(id, o) ==
  {i \in DOMAIN log : /\ log[i].id = id /\ log[i].obj = o /\ Close(log[i])
                      /\ opened - Margin <= log[i].time /\ log[i].time <= queried}

(* Everything reported was done, by the target or a process it started       *)
(* itself, at most the margin before the window opened and no later than the *)
(* query, and no more often than it was done; unless Windows handed out a    *)
(* process id again.  What was done after the window, before a late query,   *)
(* is reported too, although collect_windows.go:14-15 says "in that window". *)
ReportedWasDone ==
  reused = {} =>
    LET Keys  == result.keysCreated \cup result.keysDeleted
        Written == {o \in Obj : result.counted.registrySet[o] > 0}
    IN  /\ \A c \in result.children : \E i \in Did("processCreate", c[1]) : log[i].val = c[2]
        /\ \A id \in Deduped : \A o \in result.once[id] : Did(id, o) # {}
        /\ \A id \in DOMAIN result.counted : \A o \in Obj :
             result.counted[id][o] <= Cardinality(Did(id, o))
        /\ \A o \in Keys : Did("registryKey", o) # {}
        /\ result.persistence => (Keys \cup Written) \cap PersistenceKeys # {}
        /\ result.weakened => (Keys \cup Written) \cap WeakeningKeys # {}
        /\ result.injection => \E o \in Obj : Did("remoteThread", o) # {}

(* An event the result has to show: in the window, and by the target or by a *)
(* child whose own start is in reach of the query.                           *)
InWindow(e) == e.time >= opened /\ e.time <= opened + Duration
Reached(p) == \E i \in Since(queried - Reach) :
  log[i].id = "processCreate" /\ log[i].pid = p /\ log[i].kin = "child"
Represented(e) ==
  CASE e.id = "processCreate" -> \E c \in result.children : c[1] = e.obj
    [] e.id \in Deduped       -> e.obj \in result.once[e.id]
    [] e.id = "network"       -> e.val = "initiated" => result.counted.network[e.obj] > 0
    [] e.id = "registryKey"   -> e.obj \in result.keysCreated \cup result.keysDeleted
    [] e.id = "remoteThread"  -> result.injection
    [] OTHER                  -> result.counted[e.id][e.obj] > 0

(* A query that can read the log and starts soon enough after the sleep      *)
(* (within the margin, less the fraction of a second cut off the duration)   *)
(* misses nothing the target did in the window, nor what a child did whose   *)
(* start the answer still has.  (Of a log that cannot be read Collect        *)
(* returns an empty result without an error, however much is in it.)         *)
WindowCovered ==
  answer = "events" /\ queried - (opened + Duration) <= Margin - (Duration % Second) =>
    \A i \in DOMAIN log :
      LET e == log[i] IN
        InWindow(e) /\ Close(e) /\ (e.kin = "child" => Reached(e.pid)) => Represented(e)

(* A registry key is listed as it was left, and a child with the image it    *)
(* was last started from: created then deleted in the window is "deleted".   *)
(* What a child did whose start the query came too late for counts for none. *)
(* MapEvents keeps the first event of an object in the order it is given, so *)
(* this rests on the answer being newest first (sort.go:9-10 is about the    *)
(* order of the lists, not about which event is kept), and on a readable log.*)
ListsShowTheLast ==
  answer = "events" =>
    \A i \in Since(queried - Reach) :
      LET e    == log[i]
          last == \A j \in DOMAIN log : log[j].id = e.id /\ log[j].obj = e.obj => j <= i
      IN  last /\ Close(e) =>
            /\ e.id = "registryKey" /\ (e.kin = "child" => Reached(e.pid)) =>
                 e.obj \in (IF e.val = "delete" THEN result.keysDeleted ELSE result.keysCreated)
            /\ e.id = "processCreate" => <<e.obj, e.val>> \in result.children

(* parse.go:52-53: events are attributed to the target "and its spawned      *)
(* children (the subtree, analogous to strace -f)".  The events of a process *)
(* a child of the target starts are left out.                                *)
SubtreeTracked ==
  answer = "events" /\ queried = opened + Duration =>
    \A i \in DOMAIN log :
      LET e == log[i] IN
        InWindow(e) /\ e.id \in Deduped /\ e.kin = "descendant"
          /\ (\A j \in 1 .. i - 1 : log[j].id = "processCreate" => InWindow(log[j]))
          /\ (\E j \in 1 .. i - 1 : log[j].id = "processCreate" /\ log[j].pid = e.pid
                /\ \E k \in 1 .. j - 1 : /\ log[k].id = "processCreate"
                                         /\ log[k].pid = log[j].ppid /\ log[k].kin = "child")
        => Represented(e)
=============================================================================
