--------------------------- MODULE SyscallTracer ---------------------------
(***************************************************************************)
(* The eBPF syscall sensor: the two raw-tracepoint probes of               *)
(* bpf/syscall_trace.c, the ring buffers they fill, the two read loops     *)
(* and the Collect loop of tracer.go, and the life of the tracer from      *)
(* NewSyscallTracer to Stop.                                               *)
(*                                                                         *)
(* Threads of the target (and of other processes) run on their own CPUs:   *)
(* a probe is a short sequence of steps that interleaves with the probes   *)
(* of other threads, with the read loops and with Collect.  What a         *)
(* syscall carries (registers, paths, comm) is left out: an event is the   *)
(* call it reports plus the fields the Go side computes with.              *)
(***************************************************************************)
EXTENDS Integers, Sequences, FiniteSets

CONSTANTS
  Tid,             (* global pid_tgid values, the keys of `active`           *)
  Target,          (* those whose namespace-local tgid is --pid              *)
  Nr,              (* syscall numbers                                        *)
  FileNr,          (* those maybe_emit_file selects a path for               *)
  NoReturn,        (* exit, exit_group: the thread never comes back          *)
  RingSize,        (* records the `events` ring holds                        *)
  FileRingSize,    (* records the `file_events` ring holds                   *)
  ActiveSize,      (* max_entries of the `active` map                        *)
  ChanSize,        (* capacity of the events / fileEvents channels           *)
  MaxFileAccesses, (* maxFileAccesses                                        *)
  MaxSamples,      (* maxSamples                                             *)
  NsPerMs,         (* clock ticks in one millisecond                         *)
  TidReuse,        (* may the kernel hand a dead thread's id to a new one    *)
  MaxCalls         (* bound: calls the threads make altogether               *)

ASSUME TracerAssumption ==
  /\ Target \subseteq Tid /\ IsFiniteSet(Tid)
  /\ FileNr \subseteq Nr /\ NoReturn \subseteq Nr
  /\ RingSize \in Nat \ {0} /\ FileRingSize \in Nat \ {0}
  /\ ActiveSize \in Nat \ {0} /\ ChanSize \in Nat \ {0}
  /\ MaxFileAccesses \in Nat /\ MaxSamples \in Nat
  /\ NsPerMs \in Nat \ {0} /\ MaxCalls \in Nat
  /\ TidReuse \in BOOLEAN

VARIABLES
  main,       (* where Collect (with NewSyscallTracer and Stop) is           *)
  held,       (* kernel resources the tracer has open                        *)
  nsInfo,     (* ns_info holds the target's namespace                        *)
  pidFilter,  (* pid_filter holds the target's pid                           *)
  stopCh,     (* stopCh is closed                                            *)
  timer,      (* the time.After channel is ready                             *)
  thread,     (* per Tid: where the thread, or the probe it runs, is         *)
  call,       (* per Tid: the call it is in                                  *)
  probeTs,    (* per Tid: the clock value its running probe took             *)
  used,       (* Tids some thread has had                                    *)
  active,     (* the `active` map                                            *)
  clock,      (* bpf_ktime_get_ns                                            *)
  ring, fileRing,
  reader, readerEvt, fileReader, fileReaderEvt,
  events, fileEvents,   (* the two Go channels                               *)
  obs,        (* obs.Observed                                                *)
  firstEventNS,
  accesses,   (* the accesses slice                                          *)
  nextCall,   (* number of calls made so far                                 *)
  issued,     (* history: every call made                                    *)
  finished,   (* history: calls that came back to user mode                  *)
  recorded    (* history: events recordSyscallEvent was given                *)

kernelVars == <<thread, call, probeTs, used, active, clock, nextCall, issued,
                finished>>
ringVars   == <<ring, fileRing>>
readVars   == <<reader, readerEvt>>
fileVars   == <<fileReader, fileReaderEvt>>
obsVars    == <<obs, firstEventNS, accesses, recorded>>
mainVars   == <<main, held, nsInfo, pidFilter, stopCh, timer>>
vars == <<mainVars, kernelVars, ringVars, readVars, fileVars,
          events, fileEvents, obsVars>>

----------------------------------------------------------------------------
(* Values.                                                                 *)

Resources == {"coll", "enterLink", "exitLink", "reader", "fileReader"}
Rets      == {-1, 0}

(* One invocation: the history the probes themselves do not keep.  `probed` *)
(* says whether trace_sys_enter accepted it, `ts` is the time it took.      *)
Call == [id: Nat \ {0}, tid: Tid, nr: Nr, probed: BOOLEAN, ts: Nat]
(* No call: a thread in user mode, or one that clone() has just started.    *)
NoCall == [id |-> 0]

(* struct active_syscall.                                                   *)
Active   == [nr: Nr, ts: Nat]
NoActive == [nr |-> "none"]

(* struct syscall_event; `of` is the invocation it was emitted for.         *)
Event   == [exit: BOOLEAN, nr: Nr, ts: Nat, lat: Int, ret: Rets,
            of: Call \cup {NoCall}]
NoEvent == [exit |-> "none"]

(* struct file_event: an access of invocation `of`.                         *)
FileEvent   == [nr: FileNr, of: Call]
NoFileEvent == [nr |-> "none"]

(* schema.SyscallRecord; `args` is len(ArgsSample).  A name that is not in  *)
(* obs.Observed has the zero record.                                        *)
SyscallRecord == [count: Nat, exitCount: Nat, errorCount: Nat, args: Nat,
                  rets: Seq(Rets), first: Int, last: Int,
                  total: Int, max: Int]
ZeroRecord == [count |-> 0, exitCount |-> 0, errorCount |-> 0, args |-> 0,
               rets |-> <<>>, first |-> 0, last |-> 0, total |-> 0, max |-> 0]

(* bpf_ringbuf_reserve and the non-blocking channel send succeed only while *)
(* there is room.                                                           *)
HasRoomOffByOne(q, size) == Len(q) <= size  (* mutant *)
HasRoom(q, size) == Len(q) < size

(* Go's integer division truncates towards zero.                            *)
TruncDiv(a, b) == IF a >= 0 THEN a \div b ELSE -((-a) \div b)

----------------------------------------------------------------------------
Init ==
  /\ main = "new" /\ held = {} /\ nsInfo = FALSE /\ pidFilter = FALSE
  /\ stopCh = FALSE /\ timer = FALSE
  /\ thread \in [Tid -> {"none", "user"}]
  /\ call = [t \in Tid |-> NoCall]
  /\ probeTs = [t \in Tid |-> 0]
  /\ used = {t \in Tid : thread[t] = "user"}
  /\ active = [t \in Tid |-> NoActive]
  /\ clock = 1
  /\ ring = <<>> /\ fileRing = <<>>
  /\ reader = "off" /\ readerEvt = NoEvent
  /\ fileReader = "off" /\ fileReaderEvt = NoFileEvent
  /\ events = <<>> /\ fileEvents = <<>>
  /\ obs = [n \in Nr |-> ZeroRecord]
  /\ firstEventNS = 0 /\ accesses = <<>>
  /\ nextCall = 0 /\ issued = {} /\ finished = {} /\ recorded = {}

----------------------------------------------------------------------------
(* NewSyscallTracer: resources are acquired in this order, and the error   *)
(* path of each acquisition closes what the earlier ones opened.           *)

AcquireOrder == <<"coll", "enterLink", "exitLink", "reader", "fileReader">>

(* Mutant: the last error path forgets the first reader.                   *)
ErrorClosesNoReader ==
  [coll       |-> {},
   enterLink  |-> {"coll"},
   exitLink   |-> {"enterLink", "coll"},
   reader     |-> {"exitLink", "enterLink", "coll"},
   fileReader |-> {"exitLink", "enterLink", "coll"}]

ErrorCloses ==
  [coll       |-> {},
   enterLink  |-> {"coll"},
   exitLink   |-> {"enterLink", "coll"},
   reader     |-> {"exitLink", "enterLink", "coll"},
   fileReader |-> {"reader", "exitLink", "enterLink", "coll"}]

(* The next resource to open: the first of AcquireOrder that is not held.  *)
Acquiring(r) ==
  \E i \in DOMAIN AcquireOrder :
    /\ AcquireOrder[i] = r /\ r \notin held
    /\ \A j \in 1 .. (i - 1) : AcquireOrder[j] \in held

NewSyscallTracer(r) ==
  /\ main = "new" /\ Acquiring(r)
  /\ \/ /\ held' = held \cup {r}
        /\ main' = IF r = "fileReader" THEN "setNS" ELSE "new"
     \/ /\ held' = held \ ErrorCloses[r]
        /\ main' = "failed"
  /\ UNCHANGED <<nsInfo, pidFilter, stopCh, timer, kernelVars, ringVars,
                 readVars, fileVars, events, fileEvents, obsVars>>

(* An error in either of the next two runs the deferred Stop.              *)
SetTargetNS ==
  /\ main = "setNS"
  /\ \/ nsInfo' = TRUE /\ main' = "track"
     \/ nsInfo' = nsInfo /\ main' = "stop"
  /\ UNCHANGED <<held, pidFilter, stopCh, timer, kernelVars, ringVars,
                 readVars, fileVars, events, fileEvents, obsVars>>

TrackPID ==
  /\ main = "track"
  /\ \/ pidFilter' = TRUE /\ main' = "start"
     \/ pidFilter' = pidFilter /\ main' = "stop"
  /\ UNCHANGED <<held, nsInfo, stopCh, timer, kernelVars, ringVars,
                 readVars, fileVars, events, fileEvents, obsVars>>

Start ==
  /\ main = "start" /\ main' = "collect"
  /\ reader' = "check" /\ fileReader' = "check"
  /\ UNCHANGED <<held, nsInfo, pidFilter, stopCh, timer, kernelVars, ringVars,
                 readerEvt, fileReaderEvt, events, fileEvents, obsVars>>

(* Stop closes stopCh first, then the resources in the order below.        *)
StopOrderNoFileReader == <<"reader", "exitLink", "enterLink", "coll">>  (* mutant *)
StopOrder == <<"reader", "fileReader", "exitLink", "enterLink", "coll">>

Closing(r) ==
  \E i \in DOMAIN StopOrder :
    /\ StopOrder[i] = r /\ r \in held
    /\ \A j \in 1 .. (i - 1) : StopOrder[j] \notin held

StopSignal ==
  /\ main = "stop" /\ main' = "closing"
  /\ stopCh' = TRUE
  /\ UNCHANGED <<held, nsInfo, pidFilter, timer, kernelVars, ringVars,
                 readVars, fileVars, events, fileEvents, obsVars>>

StopClose(r) ==
  /\ main = "closing" /\ Closing(r)
  /\ held' = held \ {r}
  /\ main' = IF r = "coll" THEN "done" ELSE "closing"
  /\ UNCHANGED <<nsInfo, pidFilter, stopCh, timer, kernelVars, ringVars,
                 readVars, fileVars, events, fileEvents, obsVars>>

----------------------------------------------------------------------------
(* Threads of the machine and the probes that run on them.                 *)

(* resolve_ns_pid and pid_is_tracked: without the target's namespace the   *)
(* helper fails, and another process never matches the filter.             *)
PidIsTrackedAnyPid(t) == nsInfo /\ pidFilter  (* mutant *)
PidIsTracked(t) == nsInfo /\ pidFilter /\ t \in Target

(* bpf_get_current_pid_tgid, the key of `active`; the mutant keys the map   *)
(* by the process instead.                                                  *)
GtidOfProcess(t) == IF t \in Target THEN CHOOSE u \in Target : TRUE ELSE t
Gtid(t) == t

(* bpf_map_update_elem: a full map refuses a new key and the probe ignores *)
(* the error.                                                              *)
ActiveKeys == {t \in Tid : active[t] # NoActive}
UpdateActive(key, a) ==
  active' = IF key \in ActiveKeys \/ Cardinality(ActiveKeys) < ActiveSize
            THEN [active EXCEPT ![key] = a] ELSE active

(* clone() makes a new thread; its first event is a return from clone.     *)
Spawn(t) ==
  /\ thread[t] = "none" /\ (TidReuse \/ t \notin used)
  /\ thread' = [thread EXCEPT ![t] = "newborn"]
  /\ used' = used \cup {t}
  /\ UNCHANGED <<mainVars, call, probeTs, active, clock, nextCall, issued,
                 finished,
                 ringVars, readVars, fileVars, events, fileEvents, obsVars>>

(* A thread ends inside exit(), without sys_exit, or is killed by a signal *)
(* on its way back to user mode.                                           *)
ThreadEnds(t) ==
  /\ \/ thread[t] = "kernel" /\ call[t].nr \in NoReturn
     \/ thread[t] = "user"
  /\ thread' = [thread EXCEPT ![t] = "none"]
  /\ call' = [call EXCEPT ![t] = NoCall]
  /\ UNCHANGED <<mainVars, probeTs, used, active, clock, nextCall, issued,
                 finished,
                 ringVars, readVars, fileVars, events, fileEvents, obsVars>>

(* trace_sys_enter up to the update of `active`.                           *)
SysEnter(t, nr) ==
  LET probed == "enterLink" \in held /\ PidIsTracked(t)
      c == [id |-> nextCall + 1, tid |-> t, nr |-> nr, probed |-> probed,
            ts |-> IF probed THEN clock ELSE 0]
  IN  /\ thread[t] = "user" /\ nextCall < MaxCalls
      /\ nextCall' = nextCall + 1 /\ issued' = issued \cup {c}
      /\ call' = [call EXCEPT ![t] = c]
      /\ IF probed
         THEN /\ UpdateActive(Gtid(t), [nr |-> nr, ts |-> clock])
              /\ clock' = clock + 1
              /\ thread' = [thread EXCEPT ![t] = "enter"]
         ELSE /\ thread' = [thread EXCEPT ![t] = "kernel"]
              /\ UNCHANGED <<active, clock>>
      /\ UNCHANGED <<mainVars, probeTs, used, finished, ringVars, readVars,
                     fileVars, events, fileEvents, obsVars>>

(* The rest of trace_sys_enter: the enter event, and only if there was room *)
(* for it maybe_emit_file.                                                  *)
EnterSubmit(t) ==
  /\ thread[t] = "enter"
  /\ IF HasRoom(ring, RingSize)
     THEN /\ ring' = Append(ring, [exit |-> FALSE, nr |-> call[t].nr,
                                   ts |-> call[t].ts, lat |-> 0, ret |-> 0,
                                   of |-> call[t]])
          /\ thread' = [thread EXCEPT ![t] = IF call[t].nr \in FileNr
                                             THEN "file" ELSE "kernel"]
     ELSE /\ thread' = [thread EXCEPT ![t] = "kernel"]
          /\ UNCHANGED ring
  /\ UNCHANGED <<mainVars, call, probeTs, used, active, clock, nextCall,
                 issued, finished, fileRing, readVars, fileVars, events, fileEvents,
                 obsVars>>

(* maybe_emit_file for a number it selects a path for; it emits nothing     *)
(* when the path argument is NULL or the ring is full.                      *)
MaybeEmitFile(t) ==
  /\ thread[t] = "file"
  /\ thread' = [thread EXCEPT ![t] = "kernel"]
  /\ \/ /\ HasRoom(fileRing, FileRingSize)
        /\ fileRing' = Append(fileRing, [nr |-> call[t].nr, of |-> call[t]])
     \/ UNCHANGED fileRing
  /\ UNCHANGED <<mainVars, call, probeTs, used, active, clock, nextCall,
                 issued, finished, ring, readVars, fileVars, events, fileEvents,
                 obsVars>>

(* trace_sys_exit up to the clock read.  It fires for a call that returns,  *)
(* and for a new thread that leaves clone without ever having entered.      *)
SysExit(t) ==
  LET probed == /\ "exitLink" \in held /\ PidIsTracked(t)
                /\ active[Gtid(t)] # NoActive
  IN  /\ \/ thread[t] = "kernel" /\ call[t].nr \notin NoReturn
         \/ thread[t] = "newborn"
      /\ finished' = IF thread[t] = "kernel" THEN finished \cup {call[t]}
                     ELSE finished
      /\ IF probed
         THEN /\ probeTs' = [probeTs EXCEPT ![t] = clock]
              /\ clock' = clock + 1
              /\ thread' = [thread EXCEPT ![t] = "exit"]
              /\ UNCHANGED call
         ELSE /\ thread' = [thread EXCEPT ![t] = "user"]
              /\ call' = [call EXCEPT ![t] = NoCall]
              /\ UNCHANGED <<probeTs, clock>>
      /\ UNCHANGED <<mainVars, used, active, nextCall, issued, ringVars, readVars,
                     fileVars, events, fileEvents, obsVars>>

(* The rest of trace_sys_exit; the map entry is deleted either way.         *)
ExitSubmit(t, ret) ==
  /\ thread[t] = "exit"
  /\ ring' = IF HasRoom(ring, RingSize)
             THEN Append(ring, [exit |-> TRUE, nr |-> active[Gtid(t)].nr,
                                ts |-> probeTs[t],
                                lat |-> probeTs[t] - active[Gtid(t)].ts,
                                ret |-> ret, of |-> call[t]])
             ELSE ring
  /\ active' = [active EXCEPT ![Gtid(t)] = NoActive]
  /\ thread' = [thread EXCEPT ![t] = "user"]
  /\ call' = [call EXCEPT ![t] = NoCall]
  /\ UNCHANGED <<mainVars, probeTs, used, clock, nextCall, issued, finished, fileRing,
                 readVars, fileVars, events, fileEvents, obsVars>>

----------------------------------------------------------------------------
(* readLoop.  ringbuf.Reader.Read blocks while the ring is empty and the    *)
(* reader open.  Once it is closed it fails; the error may or may not be    *)
(* identical to ringbuf.ErrClosed (the library wraps it), so the loop ends  *)
(* at once or goes round to its stopCh test.                                *)

ReadCheck ==
  /\ reader = "check"
  /\ reader' = IF stopCh THEN "done" ELSE "read"
  /\ UNCHANGED <<mainVars, kernelVars, ringVars, readerEvt, fileVars, events,
                 fileEvents, obsVars>>

(* Mutant: the newest record is taken first.                                *)
ReadNewest ==
  /\ reader = "read" /\ "reader" \in held /\ ring # <<>>
  /\ reader' = "send" /\ readerEvt' = ring[Len(ring)]
  /\ ring' = SubSeq(ring, 1, Len(ring) - 1)
  /\ UNCHANGED <<mainVars, kernelVars, fileRing, fileVars, events, fileEvents,
                 obsVars>>

Read ==
  /\ reader = "read" /\ "reader" \in held /\ ring # <<>>
  /\ reader' = "send" /\ readerEvt' = Head(ring)
  /\ ring' = Tail(ring)
  /\ UNCHANGED <<mainVars, kernelVars, fileRing, fileVars, events, fileEvents,
                 obsVars>>

ReadClosed ==
  /\ reader = "read" /\ "reader" \notin held
  /\ reader' \in {"check", "done"}
  /\ UNCHANGED <<mainVars, kernelVars, ringVars, readerEvt, fileVars, events,
                 fileEvents, obsVars>>

ReadTransient ==
  /\ reader = "read" /\ "reader" \in held
  /\ reader' = "check"
  /\ UNCHANGED <<mainVars, kernelVars, ringVars, readerEvt, fileVars, events,
                 fileEvents, obsVars>>

(* The send never blocks: a full channel drops the event.                   *)
Send ==
  /\ reader = "send" /\ reader' = "check"
  /\ events' = IF HasRoom(events, ChanSize) THEN Append(events, readerEvt)
               ELSE events
  /\ readerEvt' = NoEvent
  /\ UNCHANGED <<mainVars, kernelVars, ringVars, fileVars, fileEvents,
                 obsVars>>

(* fileReadLoop, the same loop over the other ring and channel.             *)
FileReadCheck ==
  /\ fileReader = "check"
  /\ fileReader' = IF stopCh THEN "done" ELSE "read"
  /\ UNCHANGED <<mainVars, kernelVars, ringVars, readVars, fileReaderEvt,
                 events, fileEvents, obsVars>>

FileRead ==
  /\ fileReader = "read" /\ "fileReader" \in held /\ fileRing # <<>>
  /\ fileReader' = "send" /\ fileReaderEvt' = Head(fileRing)
  /\ fileRing' = Tail(fileRing)
  /\ UNCHANGED <<mainVars, kernelVars, ring, readVars, events, fileEvents,
                 obsVars>>

FileReadClosed ==
  /\ fileReader = "read" /\ "fileReader" \notin held
  /\ fileReader' \in {"check", "done"}
  /\ UNCHANGED <<mainVars, kernelVars, ringVars, readVars, fileReaderEvt,
                 events, fileEvents, obsVars>>

FileReadTransient ==
  /\ fileReader = "read" /\ "fileReader" \in held
  /\ fileReader' = "check"
  /\ UNCHANGED <<mainVars, kernelVars, ringVars, readVars, fileReaderEvt,
                 events, fileEvents, obsVars>>

FileSend ==
  /\ fileReader = "send" /\ fileReader' = "check"
  /\ fileEvents' = IF HasRoom(fileEvents, ChanSize)
                   THEN Append(fileEvents, fileReaderEvt) ELSE fileEvents
  /\ fileReaderEvt' = NoFileEvent
  /\ UNCHANGED <<mainVars, kernelVars, ringVars, readVars, events, obsVars>>

----------------------------------------------------------------------------
(* Collect's select loop.                                                   *)

(* Mutant: the first offset moves and the last one stays.                   *)
RecordSwapped(rec, evt, anchor) ==
  LET offset == TruncDiv(evt.ts - anchor, NsPerMs)
      exists == rec.count + rec.exitCount > 0
  IN  [rec EXCEPT !.first = offset, !.last = IF exists THEN @ ELSE offset,
                  !.count = IF evt.exit THEN @ ELSE @ + 1,
                  !.exitCount = IF evt.exit THEN @ + 1 ELSE @]

(* Mutant: the exit of a call counts as one more call.                      *)
RecordCountsBoth(rec, evt, anchor) ==
  [rec EXCEPT !.count = @ + 1,
              !.exitCount = IF evt.exit THEN @ + 1 ELSE @]

(* recordSyscallEvent on the record of the event's name, given the offset   *)
(* anchor.                                                                  *)
RecordSyscallEvent(rec, evt, anchor) ==
  LET offset == TruncDiv(evt.ts - anchor, NsPerMs)
      exists == rec.count + rec.exitCount > 0
      first  == IF exists THEN rec.first ELSE offset
  IN  IF ~evt.exit
      THEN [rec EXCEPT !.first = first, !.last = offset,
                       !.count = @ + 1,
                       !.args = IF @ < MaxSamples THEN @ + 1 ELSE @]
      ELSE [rec EXCEPT !.first = first, !.last = offset,
                       !.exitCount = @ + 1,
                       !.errorCount = IF evt.ret < 0 THEN @ + 1 ELSE @,
                       !.rets = IF Len(@) < MaxSamples
                                THEN Append(@, evt.ret) ELSE @,
                       !.total = @ + evt.lat,
                       !.max = IF evt.lat > @ THEN evt.lat ELSE @]

CollectEvent ==
  /\ main = "collect" /\ events # <<>>
  /\ LET evt    == Head(events)
         anchor == IF firstEventNS = 0 THEN evt.ts ELSE firstEventNS
     IN  /\ firstEventNS' = anchor
         /\ obs' = [obs EXCEPT ![evt.nr] = RecordSyscallEvent(@, evt, anchor)]
         /\ recorded' = recorded \cup {evt}
  /\ events' = Tail(events)
  /\ UNCHANGED <<mainVars, kernelVars, ringVars, readVars, fileVars,
                 fileEvents, accesses>>

CollectFile ==
  /\ main = "collect" /\ fileEvents # <<>>
  /\ accesses' = IF Len(accesses) < MaxFileAccesses
                 THEN Append(accesses, Head(fileEvents)) ELSE accesses
  /\ fileEvents' = Tail(fileEvents)
  /\ UNCHANGED <<mainVars, kernelVars, ringVars, readVars, fileVars, events,
                 obs, firstEventNS, recorded>>

TimerFires ==
  /\ main = "collect" /\ ~timer /\ timer' = TRUE
  /\ UNCHANGED <<main, held, nsInfo, pidFilter, stopCh, kernelVars, ringVars,
                 readVars, fileVars, events, fileEvents, obsVars>>

(* The timeout case returns obs and runs the deferred Stop, whatever the    *)
(* channels still hold.                                                     *)
CollectTimeout ==
  /\ main = "collect" /\ timer /\ main' = "stop"
  /\ UNCHANGED <<held, nsInfo, pidFilter, stopCh, timer, kernelVars, ringVars,
                 readVars, fileVars, events, fileEvents, obsVars>>

----------------------------------------------------------------------------
ReadLoop     == ReadCheck \/ Read \/ ReadClosed \/ Send
FileReadLoop == FileReadCheck \/ FileRead \/ FileReadClosed \/ FileSend
Setup == \/ \E r \in Resources : NewSyscallTracer(r)
         \/ SetTargetNS \/ TrackPID \/ Start
Stop  == StopSignal \/ \E r \in Resources : StopClose(r)

Next ==
  \/ \E r \in Resources : NewSyscallTracer(r)
  \/ SetTargetNS
  \/ TrackPID
  \/ Start
  \/ \E t \in Tid : Spawn(t)
  \/ \E t \in Tid : ThreadEnds(t)
  \/ \E t \in Tid, nr \in Nr : SysEnter(t, nr)
  \/ \E t \in Tid : EnterSubmit(t)
  \/ \E t \in Tid : MaybeEmitFile(t)
  \/ \E t \in Tid : SysExit(t)
  \/ \E t \in Tid, ret \in Rets : ExitSubmit(t, ret)
  \/ ReadCheck
  \/ Read
  \/ ReadClosed
  \/ ReadTransient
  \/ Send
  \/ FileReadCheck
  \/ FileRead
  \/ FileReadClosed
  \/ FileReadTransient
  \/ FileSend
  \/ CollectEvent
  \/ CollectFile
  \/ TimerFires
  \/ CollectTimeout
  \/ StopSignal
  \/ \E r \in Resources : StopClose(r)

(* Goroutines are scheduled fairly, the timer fires, and select picks at    *)
(* random among the cases that are ready, so a ready timeout is not passed  *)
(* over for ever.                                                           *)
Fairness ==
  /\ WF_vars(Setup) /\ WF_vars(Stop)
  /\ WF_vars(TimerFires) /\ WF_vars(CollectTimeout)
  /\ WF_vars(ReadLoop) /\ WF_vars(FileReadLoop)

Spec     == Init /\ [][Next]_vars
LiveSpec == Spec /\ Fairness

----------------------------------------------------------------------------
(* Properties.                                                              *)

(* Where an event can be between bpf_ringbuf_submit and recordSyscallEvent, *)
(* oldest first.                                                            *)
Pipeline == events \o (IF reader = "send" THEN <<readerEvt>> ELSE <<>>) \o ring

InKernel == {"enter", "file", "kernel", "exit"}
Threads  == InKernel \cup {"none", "newborn", "user"}
MainSteps == {"new", "failed", "setNS", "track", "start", "collect", "stop",
              "closing", "done"}
LoopSteps == {"off", "check", "read", "send", "done"}

(* The tracer, the threads, the two event paths and what Collect built.     *)
MainTypeOK ==
  /\ main \in MainSteps /\ held \in SUBSET Resources
  /\ nsInfo \in BOOLEAN /\ pidFilter \in BOOLEAN
  /\ stopCh \in BOOLEAN /\ timer \in BOOLEAN
KernelTypeOK ==
  /\ thread \in [Tid -> Threads]
  /\ call \in [Tid -> Call \cup {NoCall}]
  /\ active \in [Tid -> Active \cup {NoActive}]
  /\ \A t \in Tid : thread[t] \in InKernel \ {"exit"} => call[t] \in Call
  /\ \A t \in Tid : thread[t] = "file" => call[t].nr \in FileNr
  /\ \A t \in Tid : thread[t] = "exit" => active[t] \in Active
  /\ probeTs \in [Tid -> Nat] /\ used \in SUBSET Tid
  /\ clock \in Nat \ {0}
  /\ nextCall \in Nat /\ issued \in SUBSET Call /\ finished \in SUBSET Call
EventPathOK ==
  /\ ring \in Seq(Event) /\ Len(ring) <= RingSize
  /\ reader \in LoopSteps /\ readerEvt \in Event \cup {NoEvent}
  /\ reader = "send" => readerEvt \in Event
  /\ events \in Seq(Event) /\ Len(events) <= ChanSize
FilePathOK ==
  /\ fileRing \in Seq(FileEvent) /\ Len(fileRing) <= FileRingSize
  /\ fileReader \in LoopSteps /\ fileReaderEvt \in FileEvent \cup {NoFileEvent}
  /\ fileReader = "send" => fileReaderEvt \in FileEvent
  /\ fileEvents \in Seq(FileEvent) /\ Len(fileEvents) <= ChanSize
ObsTypeOK ==
  /\ obs \in [Nr -> SyscallRecord] /\ firstEventNS \in Nat
  /\ accesses \in Seq(FileEvent) /\ Len(accesses) <= MaxFileAccesses
  /\ recorded \in SUBSET Event

(* Every variable has its type, no ring, channel or slice exceeds its size, *)
(* and a probe finds the call and the map entry it reads.                   *)
TypeOK ==
  MainTypeOK /\ KernelTypeOK /\ EventPathOK /\ FilePathOK /\ ObsTypeOK

(* What Collect counts happened: Count never exceeds the calls the target   *)
(* made, and the file accesses never exceed its file calls, whatever was    *)
(* dropped and however threads, loops and Stop interleave.                  *)
CountsAreSound ==
  /\ \A n \in Nr : obs[n].count <=
       Cardinality({c \in issued : c.nr = n /\ c.tid \in Target})
  /\ Len(accesses) <=
       Cardinality({c \in issued : c.nr \in FileNr /\ c.tid \in Target})

(* schema.SyscallRecord.ExitCount is "completed invocations observed": an   *)
(* exit is counted only under a number for which a call did return.         *)
ExitCountIsCompletions ==
  \A n \in Nr : obs[n].exitCount <= Cardinality({c \in finished : c.nr = n})

(* An exit event carries the number of the call that returned and its own   *)
(* enter-to-exit time: the `active` entry the exit probe found is the one   *)
(* this call's enter probe stored.                                          *)
PairedWithItsEnter(e) ==
  e.exit => /\ e.of # NoCall /\ e.of.probed
            /\ e.nr = e.of.nr /\ e.lat = e.ts - e.of.ts
ExitPairsWithItsEnter ==
  /\ \A i \in DOMAIN Pipeline : PairedWithItsEnter(Pipeline[i])
  /\ \A e \in recorded : PairedWithItsEnter(e)

(* The enter event of a call is never behind its exit event: not in the     *)
(* rings and channels, and not still on its way when the exit is recorded.  *)
EnterBeforeExit ==
  /\ \A i, j \in DOMAIN Pipeline :
       (i < j /\ Pipeline[i].exit /\ Pipeline[i].of = Pipeline[j].of)
         => Pipeline[j].exit
  /\ \A e \in recorded : \A j \in DOMAIN Pipeline :
       (e.exit /\ e.of = Pipeline[j].of) => Pipeline[j].exit

(* With one target thread events reach Collect in the order of their        *)
(* timestamps, so FirstSeenOffsetMS <= LastSeenOffsetMS and no offset is    *)
(* negative, whichever events were dropped.                                 *)
OffsetsOrdered ==
  Cardinality(Target) = 1 =>
    \A n \in Nr : 0 <= obs[n].first /\ obs[n].first <= obs[n].last

(* However Collect ends, a failed NewSyscallTracer included, the collection, *)
(* both links and both readers are closed.                                   *)
ReleasedOnReturn == main \in {"failed", "done"} => held = {}

(* The sensor is an Observer, of calls and of the file accesses that come   *)
(* with some of them: whatever was dropped and however threads, loops and   *)
(* Stop interleave, none is counted more often than the target made it, the *)
(* capture returns, and what it returned is left alone.                     *)
Counted == {"call", "file"} \X Nr
AsObserver == INSTANCE Observer WITH
  Kind    <- Counted,
  made    <- [k \in Counted |->
                Cardinality({c \in issued : c.nr = k[2] /\ c.tid \in Target
                                           /\ (k[1] = "file" => c.nr \in FileNr)})],
  counted <- [k \in Counted |->
                IF k[1] = "call" THEN obs[k[2]].count
                ELSE Cardinality({i \in DOMAIN accesses : accesses[i].nr = k[2]})],
  running <- main \notin {"failed", "done"}
IsObserver == AsObserver!Spec

(* Once stopCh is closed both goroutines end, even if the reader's error is *)
(* not identical to ringbuf.ErrClosed.                                      *)
ReadersExit ==
  (stopCh /\ reader # "off") ~> (reader = "done" /\ fileReader = "done")
=============================================================================
