---------------------------- MODULE StraceSensor ----------------------------
(***************************************************************************)
(* internal/sensor/strace: Collect starts `strace -f -p <pid>`, a goroutine *)
(* scans its stderr line by line into the observation, and after the       *)
(* capture window strace is interrupted and, if it does not stop, killed.  *)
(*                                                                         *)
(* strace itself is external: it prints one line per system call, splits   *)
(* the line in an <unfinished ...> and a resumed part when another thread  *)
(* gets in between, prints "= ?" for a call that never returns and         *)
(* <detached ...> for the line it is in when it stops.  Its output goes to *)
(* stderr, where a line begins with "[pid N] " if strace follows more than *)
(* one thread when it begins to print it.  Text is reduced to the kind of  *)
(* the line, the name of the call and whether it has that leader.          *)
(***************************************************************************)
EXTENDS Integers, Sequences, FiniteSetsExt

CONSTANTS
  Thread,      (* threads of the target and its children                     *)
  NoThread,
  Name,        (* system calls                                               *)
  NoReturn,    (* exit, exit_group                                           *)
  EqInArgs,    (* calls whose decoded arguments may contain " = "            *)
  PipeSize,    (* lines the stderr pipe holds                                *)
  Stubborn,    (* may strace not react to SIGINT                             *)
  MaxCalls     (* bound: calls made while strace is attached                 *)

ASSUME StraceAssumption ==
  /\ NoThread \notin Thread /\ IsFiniteSet(Thread)
  /\ {"user", "gone"} \cap Name = {}
  /\ NoReturn \subseteq Name /\ EqInArgs \subseteq Name
  /\ PipeSize \in Nat \ {0} /\ MaxCalls \in Nat
  /\ Stubborn \in BOOLEAN

(* A line is a record of its kind ("complete", "unfinished", "resumed",      *)
(* "noreturn", "detached" or "signal"), the name of the call and its leader: *)
(* "pid" if it begins with "[pid N] ", "time" if with the time stamp.        *)
VARIABLES
  main,      (* where Collect is                                             *)
  scanner,   (* the scanning goroutine; "done" once it has closed `done`     *)
  strace,    (* the strace process                                           *)
  heeds,     (* it will react to the SIGINT it was sent                      *)
  killed,    (* it was sent SIGKILL                                          *)
  out,       (* lines it is still writing; not empty: it is in write(2)      *)
  pipe,      (* its stderr                                                   *)
  open,      (* the thread whose line it has begun to print, or NoThread     *)
  leader,    (* the leader of that line                                      *)
  thread,    (* per Thread: "user", "gone" or the call it is in              *)
  obs,       (* obs.Observed: per Name the Count and the ExitCount           *)
  made,      (* history: per Name the calls made while strace is attached    *)
  printed,   (* history: per Name the calls printed in full on "time" lines   *)
  alone      (* history: the target never had two threads at a time          *)

driverVars == <<main, heeds, killed>>
straceVars == <<strace, out, open, leader, thread, made, printed, alone>>
vars == <<driverVars, straceVars, scanner, pipe, obs>>

(* printleader: what a line begins with depends on how many threads strace  *)
(* follows when it begins it.                                               *)
Leader == IF Cardinality({t \in Thread : thread[t] # "gone"}) > 1 THEN "pid" ELSE "time"

(* The target has some threads when it is attached to.                      *)
Init ==
  /\ main = "start" /\ scanner = "off" /\ strace = "off"
  /\ heeds = FALSE /\ killed = FALSE
  /\ out = <<>> /\ pipe = <<>> /\ open = NoThread /\ leader = "time"
  /\ thread \in [Thread -> {"user", "gone"}] /\ \E t \in Thread : thread[t] = "user"
  /\ alone = (Leader = "time")
  /\ obs = [n \in Name |-> [count |-> 0, exitCount |-> 0]]
  /\ made = [n \in Name |-> 0] /\ printed = [n \in Name |-> 0]

----------------------------------------------------------------------------
(* strace and the traced threads.                                           *)

(* strace attaches, or prints an error and exits.                           *)
Attach ==
  /\ strace = "starting" /\ strace' \in {"attached", "exited"}
  /\ UNCHANGED <<driverVars, scanner, out, pipe, open, leader, thread, obs, made,
                 printed, alone>>

Tracing == strace = "attached" /\ out = <<>> /\ ~killed

(* The line another thread has begun is cut before anything else is printed. *)
Cut(t) ==
  IF open \in {t, NoThread} THEN <<>>
  ELSE <<[kind |-> "unfinished", name |-> thread[open], leader |-> leader]>>

CallEnter(t, n) ==
  /\ Tracing /\ thread[t] = "user"
  /\ MapThenSumSet(LAMBDA m : made[m], Name) < MaxCalls
  /\ made' = [made EXCEPT ![n] = @ + 1] /\ thread' = [thread EXCEPT ![t] = n]
  /\ out' = Cut(t) /\ open' = t /\ leader' = Leader
  /\ UNCHANGED <<driverVars, strace, scanner, pipe, obs, printed, alone>>

(* The end of thread t's call is printed behind the call, in the line begun   *)
(* with it, or on a new line.                                                *)
CallEnds(t, kind, next) ==
  LET n == thread[t]
      l == IF open = t THEN leader ELSE Leader
  IN  /\ out' = Append(Cut(t), [kind |-> kind, name |-> n, leader |-> l])
      /\ open' = NoThread /\ leader' = "time"
      /\ thread' = [thread EXCEPT ![t] = next]
      /\ printed' = [printed EXCEPT ![n] = IF l = "time" THEN @ + 1 ELSE @]
      /\ UNCHANGED <<driverVars, strace, scanner, pipe, obs, made, alone>>

(* A return that is not printed behind the call makes a resumed line.       *)
CallExit(t) ==
  /\ Tracing /\ thread[t] \in Name \ NoReturn
  /\ CallEnds(t, IF open = t THEN "complete" ELSE "resumed", "user")

(* exit and exit_group are printed with "= ?".                              *)
CallNeverReturns(t) ==
  Tracing /\ thread[t] \in NoReturn /\ CallEnds(t, "noreturn", "gone")

(* The call of t is a clone: strace follows the new thread too (-f), and -qq *)
(* keeps it from saying so.                                                  *)
Clone(t, u) ==
  /\ Tracing /\ thread[t] \in Name \ NoReturn /\ thread[u] = "gone"
  /\ thread' = [thread EXCEPT ![u] = "user"] /\ alone' = FALSE
  /\ UNCHANGED <<driverVars, strace, scanner, out, pipe, open, leader, obs, made,
                 printed>>

(* A signal is reported on a line of its own; the name is immaterial.       *)
Signalled(t) ==
  /\ Tracing /\ thread[t] \in Name \ NoReturn /\ open = t
  /\ out' = <<[kind |-> "unfinished", name |-> thread[t], leader |-> leader],
              [kind |-> "signal", name |-> thread[t], leader |-> Leader]>>
  /\ open' = NoThread /\ leader' = "time"
  /\ UNCHANGED <<driverVars, strace, scanner, pipe, obs, thread, made, printed,
                 alone>>

(* write(2) to stderr blocks while the pipe is full.                        *)
Write ==
  /\ out # <<>> /\ ~killed /\ Len(pipe) < PipeSize
  /\ pipe' = Append(pipe, Head(out)) /\ out' = Tail(out)
  /\ UNCHANGED <<driverVars, strace, scanner, open, leader, thread, obs, made,
                 printed, alone>>

(* strace stops: at SIGINT it ends the line it is in and detaches, it ends  *)
(* when no thread is left, and SIGKILL ends it wherever it is.              *)
Detach ==
  /\ Tracing /\ heeds /\ (open = NoThread \/ Len(pipe) < PipeSize)
  /\ strace' = "exited"
  /\ pipe' = IF open = NoThread THEN pipe
             ELSE Append(pipe, [kind |-> "detached", name |-> thread[open],
                                leader |-> leader])
  /\ UNCHANGED <<driverVars, scanner, out, open, leader, thread, obs, made,
                 printed, alone>>

TargetGone ==
  /\ Tracing /\ \A t \in Thread : thread[t] = "gone"
  /\ strace' = "exited"
  /\ UNCHANGED <<driverVars, scanner, out, pipe, open, leader, thread, obs, made,
                 printed, alone>>

Die ==
  /\ killed /\ strace # "exited"
  /\ strace' = "exited" /\ out' = <<>>
  /\ UNCHANGED <<driverVars, scanner, pipe, open, leader, thread, obs, made,
                 printed, alone>>

----------------------------------------------------------------------------
(* The scanning goroutine.                                                  *)

(* Mutant: the "<unfinished ...>" suffix is not tested.                     *)
ParseLineNoSuffixTest(l) ==
  /\ l.leader = "time"
  /\ \/ l.kind \in {"complete", "resumed", "noreturn"}
     \/ l.kind \in {"detached", "unfinished"} /\ l.name \in EqInArgs

(* parseLine's ok.  No expression matches a line that begins with "[".  Any *)
(* other counts if it is not a signal or an unfinished line, has a name and *)
(* has " = " somewhere: a cut-off line has one when its arguments have.     *)
ParseLine(l) ==
  /\ l.leader = "time"
  /\ \/ l.kind \in {"complete", "resumed", "noreturn"}
     \/ l.kind = "detached" /\ l.name \in EqInArgs

(* record.                                                                  *)
Record(rec) == [count |-> rec.count + 1, exitCount |-> rec.exitCount + 1]

(* The scan ends at EOF, once strace is gone and the pipe is empty, and then *)
(* closes `done`.                                                           *)
ScanLine ==
  /\ scanner = "scan" /\ pipe # <<>>
  /\ LET l == Head(pipe) IN
       obs' = IF ParseLine(l) THEN [obs EXCEPT ![l.name] = Record(@)] ELSE obs
  /\ pipe' = Tail(pipe) /\ scanner' = scanner
  /\ UNCHANGED <<driverVars, straceVars>>

ScanEOF ==
  /\ scanner = "scan" /\ pipe = <<>> /\ strace = "exited"
  /\ scanner' = "done"
  /\ UNCHANGED <<driverVars, straceVars, pipe, obs>>

----------------------------------------------------------------------------
(* Collect.                                                                 *)

StartStrace ==
  /\ main = "start"
  /\ \/ main' = "failed" /\ UNCHANGED <<strace, scanner>>
     \/ main' = "sleep" /\ strace' = "starting" /\ scanner' = "scan"
  /\ UNCHANGED <<heeds, killed, out, pipe, open, leader, thread, obs, made,
                 printed, alone>>

(* The window ends: time.Sleep returns and strace is sent SIGINT.           *)
Interrupt ==
  /\ main = "sleep" /\ main' = "select"
  /\ heeds' \in {TRUE, ~Stubborn}
  /\ UNCHANGED <<killed, straceVars, scanner, pipe, obs>>

SelectDone ==
  /\ main = "select" /\ scanner = "done" /\ main' = "wait"
  /\ UNCHANGED <<heeds, killed, straceVars, scanner, pipe, obs>>

(* Mutant: no kill, only the wait for `done`.                               *)
SelectTimeoutNoKill ==
  /\ main = "select" /\ main' = "drain"
  /\ UNCHANGED <<heeds, killed, straceVars, scanner, pipe, obs>>

SelectTimeout ==
  /\ main = "select" /\ killed' = TRUE /\ main' = "drain"
  /\ UNCHANGED <<heeds, straceVars, scanner, pipe, obs>>

(* Mutant: after the kill `done` is not waited for.                         *)
DrainAtOnce ==
  /\ main = "drain" /\ main' = "wait"
  /\ UNCHANGED <<heeds, killed, straceVars, scanner, pipe, obs>>

Drain ==
  /\ main = "drain" /\ scanner = "done" /\ main' = "wait"
  /\ UNCHANGED <<heeds, killed, straceVars, scanner, pipe, obs>>

(* cmd.Wait returns once the process has exited, then Collect does.         *)
Wait ==
  /\ main = "wait" /\ strace = "exited" /\ main' = "returned"
  /\ UNCHANGED <<heeds, killed, straceVars, scanner, pipe, obs>>

----------------------------------------------------------------------------
Next ==
  \/ Attach
  \/ \E t \in Thread, n \in Name : CallEnter(t, n)
  \/ \E t \in Thread : CallExit(t)
  \/ \E t \in Thread : CallNeverReturns(t)
  \/ \E t, u \in Thread : Clone(t, u)
  \/ \E t \in Thread : Signalled(t)
  \/ Write
  \/ Detach
  \/ TargetGone
  \/ Die
  \/ ScanLine
  \/ ScanEOF
  \/ StartStrace
  \/ Interrupt
  \/ SelectDone
  \/ SelectTimeout
  \/ Drain
  \/ Wait

(* Collect and the scanner are scheduled, timers fire, SIGKILL works.  A    *)
(* strace that heeds SIGINT and is not stuck in write(2) detaches.          *)
Fairness ==
  /\ WF_vars(StartStrace)
  /\ WF_vars(Interrupt) /\ WF_vars(SelectDone) /\ WF_vars(SelectTimeout)
  /\ WF_vars(Drain) /\ WF_vars(Wait)
  /\ WF_vars(ScanLine \/ ScanEOF)
  /\ WF_vars(Attach) /\ WF_vars(Write) /\ WF_vars(Detach) /\ WF_vars(Die)

Spec     == Init /\ [][Next]_vars
LiveSpec == Spec /\ Fairness

----------------------------------------------------------------------------
(* Properties.                                                              *)

(* Lines of a set among those on their way, still being written or in the    *)
(* pipe, and those that show a call n in full and have no leader.            *)
Among(q, lines) == {i \in DOMAIN q : q[i] \in lines}
OnWay(lines) == Cardinality(Among(out, lines)) + Cardinality(Among(pipe, lines))
Full(n) == [kind : {"complete", "resumed", "noreturn"}, name : {n}, leader : {"time"}]

InCall(n) == {t \in Thread : thread[t] = n}

(* "so each syscall is recorded exactly once": however lines are cut and    *)
(* resumed, a call printed in full on a line that strace began while it     *)
(* followed one thread is counted once or still on its way; when Collect    *)
(* returns after a clean stop none of them is missing, and of a target that *)
(* never had two threads no call that ended is.  Lines begun while strace   *)
(* followed several threads are not counted at all.  At most one call more  *)
(* is counted, the one whose line the detach cut off, and only if its       *)
(* arguments contain " = ".                                                 *)
RecordedExactlyOnce ==
  \A n \in Name :
    LET extra == IF n \in EqInArgs THEN {0, 1} ELSE {0}
    IN  /\ strace = "attached" /\ ~killed =>
             obs[n].count + OnWay(Full(n)) = printed[n]
        /\ main = "returned" /\ ~killed => obs[n].count - printed[n] \in extra
        /\ main = "returned" /\ ~killed /\ alone =>
             obs[n].count - (made[n] - Cardinality(InCall(n))) \in extra
        /\ \E m \in extra : obs[n].count <= printed[n] + m

(* "`-f` follows threads AND children, so the strace fallback records the   *)
(* target's process subtree": after a clean stop every call of any thread   *)
(* that ended while strace was attached is counted.  It is not: parseLine   *)
(* rejects the lines strace begins with "[pid N] ".                         *)
SubtreeRecorded ==
  main = "returned" /\ ~killed =>
    \A n \in Name : obs[n].count >= made[n] - Cardinality(InCall(n))

(* Collect touches the observation only when the goroutine that fills it    *)
(* has ended: the map is never written and read at once.                    *)
NoConcurrentAccess == main \in {"wait", "returned"} => scanner = "done"

(* The sensor is an Observer: no call is counted more often than it was     *)
(* made, however its line was cut, interrupted or lost, the capture returns, *)
(* and from then on the goroutine leaves the observation alone.             *)
AsObserver == INSTANCE Observer WITH
  Kind    <- Name,
  counted <- [n \in Name |-> obs[n].count],
  running <- main \notin {"returned", "failed"}
IsObserver == AsObserver!Spec

(* Once the window has begun Collect returns, even if strace ignores SIGINT. *)
StraceReturns == main = "sleep" ~> main = "returned"
=============================================================================
