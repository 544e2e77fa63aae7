------------------------- MODULE StraceSensor_proofs -------------------------
(* Theorems about the strace sensor, for any threads, calls and pipe.        *)
EXTENDS StraceSensor, FiniteSetTheorems, TLAPS

(* Collect goes past `<-done` only behind the goroutine, and what comes after *)
(* never starts it again.                                                    *)
DoneFirst == main \in {"wait", "returned"} => scanner = "done"

(* The goroutine that fills the observation has ended before Collect reads   *)
(* it, whether strace stopped in time, was killed or never printed anything. *)
THEOREM NoConcurrentCorrect == Spec => []NoConcurrentAccess
<1>1. Init => DoneFirst
  BY DEF Init, DoneFirst
<1>2. DoneFirst /\ [Next]_vars => DoneFirst'
  <2> SUFFICES ASSUME DoneFirst, [Next]_vars PROVE DoneFirst'
    OBVIOUS
  <2> USE DEF DoneFirst
  <2>1. CASE ScanLine \/ ScanEOF
    BY <2>1 DEF ScanLine, ScanEOF, driverVars
  <2>2. CASE StartStrace \/ Interrupt
    BY <2>2 DEF StartStrace, Interrupt
  <2>3. CASE SelectDone \/ SelectTimeout \/ Drain
    BY <2>3 DEF SelectDone, SelectTimeout, Drain
  <2>4. CASE Wait
    BY <2>4 DEF Wait
  <2>5. Attach \/ (\E t \in Thread, n \in Name : CallEnter(t, n)) \/ (\E t \in Thread : CallExit(t))
        \/ (\E t \in Thread : CallNeverReturns(t)) \/ (\E t \in Thread : Signalled(t)) \/ Write
        \/ (\E t, u \in Thread : Clone(t, u)) \/ Detach \/ TargetGone \/ Die \/ UNCHANGED vars
        => UNCHANGED <<main, scanner>>
    BY DEF Attach, CallEnter, CallExit, CallNeverReturns, CallEnds, Clone, Signalled, Write,
           Detach, TargetGone, Die, vars, driverVars
  <2> QED
    BY <2>1, <2>2, <2>3, <2>4, <2>5 DEF Next
<1>3. DoneFirst => NoConcurrentAccess
  BY DEF DoneFirst, NoConcurrentAccess
<1> QED
  BY <1>1, <1>2, <1>3, PTL DEF Spec
----------------------------------------------------------------------------
(* Lines on their way.                                                       *)

Line == [kind : {"complete", "unfinished", "resumed", "noreturn", "detached", "signal"},
         name : Name, leader : {"time", "pid"}]

(* The lines of n that the scanner counts.                                   *)
Parsed(n) == {l \in Line : l.name = n /\ ParseLine(l)}

(* Appending a line adds it to the lines of the sets it is in.               *)
LEMMA AmongAppend ==
  ASSUME NEW q \in Seq(Line), NEW l \in Line, NEW S
  PROVE  /\ IsFiniteSet(Among(q, S)) /\ Cardinality(Among(q, S)) \in Nat
         /\ Cardinality(Among(Append(q, l), S)) =
              IF l \in S THEN Cardinality(Among(q, S)) + 1 ELSE Cardinality(Among(q, S))
<1> DEFINE n == Len(q)
           A == Among(q, S)
<1>1. n \in Nat /\ DOMAIN q = 1 .. n
  OBVIOUS
<1>2. IsFiniteSet(1 .. n) /\ A \in SUBSET (1 .. n)
  BY <1>1, FS_Interval DEF Among
<1>3. IsFiniteSet(A) /\ Cardinality(A) \in Nat
  BY <1>2, FS_Subset, FS_CardinalityType
<1>4. Among(Append(q, l), S) = IF l \in S THEN A \cup {n + 1} ELSE A
  <2>1. /\ DOMAIN Append(q, l) = 1 .. n + 1 /\ Append(q, l)[n + 1] = l
        /\ \A i \in 1 .. n : Append(q, l)[i] = q[i]
    OBVIOUS
  <2> HIDE DEF n
  <2> QED BY <1>1, <2>1 DEF Among
<1>5. n + 1 \notin A
  BY <1>1, <1>2
<1> HIDE DEF A, n
<1>6. Cardinality(A \cup {n + 1}) = IF n + 1 \in A THEN Cardinality(A) ELSE Cardinality(A) + 1
  BY <1>3, FS_AddElement
<1> QED BY <1>3, <1>4, <1>5, <1>6 DEF A

(* Taking the head takes it from the sets it is in.                          *)
LEMMA AmongTail ==
  ASSUME NEW q \in Seq(Line), q # <<>>, NEW S
  PROVE  /\ IsFiniteSet(Among(Tail(q), S)) /\ Cardinality(Among(Tail(q), S)) \in Nat
         /\ Cardinality(Among(q, S)) = IF Head(q) \in S THEN Cardinality(Among(Tail(q), S)) + 1
                                       ELSE Cardinality(Among(Tail(q), S))
<1> DEFINE n == Len(q) - 1
           r == Tail(q)
           A == Among(q, S)
           B == Among(r, S)
           f == [i \in B |-> i + 1]
<1>1. /\ n \in Nat /\ DOMAIN q = 1 .. n + 1 /\ DOMAIN r = 1 .. n
      /\ Head(q) = q[1]
  OBVIOUS
<1>2. \A i \in 1 .. n : r[i] = q[i + 1]
  OBVIOUS
<1> HIDE DEF n, r
<1>3. IsFiniteSet(1 .. n) /\ B \in SUBSET (1 .. n)
  BY <1>1, FS_Interval DEF Among
<1>4. IsFiniteSet(B) /\ Cardinality(B) \in Nat
  BY <1>3, FS_Subset, FS_CardinalityType
<1>5. A \ {1} = {i + 1 : i \in B}
  <2>1. ASSUME NEW j \in A \ {1} PROVE \E i \in B : j = i + 1
    <3>1. j \in 2 .. n + 1 /\ q[j] \in S
      BY <1>1, <2>1 DEF Among
    <3>2. j - 1 \in 1 .. n /\ r[j - 1] = q[j]
      BY <1>1, <1>2, <3>1
    <3>3. j - 1 \in B /\ j = (j - 1) + 1
      BY <1>1, <3>1, <3>2 DEF Among
    <3> QED BY <3>3
  <2>2. ASSUME NEW i \in B PROVE i + 1 \in A \ {1}
    BY <1>1, <1>2, <2>2 DEF Among
  <2> QED BY <2>1, <2>2
<1>6. f \in Bijection(B, A \ {1})
  <2>1. f \in [B -> A \ {1}] /\ \A y \in A \ {1} : \E x \in B : f[x] = y
    BY <1>5
  <2>2. \A x, y \in B : f[x] = f[y] => x = y
    BY <1>3
  <2> HIDE DEF f
  <2>3. IsInjective(f)
    BY <2>1, <2>2 DEF IsInjective
  <2> QED BY <2>1, <2>3 DEF Bijection, Injection, Surjection
<1>7. IsFiniteSet(A \ {1}) /\ Cardinality(A \ {1}) = Cardinality(B)
  BY <1>4, <1>6, FS_Bijection DEF ExistsBijection
<1>8. A = IF Head(q) \in S THEN (A \ {1}) \cup {1} ELSE A \ {1}
  BY <1>1 DEF Among
<1> HIDE DEF A, B
<1>9. Cardinality((A \ {1}) \cup {1}) = Cardinality(A \ {1}) + 1
  <2> DEFINE R == A \ {1}
  <2>1. 1 \notin R
    OBVIOUS
  <2> HIDE DEF R
  <2>2. Cardinality(R \cup {1}) = IF 1 \in R THEN Cardinality(R) ELSE Cardinality(R) + 1
    BY <1>7, FS_AddElement DEF R
  <2> QED BY <2>1, <2>2 DEF R
<1>10. Cardinality(A) = IF Head(q) \in S THEN Cardinality(B) + 1 ELSE Cardinality(B)
  BY <1>7, <1>8, <1>9
<1> QED BY <1>4, <1>10 DEF A, B, r

(* Nothing is among no lines.                                               *)
LEMMA AmongNone ==
  ASSUME NEW S
  PROVE  Cardinality(Among(<<>>, S)) = 0
<1>1. Among(<<>>, S) = {}
  BY DEF Among
<1> QED BY <1>1, FS_EmptySet

----------------------------------------------------------------------------
(* The types, and what Collect, the scanner and strace know of each other.   *)

StTypeOK ==
  /\ main \in {"start", "failed", "sleep", "select", "drain", "wait", "returned"}
  /\ scanner \in {"off", "scan", "done"}
  /\ strace \in {"off", "starting", "attached", "exited"}
  /\ heeds \in BOOLEAN /\ killed \in BOOLEAN
  /\ out \in Seq(Line) /\ pipe \in Seq(Line)
  /\ open \in Thread \cup {NoThread} /\ leader \in {"time", "pid"} /\ alone \in BOOLEAN
  /\ thread \in [Thread -> Name \cup {"user", "gone"}]
  /\ obs \in [Name -> [count : Nat, exitCount : Nat]]
  /\ made \in [Name -> Nat] /\ printed \in [Name -> Nat]

(* strace writes only while it is attached, the scanner starts with it and   *)
(* ends behind it, and the line strace has begun is that of a call.          *)
InStep ==
  /\ main \in {"start", "failed"} => strace = "off" /\ scanner = "off" /\ ~killed
  /\ strace # "attached" => out = <<>>
  /\ scanner = "done" => pipe = <<>> /\ strace = "exited"
  /\ open # NoThread => thread[open] \in Name

(* The line that Cut prints is one of a call that is being made.             *)
LEMMA CutType ==
  ASSUME StTypeOK, InStep, NEW t \in Thread
  PROVE  /\ Cut(t) \in Seq(Line)
         /\ Cut(t) = <<>> \/ \E l \in Line : l.kind = "unfinished" /\ Cut(t) = <<l>>
<1>1. CASE open \in {t, NoThread}
  BY <1>1 DEF Cut
<1>2. CASE open \notin {t, NoThread}
  <2> DEFINE l == [kind |-> "unfinished", name |-> thread[open], leader |-> leader]
  <2>1. l \in Line /\ l.kind = "unfinished"
    BY <1>2 DEF InStep, Line, StTypeOK
  <2>2. Cut(t) = <<l>>
    BY <1>2 DEF Cut
  <2> HIDE DEF l
  <2> QED BY <2>1, <2>2
<1> QED BY <1>1, <1>2

(* The end of a call is a line that shows it in full.                        *)
LEMMA EndsType ==
  ASSUME StTypeOK, InStep, NEW t \in Thread, CallExit(t) \/ CallNeverReturns(t)
  PROVE  \E l \in Line :
           /\ l.kind \in {"complete", "resumed", "noreturn"} /\ l.name = thread[t]
           /\ l.leader = (IF open = t THEN leader ELSE Leader)
           /\ out' = Append(Cut(t), l)
           /\ printed' = [printed EXCEPT ![thread[t]] = IF l.leader = "time" THEN @ + 1 ELSE @]
<1>1. PICK k \in {"complete", "resumed", "noreturn"}, next \in {"user", "gone"} :
        CallEnds(t, k, next) /\ thread[t] \in Name
  <2>1. CASE CallExit(t)
    BY <2>1 DEF CallExit
  <2>2. CASE CallNeverReturns(t)
    BY <2>2, StraceAssumption DEF CallNeverReturns, StraceAssumption
  <2> QED BY <2>1, <2>2
<1> DEFINE p == IF open = t THEN leader ELSE Leader
           l == [kind |-> k, name |-> thread[t], leader |-> p]
<1>2. p \in {"time", "pid"}
  BY DEF StTypeOK, Leader
<1>3. /\ out' = Append(Cut(t), l)
      /\ printed' = [printed EXCEPT ![thread[t]] = IF p = "time" THEN @ + 1 ELSE @]
  BY <1>1 DEF CallEnds
<1> HIDE DEF p
<1>4. l \in Line /\ l.kind = k /\ l.name = thread[t] /\ l.leader = p
  BY <1>1, <1>2 DEF Line
<1> HIDE DEF l
<1> QED BY <1>1, <1>3, <1>4 DEF p

(* Recording a line keeps the observation one.                               *)
LEMMA RecordType ==
  ASSUME NEW n \in Name, obs \in [Name -> [count : Nat, exitCount : Nat]]
  PROVE  [obs EXCEPT ![n] = Record(@)] \in [Name -> [count : Nat, exitCount : Nat]]
<1>1. Record(obs[n]) \in [count : Nat, exitCount : Nat]
  BY DEF Record
<1> QED BY <1>1

(* Types and order of events are kept by every step.                         *)
LEMMA StTypeStep == StTypeOK /\ InStep /\ [Next]_vars => StTypeOK' /\ InStep'
<1> SUFFICES ASSUME StTypeOK, InStep, [Next]_vars PROVE StTypeOK' /\ InStep'
  OBVIOUS
<1> USE StraceAssumption DEF StraceAssumption
<1>1. CASE Attach
  BY <1>1 DEF StTypeOK, InStep, Attach, driverVars
<1>2. ASSUME NEW t \in Thread, NEW n \in Name, CallEnter(t, n) PROVE StTypeOK' /\ InStep'
  <2>1. made' \in [Name -> Nat] /\ thread' \in [Thread -> Name \cup {"user", "gone"}]
    BY <1>2 DEF StTypeOK, CallEnter
  <2>2. /\ thread'[t] = n /\ open' = t /\ strace = "attached" /\ out' \in Seq(Line)
        /\ leader' \in {"time", "pid"}
    BY <1>2, CutType DEF StTypeOK, CallEnter, Tracing, Leader
  <2> QED BY <1>2, <2>1, <2>2 DEF StTypeOK, InStep, CallEnter, driverVars
<1>3. ASSUME NEW t \in Thread, CallExit(t) \/ CallNeverReturns(t) PROVE StTypeOK' /\ InStep'
  <2>1. PICK l \in Line : /\ out' = Append(Cut(t), l) /\ l.name = thread[t]
                          /\ printed' = [printed EXCEPT ![l.name] = IF l.leader = "time" THEN @ + 1 ELSE @]
    BY <1>3, EndsType
  <2>2. out' \in Seq(Line)
    BY <2>1, CutType
  <2>3. printed' \in [Name -> Nat]
    <3>1. printed \in [Name -> Nat] /\ l.name \in Name
      BY DEF StTypeOK, Line
    <3> QED BY <2>1, <3>1
  <2>4. /\ thread' \in [Thread -> Name \cup {"user", "gone"}]
        /\ open' = NoThread /\ leader' = "time" /\ strace' = "attached" /\ strace = "attached"
        /\ UNCHANGED <<driverVars, scanner, pipe, obs, made, alone>>
    BY <1>3 DEF StTypeOK, CallExit, CallNeverReturns, CallEnds, Tracing
  <2> QED BY <2>2, <2>3, <2>4 DEF StTypeOK, InStep, driverVars
<1>4. ASSUME NEW t \in Thread, Signalled(t) PROVE StTypeOK' /\ InStep'
  <2>1. /\ [kind |-> "unfinished", name |-> thread[t], leader |-> leader] \in Line
        /\ [kind |-> "signal", name |-> thread[t], leader |-> Leader] \in Line
    BY <1>4 DEF Signalled, Line, StTypeOK, Leader
  <2>2. out' \in Seq(Line)
    BY <1>4, <2>1 DEF Signalled
  <2> QED BY <1>4, <2>2 DEF StTypeOK, InStep, Signalled, Tracing, driverVars
<1>5. CASE Write
  <2>1. pipe' \in Seq(Line) /\ out' \in Seq(Line) /\ strace = "attached" /\ strace' = "attached"
    BY <1>5 DEF StTypeOK, InStep, Write
  <2> QED BY <1>5, <2>1 DEF StTypeOK, InStep, Write, driverVars
<1>6. CASE Detach
  <2>1. pipe' \in Seq(Line)
    <3>1. CASE open = NoThread
      BY <1>6, <3>1 DEF StTypeOK, Detach
    <3>2. CASE open # NoThread
      <4>1. [kind |-> "detached", name |-> thread[open], leader |-> leader] \in Line
        BY <3>2 DEF InStep, Line, StTypeOK
      <4> QED BY <1>6, <3>2, <4>1 DEF StTypeOK, Detach
    <3> QED BY <3>1, <3>2
  <2> QED BY <1>6, <2>1 DEF StTypeOK, InStep, Detach, Tracing, driverVars
<1>7. CASE TargetGone \/ Die
  <2>1. CASE TargetGone
    BY <2>1 DEF StTypeOK, InStep, TargetGone, Tracing, driverVars
  <2>2. CASE Die
    BY <2>2 DEF StTypeOK, InStep, Die, driverVars
  <2> QED BY <1>7, <2>1, <2>2
<1>8. CASE ScanLine \/ ScanEOF
  <2>1. CASE ScanLine
    <3>1. Head(pipe) \in Line /\ Head(pipe).name \in Name /\ pipe' \in Seq(Line)
      <4>1. pipe \in Seq(Line) /\ pipe # <<>> /\ pipe' = Tail(pipe)
        BY <2>1 DEF ScanLine, StTypeOK
      <4>2. Head(pipe) \in Line /\ Tail(pipe) \in Seq(Line)
        BY <4>1
      <4> QED BY <4>1, <4>2 DEF Line
    <3>2. obs' \in [Name -> [count : Nat, exitCount : Nat]]
      BY <2>1, <3>1, RecordType DEF ScanLine, StTypeOK
    <3> QED BY <2>1, <3>1, <3>2 DEF StTypeOK, InStep, ScanLine, driverVars, straceVars
  <2>2. CASE ScanEOF
    BY <2>2 DEF StTypeOK, InStep, ScanEOF, driverVars, straceVars
  <2> QED BY <1>8, <2>1, <2>2
<1>9. CASE StartStrace \/ Interrupt
  <2>1. CASE StartStrace
    BY <2>1 DEF StTypeOK, InStep, StartStrace
  <2>2. CASE Interrupt
    BY <2>2 DEF StTypeOK, InStep, Interrupt, straceVars
  <2> QED BY <1>9, <2>1, <2>2
<1>10. CASE SelectDone \/ SelectTimeout \/ Drain \/ Wait
  BY <1>10 DEF StTypeOK, InStep, SelectDone, SelectTimeout, Drain, Wait, straceVars
<1>11. CASE UNCHANGED vars
  BY <1>11 DEF StTypeOK, InStep, vars, driverVars, straceVars
<1>12. ASSUME NEW t \in Thread, NEW u \in Thread, Clone(t, u) PROVE StTypeOK' /\ InStep'
  <2>1. /\ thread' \in [Thread -> Name \cup {"user", "gone"}] /\ alone' = FALSE
        /\ open # NoThread => thread'[open] = thread[open]
    <3>1. open # NoThread => open # u
      BY <1>12 DEF Clone, InStep
    <3> QED BY <1>12, <3>1 DEF StTypeOK, Clone
  <2> QED BY <1>12, <2>1 DEF StTypeOK, InStep, Clone, driverVars
<1> QED BY <1>1, <1>2, <1>3, <1>4, <1>5, <1>6, <1>7, <1>8, <1>9, <1>10, <1>11, <1>12 DEF Next

(* Of every variable of the strace sensor: its type is kept, for any calls,  *)
(* threads and pipe, and the parties stay in step.                           *)
LEMMA InStepAlways == Spec => [](StTypeOK /\ InStep)
<1>1. Init => StTypeOK /\ InStep
  <2> SUFFICES ASSUME Init PROVE StTypeOK /\ InStep
    OBVIOUS
  <2>1. out \in Seq(Line) /\ pipe \in Seq(Line) /\ alone \in BOOLEAN
    BY DEF Init, Leader
  <2> QED BY <2>1 DEF Init, StTypeOK, InStep
<1> QED BY <1>1, StTypeStep, PTL DEF Spec

----------------------------------------------------------------------------
(* Every call of n is counted, on its way to be, or being made.              *)

Extra(n) == IF n \in EqInArgs THEN 1 ELSE 0
Total(n) == obs[n].count + OnWay(Parsed(n))

(* How many lines of a queue are in a set is a number.                       *)
LEMMA AmongType ==
  ASSUME NEW S, NEW q \in Seq(Line)
  PROVE  Cardinality(Among(q, S)) \in Nat
<1>1. CASE q = <<>>
  BY <1>1, AmongNone
<1>2. CASE q # <<>>
  <2>1. /\ Cardinality(Among(Tail(q), S)) \in Nat
        /\ Cardinality(Among(q, S)) = IF Head(q) \in S THEN Cardinality(Among(Tail(q), S)) + 1
                                      ELSE Cardinality(Among(Tail(q), S))
    BY <1>2, AmongTail
  <2> QED BY <2>1
<1> QED BY <1>1, <1>2

(* The parts of a total are numbers, before a step and after it.             *)
LEMMA TotalParts ==
  ASSUME StTypeOK, StTypeOK', NEW n \in Name
  PROVE  /\ obs[n].count \in Nat /\ obs'[n].count \in Nat
         /\ Cardinality(Among(out, Parsed(n))) \in Nat
         /\ Cardinality(Among(pipe, Parsed(n))) \in Nat
         /\ Cardinality(Among(out', Parsed(n))) \in Nat
         /\ Cardinality(Among(pipe', Parsed(n))) \in Nat
         /\ Total(n) = obs[n].count + (Cardinality(Among(out, Parsed(n)))
                                       + Cardinality(Among(pipe, Parsed(n))))
         /\ Total(n)' = obs'[n].count + (Cardinality(Among(out', Parsed(n)))
                                         + Cardinality(Among(pipe', Parsed(n))))
<1>1. /\ obs[n].count \in Nat /\ obs'[n].count \in Nat
      /\ out \in Seq(Line) /\ pipe \in Seq(Line) /\ out' \in Seq(Line) /\ pipe' \in Seq(Line)
  BY DEF StTypeOK
<1> QED BY <1>1, AmongType DEF Total, OnWay

(* Which lines are counted, if they have no leader: those of a call printed  *)
(* in full, and the one that is cut off when strace stops if its arguments   *)
(* contain " = ".                                                            *)
LEMMA WhichParse ==
  ASSUME NEW n \in Name, NEW l \in Line
  PROVE  /\ l \in Parsed(n) <=> l.name = n /\ ParseLine(l)
         /\ l \in Full(n) <=> l.name = n /\ l.kind \in {"complete", "resumed", "noreturn"} /\ l.leader = "time"
         /\ l.kind \in {"unfinished", "signal"} => l \notin Parsed(n)
         /\ l.kind # "detached" => (l \in Parsed(n) <=> l \in Full(n))
         /\ l.kind = "detached" => (l \in Parsed(n) <=> l.name = n /\ Extra(n) = 1 /\ l.leader = "time")
BY DEF Line, Parsed, ParseLine, Full, Extra

(* What strace cuts off and prints of a signal is not counted.               *)
LEMMA UncountedLines ==
  ASSUME StTypeOK, InStep, NEW n \in Name, NEW t \in Thread
  PROVE  /\ Cardinality(Among(Cut(t), Parsed(n))) = 0
         /\ Signalled(t) => Cardinality(Among(out', Parsed(n))) = 0
<1>1. Cardinality(Among(Cut(t), Parsed(n))) = 0
  <2>1. CASE Cut(t) = <<>>
    BY <2>1, AmongNone
  <2>2. ASSUME NEW l \in Line, l.kind = "unfinished", Cut(t) = <<l>>
        PROVE  Cardinality(Among(Cut(t), Parsed(n))) = 0
    <3>1. l \notin Parsed(n)
      BY <2>2, WhichParse
    <3>2. Among(Cut(t), Parsed(n)) = {}
      BY <2>2, <3>1 DEF Among
    <3> QED BY <3>2, FS_EmptySet
  <2> QED BY <2>1, <2>2, CutType
<1>2. ASSUME Signalled(t) PROVE Cardinality(Among(out', Parsed(n))) = 0
  <2> DEFINE a == [kind |-> "unfinished", name |-> thread[t], leader |-> leader]
             b == [kind |-> "signal", name |-> thread[t], leader |-> Leader]
  <2>1. a \in Line /\ b \in Line /\ a.kind = "unfinished" /\ b.kind = "signal" /\ out' = <<a, b>>
    BY <1>2 DEF Signalled, Line, StTypeOK, Leader
  <2> HIDE DEF a, b
  <2>2. a \notin Parsed(n) /\ b \notin Parsed(n)
    BY <2>1, WhichParse
  <2>3. Among(out', Parsed(n)) = {}
    BY <2>1, <2>2 DEF Among
  <2> QED BY <2>3, FS_EmptySet
<1> QED BY <1>1, <1>2

(* A line moves from strace to the pipe and from there to the observation    *)
(* without being lost or counted twice.                                      *)
LEMMA LinesPass ==
  ASSUME StTypeOK, StTypeOK', NEW n \in Name, Write \/ ScanLine
  PROVE  Total(n)' = Total(n)
<1> DEFINE P == Parsed(n)
<1>1. CASE Write
  <2>1. /\ out \in Seq(Line) /\ out # <<>> /\ pipe \in Seq(Line)
        /\ pipe' = Append(pipe, Head(out)) /\ out' = Tail(out) /\ obs' = obs
    BY <1>1 DEF Write, StTypeOK
  <2>2. Head(out) \in Line
    BY <2>1
  <2> HIDE DEF P
  <2>3. /\ Cardinality(Among(out, P)) = IF Head(out) \in P THEN Cardinality(Among(out', P)) + 1
                                        ELSE Cardinality(Among(out', P))
        /\ Cardinality(Among(pipe', P)) = IF Head(out) \in P THEN Cardinality(Among(pipe, P)) + 1
                                          ELSE Cardinality(Among(pipe, P))
    <3>1. Cardinality(Among(out, P)) = IF Head(out) \in P THEN Cardinality(Among(Tail(out), P)) + 1
                                       ELSE Cardinality(Among(Tail(out), P))
      BY <2>1, AmongTail
    <3>2. Cardinality(Among(Append(pipe, Head(out)), P)) =
            IF Head(out) \in P THEN Cardinality(Among(pipe, P)) + 1
            ELSE Cardinality(Among(pipe, P))
      BY <2>1, <2>2, AmongAppend
    <3> QED BY <2>1, <3>1, <3>2
  <2>4. obs'[n].count = obs[n].count
    BY <2>1
  <2> QED BY <2>3, <2>4, TotalParts DEF P
<1>2. CASE ScanLine
  <2> DEFINE l == Head(pipe)
  <2>1. /\ pipe \in Seq(Line) /\ pipe # <<>> /\ pipe' = Tail(pipe) /\ out' = out
        /\ obs' = IF ParseLine(l) THEN [obs EXCEPT ![l.name] = Record(@)] ELSE obs
    BY <1>2 DEF ScanLine, StTypeOK, straceVars
  <2>2. l \in Line /\ (l \in P <=> l.name = n /\ ParseLine(l)) /\ l.name \in Name
    <3>1. l \in Line
      BY <2>1
    <3> HIDE DEF l
    <3>2. l \in P <=> l.name = n /\ ParseLine(l)
      BY <3>1, WhichParse
    <3> QED BY <3>1, <3>2 DEF Line
  <2>3. obs'[n].count = IF l \in P THEN obs[n].count + 1 ELSE obs[n].count
    <3>1. obs \in [Name -> [count : Nat, exitCount : Nat]]
      BY DEF StTypeOK
    <3> HIDE DEF l, P
    <3> QED BY <2>1, <2>2, <3>1 DEF Record
  <2> HIDE DEF P
  <2>4. Cardinality(Among(pipe, P)) = IF l \in P THEN Cardinality(Among(pipe', P)) + 1
                                      ELSE Cardinality(Among(pipe', P))
    BY <2>1, AmongTail
  <2> HIDE DEF l
  <2> QED BY <2>1, <2>3, <2>4, TotalParts DEF P
<1> QED BY <1>1, <1>2

(* strace starts to print a call, or of a signal: nothing is counted more.   *)
LEMMA QuietSteps ==
  ASSUME StTypeOK, StTypeOK', InStep, NEW n \in Name,
         \/ \E t \in Thread : Signalled(t) \/ \E m \in Name : CallEnter(t, m)
         \/ Write \/ ScanLine
         \/ UNCHANGED <<out, pipe, obs>>
  PROVE  Total(n)' = Total(n)
<1>1. CASE \E t \in Thread : Signalled(t) \/ \E m \in Name : CallEnter(t, m)
  <2>1. PICK t \in Thread : Signalled(t) \/ \E m \in Name : CallEnter(t, m)
    BY <1>1
  <2>2. /\ out = <<>> /\ pipe' = pipe /\ obs' = obs /\ (out' = Cut(t) \/ Signalled(t))
    BY <2>1 DEF Signalled, CallEnter, Tracing
  <2>3. /\ Cardinality(Among(out', Parsed(n))) = 0 /\ Cardinality(Among(out, Parsed(n))) = 0
    BY <2>2, UncountedLines, AmongNone
  <2> QED BY <2>2, <2>3, TotalParts
<1>2. CASE Write \/ ScanLine
  BY <1>2, LinesPass
<1>3. CASE UNCHANGED <<out, pipe, obs>>
  BY <1>3 DEF Total, OnWay
<1> QED BY <1>1, <1>2, <1>3

(* The last line of a call: no leader is to be in front of it.               *)
Plain(t) == (IF open = t THEN leader ELSE Leader) = "time"

(* A call that is printed in full without a leader is counted once more, any *)
(* other is not, and neither is being made any longer.                       *)
LEMMA PrintedStep ==
  ASSUME StTypeOK, StTypeOK', InStep, NEW n \in Name, NEW t \in Thread,
         CallExit(t) \/ CallNeverReturns(t)
  PROVE  /\ Total(n)' = IF thread[t] = n /\ Plain(t) THEN Total(n) + 1 ELSE Total(n)
         /\ printed'[n] = IF thread[t] = n /\ Plain(t) THEN printed[n] + 1 ELSE printed[n]
         /\ strace = "attached" /\ strace' = strace /\ made' = made /\ killed' = killed
         /\ alone' = alone
<1>1. PICK l \in Line :
        /\ l.kind \in {"complete", "resumed", "noreturn"} /\ l.name = thread[t]
        /\ (l.leader = "time" <=> Plain(t)) /\ out' = Append(Cut(t), l)
        /\ printed' = [printed EXCEPT ![l.name] = IF l.leader = "time" THEN @ + 1 ELSE @]
  <2>1. PICK l \in Line :
          /\ l.kind \in {"complete", "resumed", "noreturn"} /\ l.name = thread[t]
          /\ l.leader = (IF open = t THEN leader ELSE Leader)
          /\ out' = Append(Cut(t), l)
          /\ printed' = [printed EXCEPT ![thread[t]] = IF l.leader = "time" THEN @ + 1 ELSE @]
    BY EndsType
  <2>2. l.leader = "time" <=> Plain(t)
    BY <2>1 DEF Plain
  <2>3. printed' = [printed EXCEPT ![l.name] = IF l.leader = "time" THEN @ + 1 ELSE @]
    BY <2>1
  <2> QED BY <2>1, <2>2, <2>3
<1>2. /\ out = <<>> /\ pipe' = pipe /\ obs' = obs
      /\ strace = "attached" /\ strace' = strace /\ made' = made /\ killed' = killed
      /\ alone' = alone
  BY DEF CallExit, CallNeverReturns, CallEnds, Tracing, driverVars
<1>3. printed'[n] = IF thread[t] = n /\ Plain(t) THEN printed[n] + 1 ELSE printed[n]
  <2>1. printed \in [Name -> Nat] /\ l.name \in Name
    BY DEF StTypeOK, Line
  <2> QED BY <1>1, <2>1
<1> DEFINE P == Parsed(n)
<1>4. l \in P <=> l.name = n /\ Plain(t)
  <2>1. l.kind # "detached" /\ (l \in Full(n) <=> l.name = n /\ l.leader = "time")
    BY <1>1, WhichParse
  <2> QED BY <1>1, <2>1, WhichParse
<1>5. Cut(t) \in Seq(Line)
  BY CutType
<1> HIDE DEF P
<1>6. Cardinality(Among(out', P)) = IF l \in P THEN Cardinality(Among(Cut(t), P)) + 1
                                    ELSE Cardinality(Among(Cut(t), P))
  BY <1>1, <1>5, AmongAppend
<1>7. Cardinality(Among(Cut(t), P)) = 0 /\ Cardinality(Among(out, P)) = 0
  BY <1>2, UncountedLines, AmongNone DEF P
<1>8. Total(n)' = IF thread[t] = n /\ Plain(t) THEN Total(n) + 1 ELSE Total(n)
  BY <1>1, <1>2, <1>4, <1>6, <1>7, TotalParts DEF P
<1> QED BY <1>2, <1>3, <1>8

(* The line strace is in when it detaches counts at most once more, for a    *)
(* call that is being made.                                                  *)
LEMMA DetachStep ==
  ASSUME StTypeOK, StTypeOK', InStep, NEW n \in Name, Detach
  PROVE  \/ Total(n)' = Total(n)
         \/ Total(n)' = Total(n) + 1 /\ Extra(n) = 1 /\ \E t \in Thread : thread[t] = n
<1>1. out = <<>> /\ out' = out /\ obs' = obs
  BY DEF Detach, Tracing
<1>2. CASE open = NoThread
  BY <1>1, <1>2, QuietSteps DEF Detach
<1>3. CASE open # NoThread
  <2> DEFINE l == [kind |-> "detached", name |-> thread[open], leader |-> leader]
             P == Parsed(n)
  <2>1. l \in Line /\ l.kind = "detached" /\ l.name = thread[open] /\ pipe' = Append(pipe, l)
    BY <1>3 DEF InStep, Line, Detach, StTypeOK
  <2>2. open \in Thread /\ pipe \in Seq(Line)
    BY <1>3 DEF StTypeOK
  <2> HIDE DEF l
  <2>3. l \in P <=> l.name = n /\ Extra(n) = 1 /\ l.leader = "time"
    BY <2>1, WhichParse
  <2> HIDE DEF P
  <2>4. Cardinality(Among(pipe', P)) = IF l \in P THEN Cardinality(Among(pipe, P)) + 1
                                       ELSE Cardinality(Among(pipe, P))
    BY <2>1, <2>2, AmongAppend
  <2>5. Total(n)' = IF l \in P THEN Total(n) + 1 ELSE Total(n)
    BY <1>1, <2>4, TotalParts DEF P
  <2> QED BY <2>1, <2>2, <2>3, <2>5
<1> QED BY <1>2, <1>3

(* Calls that are printed in full, or are still being made; of a target with  *)
(* one thread these are all calls.                                           *)
MadeOrPrinted ==
  \A n \in Name : /\ printed[n] + Cardinality(InCall(n)) <= made[n]
                  /\ alone => printed[n] + Cardinality(InCall(n)) = made[n]

(* A target that never had two threads gets no leader.                       *)
AloneIsPlain == alone => leader = "time" /\ Leader = "time"

(* Threads that end leave one alone, and only a clone adds one.              *)
LEMMA AloneStep ==
  ASSUME StTypeOK, StTypeOK', InStep, [Next]_vars, AloneIsPlain
  PROVE  AloneIsPlain'
<1> SUFFICES ASSUME alone' PROVE leader' = "time" /\ Leader' = "time"
  BY DEF AloneIsPlain
<1> DEFINE A == {t \in Thread : thread[t] # "gone"}
           B == {t \in Thread : thread'[t] # "gone"}
<1>1. \A t, u \in Thread : ~Clone(t, u)
  BY DEF Clone
<1>2. alone
  BY <1>1 DEF Next, Attach, CallEnter, CallExit, CallNeverReturns, CallEnds, Signalled, Write, Detach,
              TargetGone, Die, ScanLine, ScanEOF, StartStrace, Interrupt, SelectDone, SelectTimeout,
              Drain, Wait, vars, driverVars, straceVars
<1>3. leader = "time" /\ Leader = "time" /\ ~(Cardinality(A) > 1)
  BY <1>2 DEF AloneIsPlain, Leader
<1>4. leader' \in {leader, Leader, "time"}
  BY <1>1 DEF Next, Attach, CallEnter, CallExit, CallNeverReturns, CallEnds, Signalled, Write, Detach,
              TargetGone, Die, ScanLine, ScanEOF, StartStrace, Interrupt, SelectDone, SelectTimeout,
              Drain, Wait, vars, driverVars, straceVars
<1>5. B \in SUBSET A
  <2>1. CASE thread' = thread
    BY <2>1
  <2>2. ASSUME NEW t \in Thread, NEW n \in Name, CallEnter(t, n) PROVE B \in SUBSET A
    BY <2>2 DEF CallEnter, StTypeOK
  <2>3. ASSUME NEW t \in Thread, CallExit(t) \/ CallNeverReturns(t) PROVE B \in SUBSET A
    <3>1. thread[t] \in Name /\ t \in A
      BY <2>3, StraceAssumption DEF CallExit, CallNeverReturns, StraceAssumption
    <3>2. \E x : thread' = [thread EXCEPT ![t] = x]
      BY <2>3 DEF CallExit, CallNeverReturns, CallEnds
    <3> QED BY <3>1, <3>2 DEF StTypeOK
  <2> QED BY <1>1, <2>1, <2>2, <2>3
       DEF Next, Attach, Signalled, Write, Detach, TargetGone, Die, ScanLine, ScanEOF, StartStrace,
           Interrupt, SelectDone, SelectTimeout, Drain, Wait, vars, driverVars, straceVars
<1>6. IsFiniteSet(A) /\ Cardinality(A) \in Nat
  <2>1. A \in SUBSET Thread /\ IsFiniteSet(Thread)
    BY StraceAssumption DEF StraceAssumption
  <2>2. IsFiniteSet(A)
    BY <2>1, FS_Subset
  <2> QED BY <2>2, FS_CardinalityType
<1>7. Cardinality(B) \in Nat /\ Cardinality(B) <= Cardinality(A)
  <2> HIDE DEF A, B
  <2>1. IsFiniteSet(B) /\ Cardinality(B) <= Cardinality(A)
    BY <1>5, <1>6, FS_Subset
  <2> QED BY <2>1, FS_CardinalityType
<1>8. Leader' = "time"
  <2>1. Leader' = IF Cardinality(B) > 1 THEN "pid" ELSE "time"
    BY DEF Leader
  <2> HIDE DEF A, B
  <2> QED BY <1>3, <1>6, <1>7, <2>1
<1> QED BY <1>3, <1>4, <1>8

(* Threads that are in a call can be counted.                                *)
LEMMA InCallFinite ==
  ASSUME NEW n
  PROVE  IsFiniteSet(InCall(n)) /\ Cardinality(InCall(n)) \in Nat
<1>1. InCall(n) \in SUBSET Thread /\ IsFiniteSet(Thread)
  BY StraceAssumption DEF InCall, StraceAssumption
<1>2. IsFiniteSet(InCall(n))
  BY <1>1, FS_Subset
<1> QED BY <1>2, FS_CardinalityType

(* A thread enters a call or ends it, and strace prints it at the end.       *)
LEMMA MadeOrPrintedStep ==
  ASSUME StTypeOK, StTypeOK', InStep, [Next]_vars, MadeOrPrinted, AloneIsPlain
  PROVE  MadeOrPrinted'
<1> SUFFICES ASSUME NEW n \in Name
             PROVE  /\ printed'[n] + Cardinality(InCall(n)') <= made'[n]
                    /\ alone' => printed'[n] + Cardinality(InCall(n)') = made'[n]
  BY DEF MadeOrPrinted
<1> DEFINE C == InCall(n)
           Goal == /\ printed'[n] + Cardinality(InCall(n)') <= made'[n]
                   /\ alone' => printed'[n] + Cardinality(InCall(n)') = made'[n]
<1>1. /\ IsFiniteSet(C) /\ Cardinality(C) \in Nat /\ printed[n] \in Nat /\ made[n] \in Nat
      /\ printed[n] + Cardinality(C) <= made[n]
      /\ alone => printed[n] + Cardinality(C) = made[n]
  BY InCallFinite DEF MadeOrPrinted, StTypeOK
<1>2. ASSUME NEW t \in Thread, NEW m \in Name, CallEnter(t, m) PROVE Goal
  <2>1. /\ t \notin C /\ InCall(n)' = IF m = n THEN C \cup {t} ELSE C
    BY <1>2, StraceAssumption DEF StraceAssumption, StTypeOK, CallEnter, InCall
  <2>2. printed' = printed /\ made'[n] = (IF m = n THEN made[n] + 1 ELSE made[n]) /\ alone' = alone
    BY <1>2 DEF StTypeOK, CallEnter
  <2> HIDE DEF C
  <2>3. Cardinality(C \cup {t}) = IF t \in C THEN Cardinality(C) ELSE Cardinality(C) + 1
    BY <1>1, FS_AddElement
  <2> QED BY <1>1, <2>1, <2>2, <2>3
<1>3. ASSUME NEW t \in Thread, CallExit(t) \/ CallNeverReturns(t) PROVE Goal
  <2>1. thread' = [thread EXCEPT ![t] = "user"] \/ thread' = [thread EXCEPT ![t] = "gone"]
    BY <1>3 DEF CallExit, CallNeverReturns, CallEnds
  <2>2. InCall(n)' = IF thread[t] = n THEN C \ {t} ELSE C
    BY <2>1, StraceAssumption DEF StraceAssumption, StTypeOK, InCall
  <2>3. thread[t] = n <=> t \in C
    BY DEF InCall
  <2>4. /\ printed'[n] = IF thread[t] = n /\ Plain(t) THEN printed[n] + 1 ELSE printed[n]
        /\ made' = made /\ alone' = alone
    BY <1>3, PrintedStep
  <2>5. alone => Plain(t)
    BY DEF AloneIsPlain, Plain
  <2> HIDE DEF C
  <2>6. Cardinality(C \ {t}) = IF t \in C THEN Cardinality(C) - 1 ELSE Cardinality(C)
    BY <1>1, FS_RemoveElement
  <2>7. CASE thread[t] = n
    BY <1>1, <2>2, <2>3, <2>4, <2>5, <2>6, <2>7
  <2>8. CASE thread[t] # n
    BY <1>1, <2>2, <2>4, <2>8
  <2> QED BY <2>7, <2>8
<1>4. ASSUME NEW t \in Thread, NEW u \in Thread, Clone(t, u) PROVE Goal
  <2>1. InCall(n)' = C
    BY <1>4, StraceAssumption DEF StraceAssumption, StTypeOK, Clone, InCall
  <2>2. printed' = printed /\ made' = made /\ alone' = FALSE
    BY <1>4 DEF Clone
  <2> QED BY <1>1, <2>1, <2>2
<1>5. CASE UNCHANGED <<thread, made, printed, alone>>
  BY <1>1, <1>5 DEF InCall
<1>6. \/ \E t \in Thread, m \in Name : CallEnter(t, m)
      \/ \E t \in Thread : CallExit(t) \/ CallNeverReturns(t)
      \/ \E t, u \in Thread : Clone(t, u)
      \/ UNCHANGED <<thread, made, printed, alone>>
  BY DEF Next, Attach, Signalled, Write, Detach, TargetGone, Die, ScanLine, ScanEOF, StartStrace,
         Interrupt, SelectDone, SelectTimeout, Drain, Wait, vars, driverVars, straceVars
<1> QED BY <1>2, <1>3, <1>4, <1>5, <1>6

(* The inductive invariant: until strace ends every call printed in full is  *)
(* counted or on its way, afterwards lines are lost only by the kill, and    *)
(* the one line too many is that of a call the target made.                  *)
Counting ==
  \A n \in Name :
    /\ strace # "exited" => Total(n) = printed[n]
    /\ ~killed => Total(n) \in printed[n] .. printed[n] + Extra(n)
    /\ Total(n) <= printed[n] + Extra(n)
    /\ Total(n) <= made[n]

(* Every step keeps the count.                                              *)
LEMMA CountingStep ==
  ASSUME StTypeOK, StTypeOK', InStep, [Next]_vars, MadeOrPrinted, MadeOrPrinted', Counting
  PROVE  Counting'
<1> SUFFICES ASSUME NEW n \in Name
             PROVE  /\ strace' # "exited" => Total(n)' = printed'[n]
                    /\ ~killed' => Total(n)' \in printed'[n] .. printed'[n] + Extra(n)
                    /\ Total(n)' <= printed'[n] + Extra(n)
                    /\ Total(n)' <= made'[n]
  BY DEF Counting, Extra
<1>1. /\ Total(n) \in Nat /\ Total(n)' \in Nat /\ Extra(n) \in {0, 1}
      /\ printed[n] \in Nat /\ made[n] \in Nat /\ printed'[n] \in Nat /\ made'[n] \in Nat
      /\ strace # "exited" => Total(n) = printed[n]
      /\ ~killed => Total(n) \in printed[n] .. printed[n] + Extra(n)
      /\ Total(n) <= printed[n] + Extra(n)
      /\ Total(n) <= made[n]
  <2>1. Total(n) \in Nat /\ Total(n)' \in Nat
    BY TotalParts
  <2>2. /\ printed[n] \in Nat /\ made[n] \in Nat /\ printed'[n] \in Nat /\ made'[n] \in Nat
    BY DEF StTypeOK
  <2> QED BY <2>1, <2>2 DEF Counting, Extra
<1>2. printed[n] <= made[n] /\ printed'[n] <= made'[n]
  <2>1. Cardinality(InCall(n)) \in Nat /\ printed[n] + Cardinality(InCall(n)) <= made[n]
    BY InCallFinite DEF MadeOrPrinted
  <2>2. Cardinality(InCall(n)') \in Nat /\ printed'[n] + Cardinality(InCall(n)') <= made'[n]
    <3>1. InCall(n)' = {t \in Thread : thread'[t] = n}
      BY DEF InCall
    <3>2. InCall(n)' \in SUBSET Thread /\ IsFiniteSet(Thread)
      BY <3>1, StraceAssumption DEF StraceAssumption
    <3>3. IsFiniteSet(InCall(n)')
      BY <3>2, FS_Subset
    <3> QED BY <3>3, FS_CardinalityType DEF MadeOrPrinted
  <2> QED BY <1>1, <2>1, <2>2
<1>3. ASSUME NEW t \in Thread, CallExit(t) \/ CallNeverReturns(t)
      PROVE  Total(n)' = printed'[n] /\ (~killed' => ~killed)
  BY <1>1, <1>3, PrintedStep
<1>4. ASSUME Detach
      PROVE  /\ strace' = "exited" /\ printed' = printed /\ made' = made
             /\ Total(n)' \in printed[n] .. printed[n] + Extra(n) /\ Total(n)' <= made[n]
  <2>1. strace = "attached" /\ strace' = "exited" /\ printed' = printed /\ made' = made
    BY <1>4 DEF Detach, Tracing
  <2>2. ASSUME NEW t \in Thread, thread[t] = n PROVE printed[n] < made[n]
    <3>1. IsFiniteSet(InCall(n)) /\ t \in InCall(n)
      BY <2>2, InCallFinite DEF InCall
    <3>2. Cardinality(InCall(n)) \in Nat /\ Cardinality(InCall(n)) # 0
      BY <3>1, InCallFinite, FS_EmptySet
    <3> QED BY <1>1, <3>2 DEF MadeOrPrinted
  <2> QED BY <1>1, <1>2, <1>4, <2>1, <2>2, DetachStep
<1>5. ASSUME Die
      PROVE  /\ strace' = "exited" /\ killed' /\ printed' = printed /\ made' = made
             /\ Total(n)' <= Total(n)
  <2>1. /\ strace' = "exited" /\ killed' /\ printed' = printed /\ made' = made
        /\ out' = <<>> /\ pipe' = pipe /\ obs' = obs
    BY <1>5 DEF Die, driverVars
  <2>2. Cardinality(Among(out', Parsed(n))) = 0
    BY <2>1, AmongNone
  <2> QED BY <2>1, <2>2, TotalParts
<1>6. ASSUME \/ \E t \in Thread : Signalled(t) \/ \E m \in Name : CallEnter(t, m)
             \/ Write \/ ScanLine \/ UNCHANGED <<out, pipe, obs>>,
             printed' = printed, made'[n] >= made[n], strace' # "exited" => strace # "exited",
             ~killed' => ~killed
      PROVE  /\ strace' # "exited" => Total(n)' = printed'[n]
             /\ ~killed' => Total(n)' \in printed'[n] .. printed'[n] + Extra(n)
             /\ Total(n)' <= printed'[n] + Extra(n)
             /\ Total(n)' <= made'[n]
  <2>1. Total(n)' = Total(n)
    BY <1>6, QuietSteps
  <2> QED BY <1>1, <1>6, <2>1
<1>7. CASE \E t \in Thread, m \in Name : CallEnter(t, m)
  <2>1. PICK t \in Thread, m \in Name : CallEnter(t, m)
    BY <1>7
  <2>2. /\ printed' = printed /\ strace' = strace /\ killed' = killed
        /\ made'[n] >= made[n]
    BY <1>1, <2>1 DEF CallEnter, driverVars, StTypeOK
  <2> QED BY <1>6, <2>1, <2>2
<1>8. CASE Write \/ ScanLine \/ \E t \in Thread : Signalled(t)
  <2>1. UNCHANGED <<printed, strace, killed, made>>
    BY <1>8 DEF Write, ScanLine, Signalled, driverVars, straceVars
  <2> QED BY <1>1, <1>6, <1>8, <2>1
<1>9. CASE \/ Attach \/ TargetGone \/ ScanEOF \/ StartStrace \/ Interrupt \/ SelectDone
           \/ SelectTimeout \/ Drain \/ Wait \/ UNCHANGED vars
           \/ \E t, u \in Thread : Clone(t, u)
  <2>1. /\ UNCHANGED <<out, pipe, obs, printed, made>> /\ (~killed' => ~killed)
        /\ strace' # "exited" => strace # "exited"
    <3>1. CASE Attach \/ TargetGone \/ ScanEOF
      BY <3>1 DEF Attach, TargetGone, ScanEOF, driverVars, straceVars
    <3>2. CASE StartStrace
      BY <3>2 DEF InStep, StartStrace
    <3>3. CASE Interrupt \/ SelectDone \/ Drain \/ Wait \/ UNCHANGED vars
      <4>1. UNCHANGED <<straceVars, pipe, obs, killed>>
        BY <3>3 DEF Interrupt, SelectDone, Drain, Wait, vars, driverVars
      <4> QED BY <4>1 DEF straceVars
    <3>4. CASE SelectTimeout
      BY <3>4 DEF SelectTimeout, straceVars
    <3>5. CASE \E t, u \in Thread : Clone(t, u)
      BY <3>5 DEF Clone, driverVars
    <3> QED BY <1>9, <3>1, <3>2, <3>3, <3>4, <3>5
  <2> QED BY <1>1, <1>6, <2>1
<1>10. CASE \E t \in Thread : CallExit(t) \/ CallNeverReturns(t)
  BY <1>1, <1>2, <1>3, <1>10
<1>11. CASE Detach \/ Die
  BY <1>1, <1>2, <1>4, <1>5, <1>11
<1>12. \/ \E t \in Thread, m \in Name : CallEnter(t, m)
       \/ Write \/ ScanLine \/ \E t \in Thread : Signalled(t)
       \/ Attach \/ TargetGone \/ ScanEOF \/ StartStrace \/ Interrupt \/ SelectDone
       \/ SelectTimeout \/ Drain \/ Wait \/ UNCHANGED vars
       \/ \E t, u \in Thread : Clone(t, u)
       \/ \E t \in Thread : CallExit(t) \/ CallNeverReturns(t)
       \/ Detach \/ Die
  BY DEF Next
<1> QED BY <1>7, <1>8, <1>9, <1>10, <1>11, <1>12

(* Of what strace has printed and the scanner has counted: the count is kept *)
(* along every behaviour.                                                    *)
LEMMA CountingAlways ==
  Spec => [](StTypeOK /\ InStep /\ AloneIsPlain /\ MadeOrPrinted /\ Counting)
<1>1. Init => AloneIsPlain /\ MadeOrPrinted /\ Counting
  <2> SUFFICES ASSUME Init
               PROVE  /\ AloneIsPlain
                      /\ \A n \in Name : /\ printed[n] + Cardinality(InCall(n)) = made[n]
                                        /\ Total(n) = 0 /\ printed[n] = 0 /\ made[n] = 0
    BY DEF MadeOrPrinted, Counting, Extra
  <2>1. AloneIsPlain
    BY DEF Init, AloneIsPlain
  <2>2. ASSUME NEW n \in Name
        PROVE  /\ printed[n] + Cardinality(InCall(n)) = made[n]
               /\ Total(n) = 0 /\ printed[n] = 0 /\ made[n] = 0
    <3>1. out = <<>> /\ pipe = <<>> /\ obs[n].count = 0 /\ printed[n] = 0 /\ made[n] = 0
      BY DEF Init
    <3>2. InCall(n) = {}
      BY StraceAssumption DEF StraceAssumption, Init, InCall
    <3>3. Cardinality(InCall(n)) = 0
      BY <3>2, FS_EmptySet
    <3>4. Total(n) = 0
      BY <3>1, AmongNone DEF Total, OnWay
    <3> QED BY <3>1, <3>3, <3>4
  <2> QED BY <2>1, <2>2
<1>2. /\ StTypeOK /\ InStep /\ AloneIsPlain /\ MadeOrPrinted /\ Counting
      /\ StTypeOK' /\ InStep'
      /\ [Next]_vars
      => AloneIsPlain' /\ MadeOrPrinted' /\ Counting'
  BY AloneStep, MadeOrPrintedStep, CountingStep
<1> QED BY <1>1, <1>2, InStepAlways, PTL DEF Spec

(* While strace is attached it has cut off no line.                          *)
NoneCutOff ==
  strace # "exited" => /\ \A i \in DOMAIN out : out[i].kind # "detached"
                       /\ \A i \in DOMAIN pipe : pipe[i].kind # "detached"

(* Only the detach prints such a line, and ends strace.                      *)
LEMMA NoneCutOffStep ==
  ASSUME StTypeOK, InStep, [Next]_vars, NoneCutOff, strace' # "exited"
  PROVE  /\ \A i \in DOMAIN out' : out'[i].kind # "detached"
         /\ \A i \in DOMAIN pipe' : pipe'[i].kind # "detached"
<1>1. strace # "exited"
  BY DEF InStep, Next, Attach, CallEnter, CallExit, CallNeverReturns, CallEnds, Clone, Signalled,
         Write, Detach, TargetGone, Die, ScanLine, ScanEOF, StartStrace, Interrupt, SelectDone, SelectTimeout,
         Drain, Wait, Tracing, vars, straceVars
<1>2. /\ \A i \in DOMAIN out : out[i].kind # "detached"
      /\ \A i \in DOMAIN pipe : pipe[i].kind # "detached"
      /\ out \in Seq(Line) /\ pipe \in Seq(Line)
  BY <1>1 DEF NoneCutOff, StTypeOK
<1>3. CASE Write
  <2>1. out # <<>> /\ pipe' = Append(pipe, Head(out)) /\ out' = Tail(out)
    BY <1>3 DEF Write
  <2> QED BY <1>2, <2>1
<1>4. CASE ScanLine
  <2>1. pipe # <<>> /\ pipe' = Tail(pipe) /\ out' = out
    BY <1>4 DEF ScanLine, straceVars
  <2> QED BY <1>2, <2>1
<1>5. ASSUME NEW t \in Thread, \/ Signalled(t) \/ CallExit(t) \/ CallNeverReturns(t)
                               \/ \E m \in Name : CallEnter(t, m)
                               \/ \E u \in Thread : Clone(t, u)
      PROVE  pipe' = pipe /\ \A i \in DOMAIN out' : out'[i].kind # "detached"
  <2>1. pipe' = pipe
    BY <1>5 DEF Signalled, CallExit, CallNeverReturns, CallEnds, CallEnter, Clone
  <2>2. \A i \in DOMAIN Cut(t) : Cut(t)[i].kind # "detached"
    BY CutType
  <2>3. CASE Signalled(t)
    <3>1. out' = <<[kind |-> "unfinished", name |-> thread[t], leader |-> leader],
                   [kind |-> "signal", name |-> thread[t], leader |-> Leader]>>
      BY <2>3 DEF Signalled
    <3> QED BY <2>1, <3>1
  <2>4. CASE CallExit(t) \/ CallNeverReturns(t)
    <3>1. PICK l \in Line : l.kind # "detached" /\ out' = Append(Cut(t), l)
      BY <2>4, EndsType
    <3>2. Cut(t) \in Seq(Line)
      BY CutType
    <3> QED BY <2>1, <2>2, <3>1, <3>2
  <2>5. CASE \E m \in Name : CallEnter(t, m)
    BY <2>1, <2>2, <2>5 DEF CallEnter
  <2>6. CASE \E u \in Thread : Clone(t, u)
    <3>1. out' = out
      BY <2>6 DEF Clone
    <3> QED BY <1>2, <2>1, <3>1
  <2> QED BY <1>5, <2>3, <2>4, <2>5, <2>6
<1>6. CASE \/ Attach \/ TargetGone \/ ScanEOF \/ StartStrace \/ Interrupt \/ SelectDone
           \/ SelectTimeout \/ Drain \/ Wait \/ UNCHANGED vars
  <2>1. UNCHANGED <<out, pipe>>
    BY <1>6 DEF Attach, TargetGone, ScanEOF, StartStrace, Interrupt, SelectDone, SelectTimeout,
                Drain, Wait, vars, straceVars
  <2> QED BY <1>2, <2>1
<1>7. ~Detach /\ ~Die
  BY DEF Detach, Die
<1> QED BY <1>2, <1>3, <1>4, <1>5, <1>6, <1>7 DEF Next

(* What the sensor records is what strace printed without a leader: while    *)
(* strace is attached every call it printed so in full is counted or on its  *)
(* way, however its line was cut and resumed, after a clean stop every one   *)
(* is counted, of a target that had one thread every call that ended, and no *)
(* more than the one line the detach cut off is counted beyond them.         *)
THEOREM RecordedCorrect == Spec => []RecordedExactlyOnce
<1>1. Init => NoneCutOff
  BY DEF Init, NoneCutOff
<1>2. StTypeOK /\ InStep /\ NoneCutOff /\ [Next]_vars => NoneCutOff'
  BY NoneCutOffStep DEF NoneCutOff
<1>3. StTypeOK /\ InStep /\ MadeOrPrinted /\ Counting /\ NoneCutOff /\ NoConcurrentAccess
      => RecordedExactlyOnce
  <2> SUFFICES ASSUME StTypeOK, InStep, MadeOrPrinted, Counting, NoneCutOff, NoConcurrentAccess,
                      NEW n \in Name
               PROVE  LET extra == IF n \in EqInArgs THEN {0, 1} ELSE {0}
                      IN  /\ strace = "attached" /\ ~killed =>
                               obs[n].count + OnWay(Full(n)) = printed[n]
                          /\ main = "returned" /\ ~killed => obs[n].count - printed[n] \in extra
                          /\ main = "returned" /\ ~killed /\ alone =>
                               obs[n].count - (made[n] - Cardinality(InCall(n))) \in extra
                          /\ \E m \in extra : obs[n].count <= printed[n] + m
    BY DEF RecordedExactlyOnce
  <2>1. /\ obs[n].count \in Nat /\ OnWay(Parsed(n)) \in Nat /\ printed[n] \in Nat
        /\ Total(n) = obs[n].count + OnWay(Parsed(n))
    <3>1. /\ obs[n].count \in Nat /\ printed[n] \in Nat /\ out \in Seq(Line) /\ pipe \in Seq(Line)
      BY DEF StTypeOK
    <3> QED BY <3>1, AmongType DEF Total, OnWay
  <2>2. /\ strace # "exited" => Total(n) = printed[n]
        /\ ~killed => Total(n) \in printed[n] .. printed[n] + Extra(n)
        /\ Total(n) <= printed[n] + Extra(n)
    BY DEF Counting
  <2>3. ASSUME strace = "attached" PROVE obs[n].count + OnWay(Full(n)) = printed[n]
    <3>1. ASSUME NEW q \in Seq(Line), \A i \in DOMAIN q : q[i].kind # "detached"
          PROVE  Among(q, Full(n)) = Among(q, Parsed(n))
      <4>1. \A i \in DOMAIN q : q[i] \in Line
        BY <3>1
      <4>2. \A i \in DOMAIN q : q[i] \in Full(n) <=> q[i] \in Parsed(n)
        BY <3>1, <4>1, WhichParse
      <4> QED BY <4>2 DEF Among
    <3>2. Among(out, Full(n)) = Among(out, Parsed(n)) /\ Among(pipe, Full(n)) = Among(pipe, Parsed(n))
      BY <2>3, <3>1 DEF NoneCutOff, StTypeOK
    <3> QED BY <2>1, <2>2, <2>3, <3>2 DEF OnWay
  <2>4. ASSUME main = "returned" PROVE OnWay(Parsed(n)) = 0
    <3>1. out = <<>> /\ pipe = <<>>
      BY <2>4 DEF InStep, NoConcurrentAccess
    <3> QED BY <3>1, AmongNone DEF OnWay
  <2>5. /\ main = "returned" /\ ~killed => obs[n].count - printed[n] \in 0 .. Extra(n)
        /\ obs[n].count <= printed[n] + Extra(n)
    BY <2>1, <2>2, <2>4 DEF Extra
  <2>6. alone => made[n] - Cardinality(InCall(n)) = printed[n]
    BY <2>1, InCallFinite DEF MadeOrPrinted, StTypeOK
  <2> QED BY <2>1, <2>3, <2>5, <2>6 DEF Extra
<1> QED BY <1>1, <1>2, <1>3, CountingAlways, NoConcurrentCorrect, PTL DEF Spec

(* The sensor does what an Observer may do: it counts no call more often     *)
(* than the target made it, also when the line was cut off, and once Collect *)
(* has returned the observation is left alone. That it returns is checked.   *)
THEOREM ImplementsObserver == Spec => AsObserver!SafeSpec
<1>1. Init => AsObserver!Init
  BY DEF Init, AsObserver!Init
<1>2. /\ StTypeOK /\ StTypeOK' /\ InStep /\ NoConcurrentAccess /\ Counting
      /\ [Next]_vars
      => [AsObserver!Next]_(AsObserver!vars)
  <2> SUFFICES ASSUME StTypeOK, StTypeOK', InStep, NoConcurrentAccess, Counting, [Next]_vars
               PROVE  [AsObserver!Next]_(AsObserver!vars)
    OBVIOUS
  <2>1. ASSUME NEW t \in Thread, NEW n \in Name, CallEnter(t, n) PROVE AsObserver!Next
    <3>1. AsObserver!Make({n})
      <4>1. made' = [k \in Name |-> IF k \in {n} THEN made[k] + 1 ELSE made[k]]
        BY <2>1 DEF CallEnter, StTypeOK
      <4>2. obs' = obs /\ main' = main
        BY <2>1 DEF CallEnter, driverVars
      <4> QED BY <4>1, <4>2 DEF AsObserver!Make
    <3> QED BY <3>1 DEF AsObserver!Next
  <2>2. CASE ScanLine
    <3> DEFINE l == Head(pipe)
    <3>1. /\ pipe \in Seq(Line) /\ pipe # <<>> /\ main' = main /\ made' = made
          /\ obs' = IF ParseLine(l) THEN [obs EXCEPT ![l.name] = Record(@)] ELSE obs
          /\ obs \in [Name -> [count : Nat, exitCount : Nat]]
      BY <2>2 DEF ScanLine, StTypeOK, driverVars, straceVars
    <3>2. l \in Line
      BY <3>1
    <3> HIDE DEF l
    <3>3. CASE ~ParseLine(l)
      BY <3>1, <3>3 DEF AsObserver!vars
    <3>4. CASE ParseLine(l)
      <4>1. PICK m \in Name : m = l.name /\ l \in Parsed(m)
        BY <3>2, <3>4, WhichParse DEF Line
      <4>2. main \notin {"returned", "failed"}
        BY <2>2 DEF ScanLine, InStep, NoConcurrentAccess
      <4>3. obs[m].count < made[m]
        <5>1. /\ Cardinality(Among(Tail(pipe), Parsed(m))) \in Nat
              /\ Cardinality(Among(pipe, Parsed(m))) = Cardinality(Among(Tail(pipe), Parsed(m))) + 1
          BY <3>1, <4>1, AmongTail DEF l
        <5>2. Total(m) <= made[m] /\ made[m] \in Nat
          BY DEF Counting, StTypeOK
        <5> QED BY <5>1, <5>2, TotalParts
      <4>4. [k \in Name |-> obs'[k].count] =
              [[k \in Name |-> obs[k].count] EXCEPT ![m] = @ + 1]
        BY <3>1, <3>4, <4>1 DEF Record
      <4>5. /\ (main \notin {"returned", "failed"}) = (main' \notin {"returned", "failed"})
            /\ [k \in Name |-> obs[k].count][m] < made[m]
        BY <3>1, <4>3
      <4>6. AsObserver!Count(m)
        BY <3>1, <4>2, <4>4, <4>5 DEF AsObserver!Count
      <4> QED BY <4>6 DEF AsObserver!Next
    <3> QED BY <3>3, <3>4
  <2>3. CASE StartStrace \/ Wait
    <3>1. obs' = obs /\ made' = made /\ main \notin {"returned", "failed"}
      BY <2>3 DEF StartStrace, Wait, straceVars
    <3>2. CASE main' \in {"returned", "failed"}
      <4>1. AsObserver!Return
        BY <3>1, <3>2 DEF AsObserver!Return
      <4> QED BY <4>1 DEF AsObserver!Next
    <3>3. CASE main' \notin {"returned", "failed"}
      BY <3>1, <3>3 DEF AsObserver!vars
    <3> QED BY <3>2, <3>3
  <2>4. CASE Interrupt \/ SelectDone \/ SelectTimeout \/ Drain
    <3>1. obs' = obs /\ made' = made
          /\ main \notin {"returned", "failed"} /\ main' \notin {"returned", "failed"}
      BY <2>4 DEF Interrupt, SelectDone, SelectTimeout, Drain, straceVars
    <3> QED BY <3>1 DEF AsObserver!vars
  <2>5. CASE \/ Attach \/ Write \/ Detach \/ TargetGone \/ Die \/ ScanEOF \/ UNCHANGED vars
             \/ \E t \in Thread : CallExit(t) \/ CallNeverReturns(t) \/ Signalled(t)
             \/ \E t, u \in Thread : Clone(t, u)
    <3>1. UNCHANGED <<main, obs, made>>
      BY <2>5 DEF Attach, Write, Detach, TargetGone, Die, ScanEOF, CallExit, CallNeverReturns,
                  CallEnds, Clone, Signalled, vars, driverVars, straceVars
    <3> QED BY <3>1 DEF AsObserver!vars
  <2> QED BY <2>1, <2>2, <2>3, <2>4, <2>5 DEF Next
<1> QED BY <1>1, <1>2, CountingAlways, NoConcurrentCorrect, PTL DEF Spec, AsObserver!SafeSpec
=============================================================================
