------------------------ MODULE SyscallTracer_proofs ------------------------
(***************************************************************************)
(* Theorems about the eBPF syscall sensor for any number of threads, any   *)
(* ring, channel and map sizes and any number of calls.                    *)
(***************************************************************************)
EXTENDS SyscallTracer, FiniteSetTheorems, SequenceTheorems, TLAPS

----------------------------------------------------------------------------
(* What a step leaves alone keeps its type.                                  *)
LEMMA Frames ==
  /\ MainTypeOK /\ UNCHANGED mainVars => MainTypeOK'
  /\ KernelTypeOK /\ UNCHANGED kernelVars => KernelTypeOK'
  /\ EventPathOK /\ UNCHANGED <<ring, readVars, events>> => EventPathOK'
  /\ FilePathOK /\ UNCHANGED <<fileRing, fileVars, fileEvents>> => FilePathOK'
  /\ ObsTypeOK /\ UNCHANGED obsVars => ObsTypeOK'
<1>1. MainTypeOK /\ UNCHANGED mainVars => MainTypeOK'
  BY DEF MainTypeOK, mainVars
<1>2. KernelTypeOK /\ UNCHANGED kernelVars => KernelTypeOK'
  BY DEF KernelTypeOK, kernelVars
<1>3. EventPathOK /\ UNCHANGED <<ring, readVars, events>> => EventPathOK'
  BY DEF EventPathOK, readVars
<1>4. FilePathOK /\ UNCHANGED <<fileRing, fileVars, fileEvents>> => FilePathOK'
  BY DEF FilePathOK, fileVars
<1>5. ObsTypeOK /\ UNCHANGED obsVars => ObsTypeOK'
  BY DEF ObsTypeOK, obsVars
<1> QED BY <1>1, <1>2, <1>3, <1>4, <1>5

(* The empty values are none of the values they stand in for.                *)
LEMMA Distinct ==
  /\ NoCall \notin Call
  /\ NoActive \notin Active
<1>1. NoCall \notin Call
  BY DEF NoCall, Call
<1>2. NoActive \notin Active
  BY DEF NoActive, Active
<1> QED BY <1>1, <1>2

(* A guarded append keeps within the size: ring reservations and channel     *)
(* sends.                                                                    *)
LEMMA RoomBounded ==
  ASSUME NEW S, NEW q \in Seq(S), NEW e \in S, NEW n \in Nat, Len(q) <= n
  PROVE  LET r == IF HasRoom(q, n) THEN Append(q, e) ELSE q
         IN  r \in Seq(S) /\ Len(r) <= n
BY DEF HasRoom

(* Go's truncating division is an integer.                                   *)
LEMMA TruncDivType ==
  ASSUME NEW a \in Int, NEW b \in Nat \ {0}
  PROVE  TruncDiv(a, b) \in Int
BY DEF TruncDiv

(* recordSyscallEvent turns a record into a record.                          *)
LEMMA RecordType ==
  ASSUME NEW rec \in SyscallRecord, NEW e \in Event, NEW anchor \in Nat
  PROVE  RecordSyscallEvent(rec, e, anchor) \in SyscallRecord
<1> DEFINE offset == TruncDiv(e.ts - anchor, NsPerMs)
           first  == IF rec.count + rec.exitCount > 0 THEN rec.first ELSE offset
<1>1. e.ts - anchor \in Int /\ e.lat \in Int /\ e.ret \in Rets /\ e.exit \in BOOLEAN
  BY DEF Event
<1>2. offset \in Int
  BY <1>1, TruncDivType, TracerAssumption
<1>3. first \in Int
  BY <1>2 DEF SyscallRecord
<1>4. Append(rec.rets, e.ret) \in Seq(Rets)
  BY <1>1 DEF SyscallRecord
<1> HIDE DEF offset, first
<1> DEFINE new == RecordSyscallEvent(rec, e, anchor)
<1>5. ASSUME ~e.exit PROVE new \in SyscallRecord
  <2> DEFINE args == IF rec.args < MaxSamples THEN rec.args + 1 ELSE rec.args
  <2>1. new = [rec EXCEPT !.first = first, !.last = offset,
                          !.count = rec.count + 1, !.args = args]
    BY <1>5 DEF RecordSyscallEvent, offset, first, SyscallRecord
  <2>2. rec.count + 1 \in Nat /\ args \in Nat
    BY DEF SyscallRecord
  <2> HIDE DEF new, args
  <2> QED BY <2>1, <2>2, <1>2, <1>3 DEF SyscallRecord
<1>6. ASSUME e.exit PROVE new \in SyscallRecord
  <2> DEFINE errs  == IF e.ret < 0 THEN rec.errorCount + 1 ELSE rec.errorCount
             rets  == IF Len(rec.rets) < MaxSamples THEN Append(rec.rets, e.ret)
                      ELSE rec.rets
             max   == IF e.lat > rec.max THEN e.lat ELSE rec.max
  <2>1. new = [rec EXCEPT !.first = first, !.last = offset,
                          !.exitCount = rec.exitCount + 1, !.errorCount = errs,
                          !.rets = rets, !.total = rec.total + e.lat,
                          !.max = max]
    BY <1>6 DEF RecordSyscallEvent, offset, first, SyscallRecord
  <2>2. /\ rec.exitCount + 1 \in Nat /\ errs \in Nat
        /\ rets \in Seq(Rets) /\ rec.total + e.lat \in Int /\ max \in Int
    BY <1>1, <1>4 DEF SyscallRecord
  <2> HIDE DEF new, errs, rets, max
  <2> QED BY <2>1, <2>2, <1>2, <1>3 DEF SyscallRecord
<1> QED BY <1>1, <1>5, <1>6

----------------------------------------------------------------------------
(* Each step keeps the types of what it changes.                             *)
LEMMA TypeStep ==
  ASSUME TypeOK, [Next]_vars
  PROVE  TypeOK'
<1> USE TracerAssumption
<1>0. MainTypeOK /\ KernelTypeOK /\ EventPathOK /\ FilePathOK /\ ObsTypeOK
  BY DEF TypeOK
<1>1. ASSUME NEW r \in Resources, NewSyscallTracer(r)
      PROVE  TypeOK'
  <2>1. UNCHANGED <<kernelVars, <<ring, readVars, events>>, <<fileRing, fileVars, fileEvents>>, obsVars>>
    BY <1>1 DEF NewSyscallTracer, ringVars
  <2>2. MainTypeOK'
    BY <1>0, <1>1 DEF NewSyscallTracer, MainTypeOK, MainSteps, ringVars
  <2> QED BY <1>0, <2>1, <2>2, Frames DEF TypeOK
<1>2. ASSUME SetTargetNS
      PROVE  TypeOK'
  <2>1. UNCHANGED <<kernelVars, <<ring, readVars, events>>, <<fileRing, fileVars, fileEvents>>, obsVars>>
    BY <1>2 DEF SetTargetNS, ringVars
  <2>2. MainTypeOK'
    BY <1>0, <1>2 DEF SetTargetNS, MainTypeOK, MainSteps, ringVars
  <2> QED BY <1>0, <2>1, <2>2, Frames DEF TypeOK
<1>3. ASSUME TrackPID
      PROVE  TypeOK'
  <2>1. UNCHANGED <<kernelVars, <<ring, readVars, events>>, <<fileRing, fileVars, fileEvents>>, obsVars>>
    BY <1>3 DEF TrackPID, ringVars
  <2>2. MainTypeOK'
    BY <1>0, <1>3 DEF TrackPID, MainTypeOK, MainSteps, ringVars
  <2> QED BY <1>0, <2>1, <2>2, Frames DEF TypeOK
<1>4. ASSUME Start
      PROVE  TypeOK'
  <2>1. UNCHANGED <<kernelVars, obsVars>>
    BY <1>4 DEF Start, ringVars
  <2>2. MainTypeOK'
    BY <1>0, <1>4 DEF Start, MainTypeOK, MainSteps, ringVars
  <2>3. EventPathOK'
    BY <1>0, <1>4 DEF Start, EventPathOK, LoopSteps, readVars, ringVars
  <2>4. FilePathOK'
    BY <1>0, <1>4 DEF Start, FilePathOK, LoopSteps, fileVars, ringVars
  <2> QED BY <1>0, <2>1, <2>2, <2>3, <2>4, Frames DEF TypeOK
<1>5. ASSUME NEW t \in Tid, Spawn(t)
      PROVE  TypeOK'
  <2>1. UNCHANGED <<mainVars, <<ring, readVars, events>>, <<fileRing, fileVars, fileEvents>>, obsVars>>
    BY <1>5 DEF Spawn, ringVars
  <2>2. KernelTypeOK'
    BY <1>0, <1>5 DEF Spawn, KernelTypeOK, Threads, InKernel, kernelVars, ringVars
  <2> QED BY <1>0, <2>1, <2>2, Frames DEF TypeOK
<1>6. ASSUME NEW t \in Tid, ThreadEnds(t)
      PROVE  TypeOK'
  <2>1. UNCHANGED <<mainVars, <<ring, readVars, events>>, <<fileRing, fileVars, fileEvents>>, obsVars>>
    BY <1>6 DEF ThreadEnds, ringVars
  <2>2. KernelTypeOK'
    BY <1>0, <1>6 DEF ThreadEnds, KernelTypeOK, Threads, InKernel, kernelVars, ringVars
  <2> QED BY <1>0, <2>1, <2>2, Frames DEF TypeOK
<1>7. ASSUME NEW t \in Tid, NEW nr \in Nr, SysEnter(t, nr)
      PROVE  TypeOK'
  <2>1. UNCHANGED <<mainVars, <<ring, readVars, events>>, <<fileRing, fileVars, fileEvents>>, obsVars>>
    BY <1>7 DEF SysEnter, ringVars
  <2>2. KernelTypeOK'
    <3> DEFINE probed == "enterLink" \in held /\ PidIsTracked(t)
               c == [id |-> nextCall + 1, tid |-> t, nr |-> nr,
                     probed |-> probed, ts |-> IF probed THEN clock ELSE 0]
    <3>1. probed \in BOOLEAN /\ clock \in Nat /\ nextCall \in Nat
      BY <1>0 DEF KernelTypeOK, PidIsTracked
    <3>2. c \in Call
      BY <3>1 DEF Call
    <3>3. /\ call' = [call EXCEPT ![t] = c]
          /\ nextCall' = nextCall + 1 /\ issued' = issued \cup {c}
          /\ UNCHANGED <<probeTs, used, finished>>
          /\ \/ thread' = [thread EXCEPT ![t] = "enter"] /\ clock' = clock + 1
             \/ thread' = [thread EXCEPT ![t] = "kernel"] /\ clock' = clock
          /\ active' \in {active, [active EXCEPT ![t] = [nr |-> nr, ts |-> clock]]}
      BY <1>7 DEF SysEnter, UpdateActive, Gtid
    <3>4. [nr |-> nr, ts |-> clock] \in Active
      BY <3>1 DEF Active
    <3> HIDE DEF c, probed
    <3>5. /\ thread' \in [Tid -> Threads] /\ clock' \in Nat \ {0}
          /\ call' \in [Tid -> Call \cup {NoCall}]
          /\ active' \in [Tid -> Active \cup {NoActive}]
      BY <1>0, <3>1, <3>2, <3>3, <3>4 DEF KernelTypeOK, Threads, InKernel
    <3>6. /\ \A u \in Tid : thread'[u] \in InKernel \ {"exit"} => call'[u] \in Call
          /\ \A u \in Tid : thread'[u] = "file" => call'[u].nr \in FileNr
      BY <1>0, <3>2, <3>3 DEF KernelTypeOK
    <3>7. \A u \in Tid : thread'[u] = "exit" => active'[u] \in Active
      BY <1>0, <3>3, <3>4 DEF KernelTypeOK
    <3> QED BY <1>0, <3>1, <3>2, <3>3, <3>5, <3>6, <3>7 DEF KernelTypeOK
  <2> QED BY <1>0, <2>1, <2>2, Frames DEF TypeOK
<1>8. ASSUME NEW t \in Tid, EnterSubmit(t)
      PROVE  TypeOK'
  <2>1. UNCHANGED <<mainVars, <<fileRing, fileVars, fileEvents>>, obsVars>>
    BY <1>8 DEF EnterSubmit, ringVars
  <2>2. KernelTypeOK'
    BY <1>0, <1>8 DEF EnterSubmit, KernelTypeOK, Threads, InKernel, kernelVars, ringVars
  <2>3. EventPathOK'
    <3> DEFINE e == [exit |-> FALSE, nr |-> call[t].nr, ts |-> call[t].ts,
                     lat |-> 0, ret |-> 0, of |-> call[t]]
    <3>1. call[t] \in Call
      BY <1>0, <1>8 DEF EnterSubmit, KernelTypeOK, InKernel
    <3>2. e \in Event
      BY <3>1 DEF Event, Call, Rets
    <3>3. ring' = (IF HasRoom(ring, RingSize) THEN Append(ring, e) ELSE ring)
      BY <1>8 DEF EnterSubmit
    <3>4. UNCHANGED <<reader, readerEvt, events>>
      BY <1>8 DEF EnterSubmit, readVars
    <3> HIDE DEF e
    <3>5. ring' \in Seq(Event) /\ Len(ring') <= RingSize
      BY <1>0, <3>2, <3>3, RoomBounded DEF EventPathOK
    <3> QED BY <1>0, <3>4, <3>5 DEF EventPathOK
  <2> QED BY <1>0, <2>1, <2>2, <2>3, Frames DEF TypeOK
<1>9. ASSUME NEW t \in Tid, MaybeEmitFile(t)
      PROVE  TypeOK'
  <2>1. UNCHANGED <<mainVars, <<ring, readVars, events>>, obsVars>>
    BY <1>9 DEF MaybeEmitFile, ringVars
  <2>2. KernelTypeOK'
    BY <1>0, <1>9 DEF MaybeEmitFile, KernelTypeOK, Threads, InKernel, kernelVars, ringVars
  <2>3. FilePathOK'
    <3> DEFINE e == [nr |-> call[t].nr, of |-> call[t]]
    <3>1. call[t] \in Call /\ call[t].nr \in FileNr
      BY <1>0, <1>9 DEF MaybeEmitFile, KernelTypeOK, InKernel
    <3>2. e \in FileEvent
      BY <3>1 DEF FileEvent
    <3>3. fileRing' \in {fileRing, IF HasRoom(fileRing, FileRingSize)
                                   THEN Append(fileRing, e) ELSE fileRing}
      BY <1>9 DEF MaybeEmitFile
    <3>4. UNCHANGED <<fileReader, fileReaderEvt, fileEvents>>
      BY <1>9 DEF MaybeEmitFile, fileVars
    <3> HIDE DEF e
    <3>5. fileRing' \in Seq(FileEvent) /\ Len(fileRing') <= FileRingSize
      BY <1>0, <3>2, <3>3, RoomBounded DEF FilePathOK
    <3> QED BY <1>0, <3>4, <3>5 DEF FilePathOK
  <2> QED BY <1>0, <2>1, <2>2, <2>3, Frames DEF TypeOK
<1>10. ASSUME NEW t \in Tid, SysExit(t)
      PROVE  TypeOK'
  <2>1. UNCHANGED <<mainVars, <<ring, readVars, events>>, <<fileRing, fileVars, fileEvents>>, obsVars>>
    BY <1>10 DEF SysExit, ringVars
  <2>2. KernelTypeOK'
    <3>1. /\ UNCHANGED <<used, active, nextCall, issued>>
          /\ finished' \in {finished, finished \cup {call[t]}}
          /\ thread[t] # "kernel" => finished' = finished
          /\ \/ /\ probeTs' = [probeTs EXCEPT ![t] = clock] /\ clock' = clock + 1
                /\ thread' = [thread EXCEPT ![t] = "exit"] /\ call' = call
                /\ active[t] # NoActive
             \/ /\ probeTs' = probeTs /\ clock' = clock
                /\ thread' = [thread EXCEPT ![t] = "user"]
                /\ call' = [call EXCEPT ![t] = NoCall]
      BY <1>10 DEF SysExit, Gtid
    <3>2. finished' \in SUBSET Call
      BY <1>0, <3>1 DEF KernelTypeOK, InKernel
    <3>3. /\ thread' \in [Tid -> Threads] /\ clock' \in Nat \ {0}
          /\ probeTs' \in [Tid -> Nat]
          /\ call' \in [Tid -> Call \cup {NoCall}]
      BY <1>0, <3>1 DEF KernelTypeOK, Threads, InKernel
    <3>4. /\ \A u \in Tid : thread'[u] \in InKernel \ {"exit"} => call'[u] \in Call
          /\ \A u \in Tid : thread'[u] = "file" => call'[u].nr \in FileNr
          /\ \A u \in Tid : thread'[u] = "exit" => active'[u] \in Active
      BY <1>0, <3>1 DEF KernelTypeOK, InKernel
    <3> QED BY <1>0, <3>1, <3>2, <3>3, <3>4 DEF KernelTypeOK
  <2> QED BY <1>0, <2>1, <2>2, Frames DEF TypeOK
<1>11. ASSUME NEW t \in Tid, NEW ret \in Rets, ExitSubmit(t, ret)
      PROVE  TypeOK'
  <2>1. UNCHANGED <<mainVars, <<fileRing, fileVars, fileEvents>>, obsVars>>
    BY <1>11 DEF ExitSubmit, ringVars
  <2>2. KernelTypeOK'
    <3>1. /\ active' = [active EXCEPT ![t] = NoActive]
          /\ thread' = [thread EXCEPT ![t] = "user"]
          /\ call' = [call EXCEPT ![t] = NoCall]
          /\ UNCHANGED <<probeTs, used, clock, nextCall, issued, finished>>
      BY <1>11 DEF ExitSubmit, Gtid
    <3>2. /\ thread' \in [Tid -> Threads]
          /\ call' \in [Tid -> Call \cup {NoCall}]
          /\ active' \in [Tid -> Active \cup {NoActive}]
      BY <1>0, <3>1 DEF KernelTypeOK, Threads, InKernel
    <3>3. /\ \A u \in Tid : thread'[u] \in InKernel \ {"exit"} => call'[u] \in Call
          /\ \A u \in Tid : thread'[u] = "file" => call'[u].nr \in FileNr
          /\ \A u \in Tid : thread'[u] = "exit" => active'[u] \in Active
      BY <1>0, <3>1 DEF KernelTypeOK, InKernel
    <3> QED BY <1>0, <3>1, <3>2, <3>3 DEF KernelTypeOK
  <2>3. EventPathOK'
    <3> DEFINE e == [exit |-> TRUE, nr |-> active[t].nr, ts |-> probeTs[t],
                     lat |-> probeTs[t] - active[t].ts, ret |-> ret,
                     of |-> call[t]]
    <3>1. /\ active[t] \in Active /\ probeTs[t] \in Nat
          /\ call[t] \in Call \cup {NoCall}
      BY <1>0, <1>11 DEF ExitSubmit, KernelTypeOK
    <3>2. e \in Event
      BY <3>1 DEF Event, Active
    <3>3. ring' = (IF HasRoom(ring, RingSize) THEN Append(ring, e) ELSE ring)
      BY <1>11 DEF ExitSubmit, Gtid
    <3>4. UNCHANGED <<reader, readerEvt, events>>
      BY <1>11 DEF ExitSubmit, readVars
    <3> HIDE DEF e
    <3>5. ring' \in Seq(Event) /\ Len(ring') <= RingSize
      BY <1>0, <3>2, <3>3, RoomBounded DEF EventPathOK
    <3> QED BY <1>0, <3>4, <3>5 DEF EventPathOK
  <2> QED BY <1>0, <2>1, <2>2, <2>3, Frames DEF TypeOK
<1>12. ASSUME ReadCheck
      PROVE  TypeOK'
  <2>1. UNCHANGED <<mainVars, kernelVars, <<fileRing, fileVars, fileEvents>>, obsVars>>
    BY <1>12 DEF ReadCheck, ringVars
  <2>2. EventPathOK'
    BY <1>0, <1>12 DEF ReadCheck, EventPathOK, LoopSteps, readVars, ringVars
  <2> QED BY <1>0, <2>1, <2>2, Frames DEF TypeOK
<1>13. ASSUME Read
      PROVE  TypeOK'
  <2>1. UNCHANGED <<mainVars, kernelVars, <<fileRing, fileVars, fileEvents>>, obsVars>>
    BY <1>13 DEF Read, ringVars
  <2>2. EventPathOK'
    BY <1>0, <1>13 DEF Read, EventPathOK, LoopSteps, readVars, ringVars
  <2> QED BY <1>0, <2>1, <2>2, Frames DEF TypeOK
<1>14. ASSUME ReadClosed
      PROVE  TypeOK'
  <2>1. UNCHANGED <<mainVars, kernelVars, <<fileRing, fileVars, fileEvents>>, obsVars>>
    BY <1>14 DEF ReadClosed, ringVars
  <2>2. EventPathOK'
    BY <1>0, <1>14 DEF ReadClosed, EventPathOK, LoopSteps, readVars, ringVars
  <2> QED BY <1>0, <2>1, <2>2, Frames DEF TypeOK
<1>15. ASSUME ReadTransient
      PROVE  TypeOK'
  <2>1. UNCHANGED <<mainVars, kernelVars, <<fileRing, fileVars, fileEvents>>, obsVars>>
    BY <1>15 DEF ReadTransient, ringVars
  <2>2. EventPathOK'
    BY <1>0, <1>15 DEF ReadTransient, EventPathOK, LoopSteps, readVars, ringVars
  <2> QED BY <1>0, <2>1, <2>2, Frames DEF TypeOK
<1>16. ASSUME Send
      PROVE  TypeOK'
  <2>1. UNCHANGED <<mainVars, kernelVars, <<fileRing, fileVars, fileEvents>>, obsVars>>
    BY <1>16 DEF Send, ringVars
  <2>2. EventPathOK'
    <3>1. events' = (IF HasRoom(events, ChanSize) THEN Append(events, readerEvt)
                     ELSE events)
      BY <1>16 DEF Send
    <3>2. events' \in Seq(Event) /\ Len(events') <= ChanSize
      BY <1>0, <1>16, <3>1, RoomBounded DEF Send, EventPathOK
    <3> QED BY <1>0, <1>16, <3>2 DEF Send, EventPathOK, LoopSteps, ringVars
  <2> QED BY <1>0, <2>1, <2>2, Frames DEF TypeOK
<1>17. ASSUME FileReadCheck
      PROVE  TypeOK'
  <2>1. UNCHANGED <<mainVars, kernelVars, <<ring, readVars, events>>, obsVars>>
    BY <1>17 DEF FileReadCheck, ringVars
  <2>2. FilePathOK'
    BY <1>0, <1>17 DEF FileReadCheck, FilePathOK, LoopSteps, fileVars, ringVars
  <2> QED BY <1>0, <2>1, <2>2, Frames DEF TypeOK
<1>18. ASSUME FileRead
      PROVE  TypeOK'
  <2>1. UNCHANGED <<mainVars, kernelVars, <<ring, readVars, events>>, obsVars>>
    BY <1>18 DEF FileRead, ringVars
  <2>2. FilePathOK'
    BY <1>0, <1>18 DEF FileRead, FilePathOK, LoopSteps, fileVars, ringVars
  <2> QED BY <1>0, <2>1, <2>2, Frames DEF TypeOK
<1>19. ASSUME FileReadClosed
      PROVE  TypeOK'
  <2>1. UNCHANGED <<mainVars, kernelVars, <<ring, readVars, events>>, obsVars>>
    BY <1>19 DEF FileReadClosed, ringVars
  <2>2. FilePathOK'
    BY <1>0, <1>19 DEF FileReadClosed, FilePathOK, LoopSteps, fileVars, ringVars
  <2> QED BY <1>0, <2>1, <2>2, Frames DEF TypeOK
<1>20. ASSUME FileReadTransient
      PROVE  TypeOK'
  <2>1. UNCHANGED <<mainVars, kernelVars, <<ring, readVars, events>>, obsVars>>
    BY <1>20 DEF FileReadTransient, ringVars
  <2>2. FilePathOK'
    BY <1>0, <1>20 DEF FileReadTransient, FilePathOK, LoopSteps, fileVars, ringVars
  <2> QED BY <1>0, <2>1, <2>2, Frames DEF TypeOK
<1>21. ASSUME FileSend
      PROVE  TypeOK'
  <2>1. UNCHANGED <<mainVars, kernelVars, <<ring, readVars, events>>, obsVars>>
    BY <1>21 DEF FileSend, ringVars
  <2>2. FilePathOK'
    <3>1. fileEvents' = (IF HasRoom(fileEvents, ChanSize)
                         THEN Append(fileEvents, fileReaderEvt) ELSE fileEvents)
      BY <1>21 DEF FileSend
    <3>2. fileEvents' \in Seq(FileEvent) /\ Len(fileEvents') <= ChanSize
      BY <1>0, <1>21, <3>1, RoomBounded DEF FileSend, FilePathOK
    <3> QED BY <1>0, <1>21, <3>2 DEF FileSend, FilePathOK, LoopSteps, ringVars
  <2> QED BY <1>0, <2>1, <2>2, Frames DEF TypeOK
<1>22. ASSUME CollectEvent
      PROVE  TypeOK'
  <2>1. UNCHANGED <<mainVars, kernelVars, <<fileRing, fileVars, fileEvents>>>>
    BY <1>22 DEF CollectEvent, ringVars
  <2>2. EventPathOK'
    BY <1>0, <1>22 DEF CollectEvent, EventPathOK, LoopSteps, readVars, ringVars
  <2>3. ObsTypeOK'
    <3> DEFINE e == Head(events)
               anchor == IF firstEventNS = 0 THEN e.ts ELSE firstEventNS
    <3>0. e \in Event
      BY <1>0, <1>22 DEF CollectEvent, EventPathOK
    <3>1. e \in Event /\ e.nr \in Nr /\ e.ts \in Nat
      BY <3>0 DEF Event
    <3>2. anchor \in Nat
      BY <1>0, <3>1 DEF ObsTypeOK
    <3>3. /\ firstEventNS' = anchor /\ recorded' = recorded \cup {e}
          /\ obs' = [obs EXCEPT ![e.nr] = RecordSyscallEvent(obs[e.nr], e, anchor)]
          /\ accesses' = accesses
      BY <1>0, <1>22, <3>1 DEF CollectEvent, ObsTypeOK
    <3> HIDE DEF e, anchor
    <3>4. RecordSyscallEvent(obs[e.nr], e, anchor) \in SyscallRecord
      BY <1>0, <3>1, <3>2, RecordType DEF ObsTypeOK
    <3> QED BY <1>0, <3>1, <3>2, <3>3, <3>4 DEF ObsTypeOK
  <2> QED BY <1>0, <2>1, <2>2, <2>3, Frames DEF TypeOK
<1>23. ASSUME CollectFile
      PROVE  TypeOK'
  <2>1. UNCHANGED <<mainVars, kernelVars, <<ring, readVars, events>>>>
    BY <1>23 DEF CollectFile, ringVars
  <2>2. FilePathOK'
    BY <1>0, <1>23 DEF CollectFile, FilePathOK, LoopSteps, fileVars, ringVars
  <2>3. ObsTypeOK'
    <3>1. accesses' = (IF Len(accesses) < MaxFileAccesses
                       THEN Append(accesses, Head(fileEvents)) ELSE accesses)
      BY <1>23 DEF CollectFile
    <3>2. Head(fileEvents) \in FileEvent
      BY <1>0, <1>23 DEF CollectFile, FilePathOK
    <3>3. accesses' \in Seq(FileEvent) /\ Len(accesses') <= MaxFileAccesses
      BY <1>0, <3>1, <3>2 DEF ObsTypeOK
    <3> QED BY <1>0, <1>23, <3>3 DEF CollectFile, ObsTypeOK
  <2> QED BY <1>0, <2>1, <2>2, <2>3, Frames DEF TypeOK
<1>24. ASSUME TimerFires
      PROVE  TypeOK'
  <2>1. UNCHANGED <<kernelVars, <<ring, readVars, events>>, <<fileRing, fileVars, fileEvents>>, obsVars>>
    BY <1>24 DEF TimerFires, ringVars
  <2>2. MainTypeOK'
    BY <1>0, <1>24 DEF TimerFires, MainTypeOK, MainSteps, ringVars
  <2> QED BY <1>0, <2>1, <2>2, Frames DEF TypeOK
<1>25. ASSUME CollectTimeout
      PROVE  TypeOK'
  <2>1. UNCHANGED <<kernelVars, <<ring, readVars, events>>, <<fileRing, fileVars, fileEvents>>, obsVars>>
    BY <1>25 DEF CollectTimeout, ringVars
  <2>2. MainTypeOK'
    BY <1>0, <1>25 DEF CollectTimeout, MainTypeOK, MainSteps, ringVars
  <2> QED BY <1>0, <2>1, <2>2, Frames DEF TypeOK
<1>26. ASSUME StopSignal
      PROVE  TypeOK'
  <2>1. UNCHANGED <<kernelVars, <<ring, readVars, events>>, <<fileRing, fileVars, fileEvents>>, obsVars>>
    BY <1>26 DEF StopSignal, ringVars
  <2>2. MainTypeOK'
    BY <1>0, <1>26 DEF StopSignal, MainTypeOK, MainSteps, ringVars
  <2> QED BY <1>0, <2>1, <2>2, Frames DEF TypeOK
<1>27. ASSUME NEW r \in Resources, StopClose(r)
      PROVE  TypeOK'
  <2>1. UNCHANGED <<kernelVars, <<ring, readVars, events>>, <<fileRing, fileVars, fileEvents>>, obsVars>>
    BY <1>27 DEF StopClose, ringVars
  <2>2. MainTypeOK'
    BY <1>0, <1>27 DEF StopClose, MainTypeOK, MainSteps, ringVars
  <2> QED BY <1>0, <2>1, <2>2, Frames DEF TypeOK
<1>28. ASSUME UNCHANGED vars
      PROVE  TypeOK'
  BY <1>0, <1>28, Frames DEF TypeOK, vars, ringVars
<1> QED
  BY <1>1, <1>2, <1>3, <1>4, <1>5, <1>6, <1>7, <1>8, <1>9, <1>10, <1>11, <1>12, <1>13, <1>14, <1>15, <1>16, <1>17, <1>18, <1>19, <1>20, <1>21, <1>22, <1>23, <1>24, <1>25, <1>26, <1>27, <1>28 DEF Next

(* TypeOK holds in every state, for every choice of the constants.           *)
THEOREM TypeCorrect == Spec => []TypeOK
<1>1. Init => TypeOK
  <2> SUFFICES ASSUME Init PROVE TypeOK
    OBVIOUS
  <2>1. MainTypeOK
    BY DEF Init, MainTypeOK, MainSteps
  <2>2. KernelTypeOK
    BY DEF Init, KernelTypeOK, Threads, InKernel
  <2>3. EventPathOK /\ FilePathOK
    BY TracerAssumption DEF Init, EventPathOK, FilePathOK, LoopSteps
  <2>4. ZeroRecord \in SyscallRecord
    BY DEF ZeroRecord, SyscallRecord
  <2>5. ObsTypeOK
    BY <2>4, TracerAssumption DEF Init, ObsTypeOK
  <2> QED BY <2>1, <2>2, <2>3, <2>5 DEF TypeOK
<1>2. TypeOK /\ [Next]_vars => TypeOK'
  BY TypeStep
<1> QED BY <1>1, <1>2, PTL DEF Spec

----------------------------------------------------------------------------
(* While NewSyscallTracer runs, what is held is what it acquired so far: a   *)
(* proper prefix of AcquireOrder.                                            *)
AcquiredInOrder ==
  main = "new" =>
    held \in {{}, {"coll"}, {"coll", "enterLink"},
              {"coll", "enterLink", "exitLink"},
              {"coll", "enterLink", "exitLink", "reader"}}

(* An acquisition step finds exactly what its error path closes.             *)
LEMMA ErrorPathsClose ==
  ASSUME AcquiredInOrder, main = "new", NEW r \in Resources, Acquiring(r)
  PROVE  /\ held = ErrorCloses[r]
         /\ r # "fileReader" =>
              held \cup {r} \in {{"coll"}, {"coll", "enterLink"},
                                {"coll", "enterLink", "exitLink"},
                                {"coll", "enterLink", "exitLink", "reader"}}
<1>1. PICK i \in 1 .. 5 : /\ AcquireOrder[i] = r /\ r \notin held
                          /\ \A j \in 1 .. (i - 1) : AcquireOrder[j] \in held
  BY DEF Acquiring, AcquireOrder
<1>2. /\ AcquireOrder[1] = "coll" /\ AcquireOrder[2] = "enterLink"
      /\ AcquireOrder[3] = "exitLink" /\ AcquireOrder[4] = "reader"
      /\ AcquireOrder[5] = "fileReader"
  BY DEF AcquireOrder
<1>3. /\ i >= 2 => "coll" \in held
      /\ i >= 3 => "enterLink" \in held
      /\ i >= 4 => "exitLink" \in held
      /\ i = 5 => "reader" \in held
  BY <1>1, <1>2
<1>4. i = 1 \/ i = 2 \/ i = 3 \/ i = 4 \/ i = 5
  OBVIOUS
<1> QED BY <1>1, <1>2, <1>3, <1>4 DEF AcquiredInOrder, ErrorCloses

(* Every way Collect ends leaves no kernel resource open.                    *)
THEOREM ReleaseCorrect == Spec => []ReleasedOnReturn
<1> DEFINE I == AcquiredInOrder /\ ReleasedOnReturn
<1>1. Init => I
  BY DEF Init, AcquiredInOrder, ReleasedOnReturn
<1>2. TypeOK /\ I /\ [Next]_vars => I'
  <2> SUFFICES ASSUME TypeOK, I, [Next]_vars PROVE I'
    OBVIOUS
  <2>1. ASSUME NEW r \in Resources, NewSyscallTracer(r) PROVE I'
    BY <2>1, ErrorPathsClose
       DEF NewSyscallTracer, AcquiredInOrder, ReleasedOnReturn
  <2>2. ASSUME NEW r \in Resources, StopClose(r) PROVE I'
    <3>1. ASSUME r = "coll" PROVE held' = {}
      <4>1. PICK i \in 1 .. 5 : /\ StopOrder[i] = r
                                /\ \A j \in 1 .. (i - 1) : StopOrder[j] \notin held
        BY <2>2 DEF StopClose, Closing, StopOrder
      <4>2. i = 5
        BY <3>1, <4>1 DEF StopOrder
      <4>3. held \subseteq {"coll"}
        BY <4>1, <4>2 DEF StopOrder, TypeOK, MainTypeOK, Resources
      <4> QED BY <2>2, <3>1, <4>3 DEF StopClose
    <3> QED BY <2>2, <3>1 DEF StopClose, AcquiredInOrder, ReleasedOnReturn
  <2>3. ASSUME SetTargetNS \/ TrackPID \/ Start \/ TimerFires \/ CollectTimeout
                 \/ StopSignal
        PROVE  I'
    BY <2>3 DEF SetTargetNS, TrackPID, Start, TimerFires, CollectTimeout,
                StopSignal, AcquiredInOrder, ReleasedOnReturn
  <2>4. ASSUME UNCHANGED mainVars PROVE I'
    BY <2>4 DEF mainVars, AcquiredInOrder, ReleasedOnReturn
  <2>5. \/ \E r \in Resources : NewSyscallTracer(r) \/ StopClose(r)
        \/ SetTargetNS \/ TrackPID \/ Start \/ TimerFires \/ CollectTimeout
        \/ StopSignal
        \/ UNCHANGED mainVars
    BY DEF Next, vars, Spawn, ThreadEnds, SysEnter, EnterSubmit, MaybeEmitFile,
           SysExit, ExitSubmit, ReadCheck, Read, ReadClosed, ReadTransient, Send,
           FileReadCheck, FileRead, FileReadClosed, FileReadTransient, FileSend,
           CollectEvent, CollectFile
  <2> QED BY <2>1, <2>2, <2>3, <2>4, <2>5
<1>3. I => ReleasedOnReturn
  OBVIOUS
<1> QED BY <1>1, <1>2, <1>3, TypeCorrect, PTL DEF Spec

----------------------------------------------------------------------------
(* Without reuse of thread ids an exit event reports the call that returned. *)
(* The invariant behind it: the map entry of a thread in the kernel is the   *)
(* one its current call stored.  That is so only while exit_link is up: once *)
(* Stop has closed it, entries stay behind and are never read again.         *)

(* Nothing is tracked before TrackPID, and only target threads get entries.  *)
TrackedOnly ==
  /\ main \in {"new", "setNS", "track"} => ~pidFilter
  /\ \A t \in Tid : active[t] # NoActive => pidFilter /\ nsInfo /\ t \in Target

(* The entry of t, if it has one, is the one its current call stored.        *)
OwnEntry(t) ==
  /\ call[t] \in Call /\ call[t].probed
  /\ active[t] = [nr |-> call[t].nr, ts |-> call[t].ts]

(* While exit_link is up an entry belongs to a call in progress, or to a     *)
(* thread that has ended and whose id is not used again.                     *)
EntriesFresh ==
  /\ "exitLink" \in held =>
       \A t \in Tid : active[t] # NoActive =>
         thread[t] = "none" \/ (thread[t] \in InKernel /\ OwnEntry(t))
  /\ \A t \in Tid : thread[t] = "exit" => OwnEntry(t)
  /\ \A t \in Tid \ used : thread[t] = "none" /\ active[t] = NoActive

(* Every event under way or recorded is paired with its enter.               *)
EventsPaired ==
  /\ \A i \in DOMAIN ring : PairedWithItsEnter(ring[i])
  /\ \A i \in DOMAIN events : PairedWithItsEnter(events[i])
  /\ reader = "send" => PairedWithItsEnter(readerEvt)
  /\ \A e \in recorded : PairedWithItsEnter(e)

(* The steps that touch neither the tracer nor the threads.                  *)
GoSide == \/ ReadCheck \/ Read \/ ReadClosed \/ ReadTransient \/ Send
          \/ FileReadCheck \/ FileRead \/ FileReadClosed \/ FileReadTransient
          \/ FileSend \/ CollectEvent \/ CollectFile

(* Such a step leaves the tracer and the threads alone.                      *)
LEMMA GoSideFrame ==
  ASSUME GoSide
  PROVE  UNCHANGED <<mainVars, kernelVars>>
BY DEF GoSide, ReadCheck, Read, ReadClosed, ReadTransient, Send, FileReadCheck,
       FileRead, FileReadClosed, FileReadTransient, FileSend, CollectEvent,
       CollectFile

(* Every step is one of these.                                               *)
LEMMA StepCases ==
  ASSUME [Next]_vars
  PROVE  \/ \E r \in Resources : NewSyscallTracer(r) \/ StopClose(r)
         \/ SetTargetNS \/ TrackPID \/ Start \/ TimerFires \/ CollectTimeout
         \/ StopSignal
         \/ \E t \in Tid : \/ Spawn(t) \/ ThreadEnds(t) \/ EnterSubmit(t)
                           \/ MaybeEmitFile(t) \/ SysExit(t)
         \/ \E t \in Tid, nr \in Nr : SysEnter(t, nr)
         \/ \E t \in Tid, ret \in Rets : ExitSubmit(t, ret)
         \/ GoSide
         \/ UNCHANGED vars
BY DEF Next, GoSide

(* TrackedOnly is preserved.                                                 *)
LEMMA TrackedStep ==
  ASSUME TypeOK, TrackedOnly, [Next]_vars
  PROVE  TrackedOnly'
<1> USE DEF TrackedOnly
<1>1. ASSUME NEW r \in Resources, NewSyscallTracer(r) \/ StopClose(r)
      PROVE  TrackedOnly'
  BY <1>1 DEF NewSyscallTracer, StopClose, kernelVars
<1>2. ASSUME SetTargetNS \/ TrackPID \/ Start \/ TimerFires \/ CollectTimeout
               \/ StopSignal
      PROVE  TrackedOnly'
  BY <1>2 DEF SetTargetNS, TrackPID, Start, TimerFires, CollectTimeout, StopSignal,
              kernelVars
<1>3. ASSUME NEW t \in Tid, \/ Spawn(t) \/ ThreadEnds(t) \/ EnterSubmit(t)
                           \/ MaybeEmitFile(t) \/ SysExit(t)
      PROVE  TrackedOnly'
  BY <1>3 DEF Spawn, ThreadEnds, EnterSubmit, MaybeEmitFile, SysExit, mainVars
<1>4. ASSUME NEW t \in Tid, NEW nr \in Nr, SysEnter(t, nr)
      PROVE  TrackedOnly'
  <2>1. /\ UNCHANGED mainVars
        /\ \/ active' = active
           \/ /\ active' = [active EXCEPT ![t] = [nr |-> nr, ts |-> clock]]
              /\ PidIsTracked(t)
    BY <1>4 DEF SysEnter, UpdateActive, Gtid
  <2> QED BY <2>1 DEF TypeOK, KernelTypeOK, mainVars, PidIsTracked
<1>5. ASSUME NEW t \in Tid, NEW ret \in Rets, ExitSubmit(t, ret)
      PROVE  TrackedOnly'
  BY <1>5 DEF ExitSubmit, Gtid, mainVars, TypeOK, KernelTypeOK
<1>6. ASSUME GoSide \/ UNCHANGED vars
      PROVE  TrackedOnly'
  BY <1>6, GoSideFrame DEF vars, mainVars, kernelVars
<1> QED BY <1>1, <1>2, <1>3, <1>4, <1>5, <1>6, StepCases

(* EntriesFresh is preserved when thread ids are not reused.                 *)
LEMMA FreshStep ==
  ASSUME ~TidReuse, TypeOK, TrackedOnly, EntriesFresh, [Next]_vars
  PROVE  EntriesFresh'
<1>0. /\ thread \in [Tid -> Threads] /\ call \in [Tid -> Call \cup {NoCall}]
      /\ active \in [Tid -> Active \cup {NoActive}] /\ clock \in Nat
      /\ \A u \in Tid : thread[u] \in InKernel \ {"exit"} => call[u] \in Call
  BY DEF TypeOK, KernelTypeOK
<1>1. ASSUME NEW r \in Resources, NewSyscallTracer(r) \/ StopClose(r)
      PROVE  EntriesFresh'
  <2>1. UNCHANGED kernelVars
    BY <1>1 DEF NewSyscallTracer, StopClose
  <2>2. "exitLink" \in held' => "exitLink" \in held \/ main = "new"
    BY <1>1 DEF NewSyscallTracer, StopClose
  <2>3. main = "new" => \A u \in Tid : active[u] = NoActive
    BY DEF TrackedOnly
  <2> QED BY <2>1, <2>2, <2>3 DEF EntriesFresh, OwnEntry, kernelVars
<1>2. ASSUME \/ SetTargetNS \/ TrackPID \/ Start \/ TimerFires \/ CollectTimeout
             \/ StopSignal \/ GoSide \/ UNCHANGED vars
      PROVE  EntriesFresh'
  <2>1. UNCHANGED <<held, kernelVars>>
    BY <1>2, GoSideFrame DEF SetTargetNS, TrackPID, Start, TimerFires,
       CollectTimeout, StopSignal, vars, mainVars
  <2> QED BY <2>1 DEF EntriesFresh, OwnEntry, kernelVars
<1>3. ASSUME NEW t \in Tid, Spawn(t)
      PROVE  EntriesFresh'
  <2>1. /\ t \notin used /\ used' = used \cup {t} /\ UNCHANGED <<held, call, active>>
        /\ thread' = [thread EXCEPT ![t] = "newborn"]
    BY <1>3 DEF Spawn, mainVars
  <2>2. active[t] = NoActive
    BY <2>1 DEF EntriesFresh
  <2> QED BY <1>0, <2>1, <2>2 DEF EntriesFresh, OwnEntry
<1>4. ASSUME NEW t \in Tid, ThreadEnds(t)
      PROVE  EntriesFresh'
  <2>1. /\ UNCHANGED <<held, used, active>>
        /\ thread' = [thread EXCEPT ![t] = "none"]
        /\ call' = [call EXCEPT ![t] = NoCall]
    BY <1>4 DEF ThreadEnds, mainVars
  <2> QED BY <1>0, <2>1 DEF EntriesFresh, OwnEntry
<1>5. ASSUME NEW t \in Tid, EnterSubmit(t) \/ MaybeEmitFile(t)
      PROVE  EntriesFresh'
  <2>1. /\ UNCHANGED <<held, used, active, call>> /\ thread[t] \in {"enter", "file"}
        /\ thread' \in {[thread EXCEPT ![t] = x] : x \in {"file", "kernel"}}
    BY <1>5 DEF EnterSubmit, MaybeEmitFile, mainVars
  <2> QED BY <1>0, <2>1 DEF EntriesFresh, OwnEntry, InKernel
<1>6. ASSUME NEW t \in Tid, NEW nr \in Nr, SysEnter(t, nr)
      PROVE  EntriesFresh'
  <2> DEFINE probed == "enterLink" \in held /\ PidIsTracked(t)
             c == [id |-> nextCall + 1, tid |-> t, nr |-> nr,
                   probed |-> probed, ts |-> IF probed THEN clock ELSE 0]
  <2>1. /\ UNCHANGED <<held, used>> /\ thread[t] = "user"
        /\ call' = [call EXCEPT ![t] = c]
        /\ thread' \in {[thread EXCEPT ![t] = x] : x \in {"enter", "kernel"}}
    BY <1>6 DEF SysEnter, mainVars
  <2>2. \/ active' = active /\ active[t] = NoActive
        \/ active' = active /\ ~probed
        \/ probed /\ active' = [active EXCEPT ![t] = [nr |-> nr, ts |-> clock]]
    BY <1>6 DEF SysEnter, UpdateActive, Gtid, ActiveKeys
  <2>3. "exitLink" \in held => active[t] = NoActive
    BY <2>1 DEF EntriesFresh, InKernel
  <2>4. c \in Call /\ c.nr = nr /\ c.probed = probed /\ (probed => c.ts = clock)
    <3>1. probed \in BOOLEAN /\ nextCall \in Nat
      BY DEF TypeOK, KernelTypeOK, PidIsTracked
    <3> QED BY <3>1, <1>0 DEF Call
  <2>5. t \in used
    BY <2>1 DEF EntriesFresh
  <2> HIDE DEF c, probed
  <2>6. ASSUME NEW u \in Tid, u # t
        PROVE  UNCHANGED <<active[u], call[u], thread[u]>>
    BY <1>0, <2>1, <2>2, <2>6
  <2>7. "exitLink" \in held => active'[t] = NoActive \/
          (call'[t] = c /\ c.probed /\ active'[t] = [nr |-> c.nr, ts |-> c.ts])
    BY <1>0, <2>1, <2>2, <2>3, <2>4
  <2>8. thread'[t] \in {"enter", "kernel"} /\ call'[t] = c
    BY <1>0, <2>1
  <2> QED BY <2>1, <2>4, <2>5, <2>6, <2>7, <2>8 DEF EntriesFresh, OwnEntry, InKernel
<1>7. ASSUME NEW t \in Tid, SysExit(t)
      PROVE  EntriesFresh'
  <2>1. /\ UNCHANGED <<held, used, active>>
        /\ \/ thread[t] = "kernel"
           \/ thread[t] = "newborn"
        /\ \/ /\ thread' = [thread EXCEPT ![t] = "exit"] /\ call' = call
              /\ active[t] # NoActive /\ "exitLink" \in held
           \/ /\ thread' = [thread EXCEPT ![t] = "user"]
              /\ call' = [call EXCEPT ![t] = NoCall]
              /\ \/ "exitLink" \notin held
                 \/ active[t] = NoActive
                 \/ ~PidIsTracked(t)
    BY <1>7 DEF SysExit, Gtid, mainVars
  <2>2. ~PidIsTracked(t) => active[t] = NoActive
    BY DEF TrackedOnly, PidIsTracked
  <2>3. t \in used
    BY <2>1 DEF EntriesFresh
  <2>4. CASE thread' = [thread EXCEPT ![t] = "exit"] /\ call' = call
             /\ active[t] # NoActive /\ "exitLink" \in held
    <3>1. OwnEntry(t)
      BY <2>1, <2>4 DEF EntriesFresh, InKernel
    <3> QED BY <1>0, <2>1, <2>3, <2>4, <3>1 DEF EntriesFresh, OwnEntry, InKernel
  <2>5. CASE /\ thread' = [thread EXCEPT ![t] = "user"]
             /\ call' = [call EXCEPT ![t] = NoCall]
             /\ "exitLink" \notin held \/ active[t] = NoActive
    BY <1>0, <2>1, <2>3, <2>5 DEF EntriesFresh, OwnEntry, InKernel
  <2> QED BY <2>1, <2>2, <2>4, <2>5
<1>8. ASSUME NEW t \in Tid, NEW ret \in Rets, ExitSubmit(t, ret)
      PROVE  EntriesFresh'
  <2>1. /\ UNCHANGED <<held, used>> /\ thread[t] = "exit"
        /\ active' = [active EXCEPT ![t] = NoActive]
        /\ thread' = [thread EXCEPT ![t] = "user"]
        /\ call' = [call EXCEPT ![t] = NoCall]
    BY <1>8 DEF ExitSubmit, Gtid, mainVars
  <2> QED BY <1>0, <2>1 DEF EntriesFresh, OwnEntry, InKernel
<1> QED BY <1>1, <1>2, <1>3, <1>4, <1>5, <1>6, <1>7, <1>8, StepCases

(* A guarded append of a paired event keeps a queue paired.                  *)
LEMMA AppendPaired ==
  ASSUME NEW q \in Seq(Event), NEW e \in Event, PairedWithItsEnter(e),
         \A i \in DOMAIN q : PairedWithItsEnter(q[i]), NEW n \in Nat
  PROVE  LET r == IF HasRoom(q, n) THEN Append(q, e) ELSE q
         IN  \A i \in DOMAIN r : PairedWithItsEnter(r[i])
<1>1. \A i \in DOMAIN Append(q, e) : Append(q, e)[i] = e \/
        (i \in DOMAIN q /\ Append(q, e)[i] = q[i])
  OBVIOUS
<1> QED BY <1>1

(* EventsPaired is preserved.                                                *)
LEMMA PairedStep ==
  ASSUME TypeOK, EntriesFresh, EventsPaired, [Next]_vars
  PROVE  EventsPaired'
<1>0. /\ KernelTypeOK /\ EventPathOK /\ RingSize \in Nat /\ ChanSize \in Nat
  BY TracerAssumption DEF TypeOK
<1>1. ASSUME UNCHANGED <<ring, readVars, events, recorded>>
      PROVE  EventsPaired'
  BY <1>1 DEF EventsPaired, readVars, PairedWithItsEnter
<1>2. ASSUME NEW t \in Tid, EnterSubmit(t)
      PROVE  EventsPaired'
  <2> DEFINE e == [exit |-> FALSE, nr |-> call[t].nr, ts |-> call[t].ts,
                   lat |-> 0, ret |-> 0, of |-> call[t]]
  <2>1. /\ ring' = (IF HasRoom(ring, RingSize) THEN Append(ring, e) ELSE ring)
        /\ UNCHANGED <<reader, readerEvt, events, recorded>>
    BY <1>2 DEF EnterSubmit, readVars, obsVars
  <2>2. call[t] \in Call
    BY <1>0, <1>2 DEF EnterSubmit, KernelTypeOK, InKernel
  <2>3. e \in Event
    BY <2>2 DEF Event, Call, Rets
  <2>4. PairedWithItsEnter(e)
    BY DEF PairedWithItsEnter
  <2> HIDE DEF e
  <2>5. \A i \in DOMAIN ring' : PairedWithItsEnter(ring'[i])
    BY <1>0, <2>1, <2>3, <2>4, AppendPaired DEF EventsPaired, EventPathOK
  <2> QED BY <2>1, <2>5 DEF EventsPaired, PairedWithItsEnter
<1>3. ASSUME NEW t \in Tid, NEW ret \in Rets, ExitSubmit(t, ret)
      PROVE  EventsPaired'
  <2> DEFINE e == [exit |-> TRUE, nr |-> active[t].nr, ts |-> probeTs[t],
                   lat |-> probeTs[t] - active[t].ts, ret |-> ret, of |-> call[t]]
  <2>1. /\ ring' = (IF HasRoom(ring, RingSize) THEN Append(ring, e) ELSE ring)
        /\ UNCHANGED <<reader, readerEvt, events, recorded>>
    BY <1>3 DEF ExitSubmit, Gtid, readVars, obsVars
  <2>2. OwnEntry(t)
    BY <1>3 DEF ExitSubmit, EntriesFresh
  <2>3. active[t].nr = call[t].nr /\ active[t].ts = call[t].ts
    BY <2>2 DEF OwnEntry
  <2>4. e \in Event
    <3>1. active[t] \in Active /\ probeTs[t] \in Nat
      BY <1>0, <1>3 DEF ExitSubmit, KernelTypeOK
    <3> QED BY <2>2, <3>1 DEF Event, Active, OwnEntry
  <2>5. PairedWithItsEnter(e)
    BY <2>2, <2>3, Distinct DEF PairedWithItsEnter, OwnEntry
  <2> HIDE DEF e
  <2>6. \A i \in DOMAIN ring' : PairedWithItsEnter(ring'[i])
    BY <1>0, <2>1, <2>4, <2>5, AppendPaired DEF EventsPaired, EventPathOK
  <2> QED BY <2>1, <2>6 DEF EventsPaired, PairedWithItsEnter
<1>4. ASSUME ReadCheck \/ ReadClosed \/ ReadTransient \/ Start
      PROVE  EventsPaired'
  BY <1>4 DEF ReadCheck, ReadClosed, ReadTransient, Start, EventsPaired,
              ringVars, obsVars, PairedWithItsEnter
<1>5. ASSUME Read
      PROVE  EventsPaired'
  <2>1. /\ ring # <<>> /\ readerEvt' = Head(ring) /\ ring' = Tail(ring)
        /\ UNCHANGED <<events, recorded>>
    BY <1>5 DEF Read, obsVars
  <2>2. Head(ring) = ring[1] /\ 1 \in DOMAIN ring
    BY <1>0, <2>1 DEF EventPathOK
  <2>3. \A i \in DOMAIN Tail(ring) : i + 1 \in DOMAIN ring
                                      /\ Tail(ring)[i] = ring[i + 1]
    BY <1>0, <2>1 DEF EventPathOK
  <2> QED BY <2>1, <2>2, <2>3 DEF EventsPaired, PairedWithItsEnter
<1>6. ASSUME Send
      PROVE  EventsPaired'
  <2>1. /\ reader = "send" /\ reader' = "check" /\ UNCHANGED <<ring, recorded>>
        /\ events' = (IF HasRoom(events, ChanSize) THEN Append(events, readerEvt)
                      ELSE events)
    BY <1>6 DEF Send, ringVars, obsVars
  <2>2. readerEvt \in Event /\ PairedWithItsEnter(readerEvt)
    BY <1>0, <2>1 DEF EventPathOK, EventsPaired
  <2>3. \A i \in DOMAIN events' : PairedWithItsEnter(events'[i])
    BY <1>0, <2>1, <2>2, AppendPaired DEF EventsPaired, EventPathOK
  <2> QED BY <2>1, <2>3 DEF EventsPaired, PairedWithItsEnter
<1>7. ASSUME CollectEvent
      PROVE  EventsPaired'
  <2>1. /\ events # <<>> /\ recorded' = recorded \cup {Head(events)}
        /\ events' = Tail(events) /\ UNCHANGED <<ring, reader, readerEvt>>
    BY <1>7 DEF CollectEvent, ringVars, readVars
  <2>2. Head(events) = events[1] /\ 1 \in DOMAIN events
    BY <1>0, <2>1 DEF EventPathOK
  <2>3. \A i \in DOMAIN Tail(events) : i + 1 \in DOMAIN events
                                        /\ Tail(events)[i] = events[i + 1]
    BY <1>0, <2>1 DEF EventPathOK
  <2> QED BY <2>1, <2>2, <2>3 DEF EventsPaired, PairedWithItsEnter
<1>8. \/ UNCHANGED <<ring, readVars, events, recorded>>
      \/ \E t \in Tid : EnterSubmit(t)
      \/ \E t \in Tid, ret \in Rets : ExitSubmit(t, ret)
      \/ ReadCheck \/ ReadClosed \/ ReadTransient \/ Start
      \/ Read \/ Send \/ CollectEvent
  BY DEF Next, vars, ringVars, obsVars, NewSyscallTracer, SetTargetNS, TrackPID,
         Spawn, ThreadEnds, SysEnter, MaybeEmitFile, SysExit, FileReadCheck,
         FileRead, FileReadClosed, FileReadTransient, FileSend, CollectFile,
         TimerFires, CollectTimeout, StopSignal, StopClose
<1> QED BY <1>1, <1>2, <1>3, <1>4, <1>5, <1>6, <1>7, <1>8

(* The three hold in every state if thread ids are not reused.               *)
LEMMA PairingAlways ==
  ASSUME ~TidReuse
  PROVE  Spec => [](TrackedOnly /\ EntriesFresh /\ EventsPaired)
<1> DEFINE I == TrackedOnly /\ EntriesFresh /\ EventsPaired
<1>1. Init => I
  BY DEF Init, TrackedOnly, EntriesFresh, EventsPaired
<1>2. TypeOK /\ I /\ [Next]_vars => I'
  BY TrackedStep, FreshStep, PairedStep
<1> QED BY <1>1, <1>2, TypeCorrect, PTL DEF Spec

(* If thread ids are not reused, every exit event that is under way or was   *)
(* recorded carries the number and the latency of the call it returns from.  *)
THEOREM PairingCorrect ==
  ASSUME ~TidReuse
  PROVE  Spec => []ExitPairsWithItsEnter
<1> DEFINE I == TrackedOnly /\ EntriesFresh /\ EventsPaired
<1>1. Spec => []I
  BY PairingAlways
<1>2. TypeOK /\ I => ExitPairsWithItsEnter
  <2> SUFFICES ASSUME TypeOK, EventsPaired, NEW i \in DOMAIN Pipeline
               PROVE  PairedWithItsEnter(Pipeline[i])
    BY DEF ExitPairsWithItsEnter, EventsPaired
  <2> DEFINE mid == IF reader = "send" THEN <<readerEvt>> ELSE <<>>
  <2>1. events \in Seq(Event) /\ ring \in Seq(Event) /\ mid \in Seq(Event)
    BY DEF TypeOK, EventPathOK
  <2>2. \A j \in DOMAIN mid : PairedWithItsEnter(mid[j])
    BY DEF EventsPaired
  <2>3. Pipeline = events \o mid \o ring
    BY DEF Pipeline
  <2> HIDE DEF mid
  <2>4. \/ \E j \in DOMAIN events : Pipeline[i] = events[j]
        \/ \E j \in DOMAIN mid : Pipeline[i] = mid[j]
        \/ \E j \in DOMAIN ring : Pipeline[i] = ring[j]
    <3>1. DOMAIN Pipeline = 1 .. (Len(events) + Len(mid) + Len(ring))
      BY <2>1, <2>3
    <3>2. CASE i <= Len(events)
      BY <3>1, <3>2, <2>1, <2>3
    <3>3. CASE i > Len(events) /\ i <= Len(events) + Len(mid)
      <4>1. Pipeline[i] = mid[i - Len(events)] /\ i - Len(events) \in DOMAIN mid
        BY <3>1, <3>3, <2>1, <2>3
      <4> QED BY <4>1
    <3>4. CASE i > Len(events) + Len(mid)
      <4>1. /\ Pipeline[i] = ring[i - Len(events) - Len(mid)]
            /\ i - Len(events) - Len(mid) \in DOMAIN ring
        BY <3>1, <3>4, <2>1, <2>3
      <4> QED BY <4>1
    <3> QED BY <3>1, <3>2, <3>3, <3>4, <2>1
  <2> QED BY <2>2, <2>4 DEF EventsPaired
<1> QED BY <1>1, <1>2, TypeCorrect, PTL
----------------------------------------------------------------------------
(* What Collect counts and in which order events reach it.  All of this      *)
(* rests on one description of the way of an event, PathStep: events,        *)
(* readerEvt and ring together are one queue, to which the probes append,    *)
(* out of which Send may drop, and whose head Collect takes.                 *)

----------------------------------------------------------------------------
(* Queues made of parts.                                                    *)

(* q is p with some elements left out.                                       *)
Thins(p, q) ==
  \E g \in [DOMAIN q -> DOMAIN p] :
    /\ \A i, j \in DOMAIN q : i < j => g[i] < g[j]
    /\ \A i \in DOMAIN q : q[i] = p[g[i]]

(* Appending to the last part appends to the queue.                          *)
LEMMA AppendToLast ==
  ASSUME NEW S, NEW a \in Seq(S), NEW b \in Seq(S), NEW e \in S
  PROVE  a \o Append(b, e) = Append(a \o b, e)
<1>1. Append(b, e) = b \o <<e>> /\ <<e>> \in Seq(S) /\ a \o b \in Seq(S)
  BY AppendIsConcat, ConcatProperties
<1>2. Append(a \o b, e) = (a \o b) \o <<e>>
  BY <1>1, AppendIsConcat
<1> QED BY <1>1, <1>2

(* Moving the head of the last part to the end of the one before it leaves   *)
(* the queue as it is.                                                       *)
LEMMA MoveHead ==
  ASSUME NEW S, NEW a \in Seq(S), NEW b \in Seq(S), b # <<>>
  PROVE  /\ (a \o <<Head(b)>>) \o Tail(b) = a \o b
         /\ Append(a, Head(b)) \o Tail(b) = a \o b
<1>1. Head(b) \in S /\ <<Head(b)>> \in Seq(S) /\ Tail(b) \in Seq(S)
  BY HeadTailProperties
<1>2. <<Head(b)>> \o Tail(b) = b
  <2>1. /\ Len(b) \in Nat \ {0} /\ Head(b) = b[1]
        /\ Len(Tail(b)) = Len(b) - 1
        /\ \A i \in 1 .. Len(Tail(b)) : Tail(b)[i] = b[i + 1]
    BY EmptySeq, HeadTailProperties
  <2> DEFINE c == <<Head(b)>> \o Tail(b)
  <2>2. /\ c \in Seq(S) /\ Len(c) = Len(b)
        /\ \A i \in 1 .. Len(b) : c[i] = IF i <= 1 THEN Head(b) ELSE Tail(b)[i - 1]
    BY <1>1, <2>1, ConcatProperties
  <2>3. \A i \in 1 .. Len(c) : c[i] = b[i]
    BY <2>1, <2>2
  <2> HIDE DEF c
  <2>4. c = b
    BY <2>2, <2>3, SeqEqual
  <2> QED BY <2>4 DEF c
<1>3. (a \o <<Head(b)>>) \o Tail(b) = a \o b
  BY <1>1, <1>2
<1>4. Append(a, Head(b)) = a \o <<Head(b)>>
  BY <1>1, AppendIsConcat
<1> QED BY <1>3, <1>4

(* Taking the head of the first part takes the head of the queue.            *)
LEMMA TakeHead ==
  ASSUME NEW S, NEW a \in Seq(S), NEW b \in Seq(S), a # <<>>
  PROVE  /\ a \o b # <<>> /\ Head(a) = (a \o b)[1]
         /\ Tail(a) \o b = Tail(a \o b)
<1>1. /\ Len(a) \in Nat \ {0} /\ Len(b) \in Nat /\ Head(a) = a[1]
      /\ Tail(a) \in Seq(S) /\ Len(Tail(a)) = Len(a) - 1
      /\ \A i \in 1 .. Len(Tail(a)) : Tail(a)[i] = a[i + 1]
  BY EmptySeq, HeadTailProperties
<1>2. /\ a \o b \in Seq(S) /\ Len(a \o b) = Len(a) + Len(b)
      /\ \A i \in 1 .. Len(a) + Len(b) :
           (a \o b)[i] = IF i <= Len(a) THEN a[i] ELSE b[i - Len(a)]
  BY ConcatProperties
<1>3. a \o b # <<>>
  BY <1>1, <1>2, EmptySeq
<1>4. /\ Tail(a \o b) \in Seq(S) /\ Len(Tail(a \o b)) = Len(a) + Len(b) - 1
      /\ \A i \in 1 .. Len(a) + Len(b) - 1 : Tail(a \o b)[i] = (a \o b)[i + 1]
  BY <1>2, <1>3, HeadTailProperties
<1>5. /\ Tail(a) \o b \in Seq(S) /\ Len(Tail(a) \o b) = Len(a) - 1 + Len(b)
      /\ \A i \in 1 .. Len(a) - 1 + Len(b) :
           (Tail(a) \o b)[i] = IF i <= Len(a) - 1 THEN Tail(a)[i] ELSE b[i - (Len(a) - 1)]
  BY <1>1, ConcatProperties
<1>6. \A i \in 1 .. Len(Tail(a) \o b) : (Tail(a) \o b)[i] = Tail(a \o b)[i]
  <2> SUFFICES ASSUME NEW i \in 1 .. Len(a) - 1 + Len(b)
               PROVE  (Tail(a) \o b)[i] = Tail(a \o b)[i]
    BY <1>5
  <2>1. Tail(a \o b)[i] = IF i + 1 <= Len(a) THEN a[i + 1] ELSE b[i + 1 - Len(a)]
    BY <1>1, <1>2, <1>4
  <2>2. CASE i + 1 <= Len(a)
    BY <1>1, <1>5, <2>1, <2>2
  <2>3. CASE ~(i + 1 <= Len(a))
    <3>1. i - (Len(a) - 1) = i + 1 - Len(a) /\ ~(i <= Len(a) - 1)
      BY <1>1, <2>3
    <3> QED BY <1>5, <2>1, <2>3, <3>1
  <2> QED BY <2>2, <2>3
<1>7. Tail(a) \o b = Tail(a \o b)
  BY <1>1, <1>4, <1>5, <1>6, SeqEqual
<1> QED BY <1>1, <1>2, <1>3, <1>7

(* Dropping one element, or the head, thins the queue.                       *)
LEMMA DropOne ==
  ASSUME NEW S, NEW a \in Seq(S), NEW b \in Seq(S), NEW e \in S
  PROVE  Thins((a \o <<e>>) \o b, a \o b)
<1> DEFINE p == (a \o <<e>>) \o b
           q == a \o b
           g == [i \in DOMAIN q |-> IF i <= Len(a) THEN i ELSE i + 1]
<1>1. Len(a) \in Nat /\ Len(b) \in Nat
  OBVIOUS
<1>2. /\ DOMAIN q = 1 .. Len(a) + Len(b)
      /\ \A i \in 1 .. Len(a) + Len(b) : q[i] = IF i <= Len(a) THEN a[i] ELSE b[i - Len(a)]
  <2>1. q \in Seq(S) /\ Len(q) = Len(a) + Len(b)
    BY ConcatProperties
  <2> QED BY <2>1, ConcatProperties
<1>3. /\ a \o <<e>> \in Seq(S) /\ Len(a \o <<e>>) = Len(a) + 1
      /\ \A i \in 1 .. Len(a) : (a \o <<e>>)[i] = a[i]
  <2>1. <<e>> \in Seq(S) /\ Len(<<e>>) = 1
    OBVIOUS
  <2> QED BY <1>1, <2>1, ConcatProperties
<1>4. /\ DOMAIN p = 1 .. Len(a) + 1 + Len(b)
      /\ \A i \in 1 .. Len(a) : p[i] = a[i]
      /\ \A i \in Len(a) + 2 .. Len(a) + 1 + Len(b) : p[i] = b[i - (Len(a) + 1)]
  <2>1. /\ p \in Seq(S) /\ Len(p) = Len(a) + 1 + Len(b)
        /\ \A i \in 1 .. Len(a) + 1 + Len(b) :
             p[i] = IF i <= Len(a) + 1 THEN (a \o <<e>>)[i] ELSE b[i - (Len(a) + 1)]
    BY <1>3, ConcatProperties
  <2> QED BY <1>1, <1>3, <2>1
<1> HIDE DEF p, q
<1>5. g \in [DOMAIN q -> DOMAIN p] /\ \A i, j \in DOMAIN q : i < j => g[i] < g[j]
  BY <1>1, <1>2, <1>4
<1>6. ASSUME NEW i \in DOMAIN q PROVE q[i] = p[g[i]]
  <2>1. CASE i <= Len(a)
    BY <1>1, <1>2, <1>4, <2>1
  <2>2. CASE ~(i <= Len(a))
    <3>1. g[i] = i + 1 /\ i + 1 \in Len(a) + 2 .. Len(a) + 1 + Len(b)
      BY <1>1, <1>2, <2>2
    <3>2. i + 1 - (Len(a) + 1) = i - Len(a)
      BY <1>1, <1>2
    <3> QED BY <1>2, <1>4, <2>2, <3>1, <3>2
  <2> QED BY <2>1, <2>2
<1> HIDE DEF g
<1>7. Thins(p, q)
  BY <1>5, <1>6 DEF Thins
<1> QED BY <1>7 DEF p, q

(* The same for the head.                                                  *)
LEMMA DropHead ==
  ASSUME NEW S, NEW p \in Seq(S), p # <<>>
  PROVE  Thins(p, Tail(p)) /\ \A i \in DOMAIN Tail(p) : i + 1 \in DOMAIN p /\ Tail(p)[i] = p[i + 1]
<1> DEFINE g == [i \in DOMAIN Tail(p) |-> i + 1]
<1>1. /\ DOMAIN p = 1 .. Len(p) /\ Len(p) \in Nat \ {0}
      /\ DOMAIN Tail(p) = 1 .. Len(p) - 1
      /\ \A i \in 1 .. Len(p) - 1 : Tail(p)[i] = p[i + 1]
  BY EmptySeq, HeadTailProperties
<1>2. /\ g \in [DOMAIN Tail(p) -> DOMAIN p]
      /\ \A i, j \in DOMAIN Tail(p) : i < j => g[i] < g[j]
      /\ \A i \in DOMAIN Tail(p) : Tail(p)[i] = p[g[i]]
  <2> DEFINE n == Len(p) - 1
             q == Tail(p)
  <2>1. n \in Nat /\ DOMAIN p = 1 .. n + 1 /\ DOMAIN q = 1 .. n
    BY <1>1
  <2>2. \A i \in 1 .. n : q[i] = p[i + 1]
    BY <1>1
  <2> HIDE DEF n, q
  <2> QED BY <2>1, <2>2 DEF q
<1> HIDE DEF g
<1> QED BY <1>1, <1>2 DEF Thins

(* And for nothing at all.                                                 *)
LEMMA DropNone ==
  ASSUME NEW S, NEW p \in Seq(S)
  PROVE  Thins(p, p)
<1> DEFINE g == [i \in DOMAIN p |-> i]
<1>1. /\ g \in [DOMAIN p -> DOMAIN p]
      /\ \A i, j \in DOMAIN p : i < j => g[i] < g[j]
      /\ \A i \in DOMAIN p : p[i] = p[g[i]]
  OBVIOUS
<1> HIDE DEF g
<1> QED BY <1>1 DEF Thins
----------------------------------------------------------------------------
(* The way of an event from the probes to Collect.                           *)

(* What the two probes submit for the thread they run on.                    *)
EnterEvent(t) == [exit |-> FALSE, nr |-> call[t].nr, ts |-> call[t].ts,
                  lat |-> 0, ret |-> 0, of |-> call[t]]
ExitEvent(t, ret) == [exit |-> TRUE, nr |-> active[t].nr, ts |-> probeTs[t],
                      lat |-> probeTs[t] - active[t].ts, ret |-> ret, of |-> call[t]]

(* The event readLoop has in hand.                                           *)
InHand == IF reader = "send" THEN <<readerEvt>> ELSE <<>>

(* What a step can do to it.                                                 *)
PathStep ==
  \/ /\ recorded' = recorded
     /\ \/ Thins(Pipeline, Pipeline')
        \/ \E t \in Tid : EnterSubmit(t) /\ Pipeline' = Append(Pipeline, EnterEvent(t))
        \/ \E t \in Tid, ret \in Rets :
             ExitSubmit(t, ret) /\ Pipeline' = Append(Pipeline, ExitEvent(t, ret))
  \/ /\ CollectEvent /\ Pipeline # <<>> /\ Head(events) = Pipeline[1]
     /\ recorded' = recorded \cup {Pipeline[1]} /\ Pipeline' = Tail(Pipeline)

(* The parts of the way are queues of events.                                *)
LEMMA PathType ==
  ASSUME TypeOK
  PROVE  /\ events \in Seq(Event) /\ ring \in Seq(Event) /\ InHand \in Seq(Event)
         /\ reader = "send" => readerEvt \in Event
         /\ Pipeline = (events \o InHand) \o ring /\ events \o InHand \in Seq(Event)
         /\ Pipeline \in Seq(Event)
         /\ DOMAIN Pipeline = 1 .. Len(Pipeline) /\ Len(Pipeline) \in Nat
         /\ \A i \in DOMAIN Pipeline : Pipeline[i] \in Event
<1>1. /\ events \in Seq(Event) /\ ring \in Seq(Event)
      /\ reader = "send" => readerEvt \in Event
  BY DEF TypeOK, EventPathOK
<1>2. InHand \in Seq(Event)
  BY <1>1 DEF InHand
<1>3. events \o InHand \in Seq(Event) /\ (events \o InHand) \o ring \in Seq(Event)
  BY <1>1, <1>2, ConcatProperties
<1>4. Pipeline = (events \o InHand) \o ring
  BY DEF Pipeline, InHand
<1> QED BY <1>1, <1>2, <1>3, <1>4

(* The same after a step.                                                    *)
LEMMA PathTypeNext ==
  ASSUME TypeOK'
  PROVE  Pipeline' \in Seq(Event) /\ DOMAIN Pipeline' = 1 .. Len(Pipeline')
<1>1. /\ events' \in Seq(Event) /\ ring' \in Seq(Event)
      /\ reader' = "send" => readerEvt' \in Event
  BY DEF TypeOK, EventPathOK
<1>2. InHand' \in Seq(Event)
  BY <1>1 DEF InHand
<1>3. events' \o InHand' \in Seq(Event) /\ (events' \o InHand') \o ring' \in Seq(Event)
  BY <1>1, <1>2, ConcatProperties
<1>4. Pipeline' = (events' \o InHand') \o ring'
  BY DEF Pipeline, InHand
<1> QED BY <1>3, <1>4

(* The events the probes submit are events.                                  *)
LEMMA SubmittedType ==
  ASSUME TypeOK, NEW t \in Tid
  PROVE  /\ thread[t] = "enter" => EnterEvent(t) \in Event /\ call[t] \in Call
         /\ thread[t] = "exit" => \A ret \in Rets : ExitEvent(t, ret) \in Event
<1>1. KernelTypeOK
  BY DEF TypeOK
<1>2. ASSUME thread[t] = "enter" PROVE EnterEvent(t) \in Event /\ call[t] \in Call
  <2>1. call[t] \in Call
    BY <1>1, <1>2 DEF KernelTypeOK, InKernel
  <2> QED BY <2>1 DEF EnterEvent, Event, Call, Rets
<1>3. ASSUME thread[t] = "exit", NEW ret \in Rets PROVE ExitEvent(t, ret) \in Event
  <2>1. /\ active[t] \in Active /\ probeTs[t] \in Nat /\ call[t] \in Call \cup {NoCall}
    BY <1>1, <1>3 DEF KernelTypeOK
  <2> QED BY <2>1 DEF ExitEvent, Event, Active
<1> QED BY <1>2, <1>3

(* A step that leaves the parts alone leaves the way alone.                  *)
LEMMA PathFrame ==
  ASSUME TypeOK, UNCHANGED <<ring, readVars, events, recorded>>
  PROVE  PathStep
<1>1. Pipeline' = Pipeline
  BY DEF Pipeline, readVars
<1> QED BY <1>1, PathType, DropNone DEF PathStep

(* A step of readLoop that has no event in hand afterwards and does not read *)
(* leaves the way alone or drops the event it had.                           *)
LEMMA PathDrop ==
  ASSUME TypeOK, reader' # "send", UNCHANGED <<ring, events, recorded>>
  PROVE  PathStep
<1>1. Pipeline' = (events \o <<>>) \o ring
  BY DEF Pipeline
<1>2. Pipeline' = events \o ring
  BY <1>1, PathType, ConcatEmptySeq
<1>3. CASE reader = "send"
  <2>1. Pipeline = (events \o <<readerEvt>>) \o ring
    BY <1>3, PathType DEF InHand
  <2>2. Thins(Pipeline, Pipeline')
    BY <1>2, <1>3, <2>1, PathType, DropOne
  <2> QED BY <2>2 DEF PathStep
<1>4. CASE reader # "send"
  <2>1. Pipeline = (events \o <<>>) \o ring
    BY <1>4, PathType DEF InHand
  <2> QED BY <1>1, <2>1, PathType, DropNone DEF PathStep
<1> QED BY <1>3, <1>4

(* A probe's submission appends or, with the ring full, is lost.             *)
LEMMA PathAppend ==
  ASSUME TypeOK, NEW e \in Event, UNCHANGED <<readVars, events>>,
         ring' = IF HasRoom(ring, RingSize) THEN Append(ring, e) ELSE ring
  PROVE  Pipeline' = Append(Pipeline, e) \/ Thins(Pipeline, Pipeline')
<1>1. InHand' = InHand /\ Pipeline' = (events \o InHand) \o ring'
  BY DEF InHand, Pipeline, readVars
<1>2. CASE HasRoom(ring, RingSize)
  <2>1. Pipeline' = Append((events \o InHand) \o ring, e)
    BY <1>1, <1>2, PathType, AppendToLast
  <2> QED BY <2>1, PathType
<1>3. CASE ~HasRoom(ring, RingSize)
  <2>1. Pipeline' = Pipeline
    BY <1>1, <1>3, PathType
  <2> QED BY <2>1, PathType, DropNone
<1> QED BY <1>2, <1>3

(* Collect takes the head of the queue.                                     *)
LEMMA PathCollect ==
  ASSUME TypeOK, CollectEvent
  PROVE  /\ Pipeline # <<>> /\ Head(events) = Pipeline[1]
         /\ recorded' = recorded \cup {Pipeline[1]} /\ Pipeline' = Tail(Pipeline)
<1>1. /\ events # <<>> /\ recorded' = recorded \cup {Head(events)}
      /\ events' = Tail(events) /\ UNCHANGED <<ring, reader, readerEvt>>
  BY DEF CollectEvent, ringVars, readVars
<1>2. /\ events \o InHand # <<>> /\ Head(events) = (events \o InHand)[1]
      /\ Tail(events) \o InHand = Tail(events \o InHand)
      /\ Head(events) = Head(events \o InHand)
  <2>1. /\ events \o InHand # <<>> /\ Head(events) = (events \o InHand)[1]
        /\ Tail(events) \o InHand = Tail(events \o InHand)
    BY <1>1, PathType, TakeHead
  <2> QED BY <2>1
<1>3. /\ Pipeline # <<>> /\ Head(events) = Pipeline[1]
      /\ Tail(events \o InHand) \o ring = Tail(Pipeline)
  BY <1>2, PathType, TakeHead
<1>4. Pipeline' = (Tail(events) \o InHand) \o ring
  BY <1>1 DEF Pipeline, InHand
<1> QED BY <1>1, <1>2, <1>3, <1>4

(* Every step is one of these.                                               *)
LEMMA PathSteps ==
  ASSUME TypeOK, [Next]_vars
  PROVE  PathStep
<1>1. ASSUME NEW t \in Tid, EnterSubmit(t) PROVE PathStep
  <2>1. /\ UNCHANGED <<readVars, events, recorded>> /\ thread[t] = "enter"
        /\ ring' = IF HasRoom(ring, RingSize) THEN Append(ring, EnterEvent(t)) ELSE ring
    BY <1>1 DEF EnterSubmit, EnterEvent, obsVars
  <2>2. Pipeline' = Append(Pipeline, EnterEvent(t)) \/ Thins(Pipeline, Pipeline')
    BY <2>1, PathAppend, SubmittedType
  <2> QED BY <1>1, <2>1, <2>2 DEF PathStep
<1>2. ASSUME NEW t \in Tid, NEW ret \in Rets, ExitSubmit(t, ret) PROVE PathStep
  <2>1. /\ UNCHANGED <<readVars, events, recorded>> /\ thread[t] = "exit"
        /\ ring' = IF HasRoom(ring, RingSize) THEN Append(ring, ExitEvent(t, ret)) ELSE ring
    BY <1>2 DEF ExitSubmit, ExitEvent, Gtid, obsVars
  <2>2. Pipeline' = Append(Pipeline, ExitEvent(t, ret)) \/ Thins(Pipeline, Pipeline')
    BY <2>1, PathAppend, SubmittedType
  <2> QED BY <1>2, <2>1, <2>2 DEF PathStep
<1>3. CASE ReadCheck \/ ReadClosed \/ ReadTransient \/ Start
  <2>1. reader' # "send" /\ UNCHANGED <<ring, events, recorded>>
    BY <1>3 DEF ReadCheck, ReadClosed, ReadTransient, Start, ringVars, obsVars
  <2> QED BY <2>1, PathDrop
<1>4. CASE Read
  <2>1. /\ reader # "send" /\ reader' = "send" /\ ring # <<>> /\ readerEvt' = Head(ring)
        /\ ring' = Tail(ring) /\ UNCHANGED <<events, recorded>>
    BY <1>4 DEF Read, obsVars
  <2>2. Pipeline' = (events \o <<Head(ring)>>) \o Tail(ring)
    BY <2>1 DEF Pipeline
  <2>3. Pipeline = (events \o <<>>) \o ring
    BY <2>1 DEF Pipeline
  <2>4. Pipeline' = Pipeline
    <3>1. (events \o <<Head(ring)>>) \o Tail(ring) = events \o ring
      BY <2>1, PathType, MoveHead
    <3>2. events \o <<>> = events
      BY PathType, ConcatEmptySeq
    <3> QED BY <2>2, <2>3, <3>1, <3>2
  <2> QED BY <2>1, <2>4, PathType, DropNone DEF PathStep
<1>5. CASE Send
  <2>1. /\ reader = "send" /\ reader' = "check" /\ UNCHANGED <<ring, recorded>>
        /\ events' = IF HasRoom(events, ChanSize) THEN Append(events, readerEvt) ELSE events
    BY <1>5 DEF Send, ringVars, obsVars
  <2>2. CASE HasRoom(events, ChanSize)
    <3>1. Pipeline' = (Append(events, readerEvt) \o <<>>) \o ring
      BY <2>1, <2>2 DEF Pipeline
    <3>2. Append(events, readerEvt) = events \o <<readerEvt>>
          /\ Append(events, readerEvt) \in Seq(Event)
      BY <2>1, PathType, AppendIsConcat, AppendProperties
    <3>3. Pipeline' = (events \o <<readerEvt>>) \o ring
      BY <3>1, <3>2, ConcatEmptySeq
    <3>4. Pipeline' = Pipeline
      BY <2>1, <3>3 DEF Pipeline
    <3> QED BY <2>1, <3>4, PathType, DropNone DEF PathStep
  <2>3. CASE ~HasRoom(events, ChanSize)
    BY <2>1, <2>3, PathDrop
  <2> QED BY <2>2, <2>3
<1>6. CASE CollectEvent
  BY <1>6, PathCollect DEF PathStep
<1>7. \/ UNCHANGED <<ring, readVars, events, recorded>>
      \/ \E t \in Tid : EnterSubmit(t)
      \/ \E t \in Tid, ret \in Rets : ExitSubmit(t, ret)
      \/ ReadCheck \/ ReadClosed \/ ReadTransient \/ Start
      \/ Read \/ Send \/ CollectEvent
  BY DEF Next, vars, ringVars, obsVars, NewSyscallTracer, SetTargetNS, TrackPID,
         Spawn, ThreadEnds, SysEnter, MaybeEmitFile, SysExit, FileReadCheck,
         FileRead, FileReadClosed, FileReadTransient, FileSend, CollectFile,
         TimerFires, CollectTimeout, StopSignal, StopClose
<1> QED BY <1>1, <1>2, <1>3, <1>4, <1>5, <1>6, <1>7, PathFrame
----------------------------------------------------------------------------
(* Where events come from.                                                   *)

(* The events on their way and those recorded.                               *)
Seen == recorded \cup {Pipeline[i] : i \in DOMAIN Pipeline}

(* A call in progress is one of those issued and belongs to its thread; one  *)
(* that a probe still reports is of the target.                              *)
CallsKnown ==
  /\ IsFiniteSet(issued) /\ \A c \in issued : c.id <= nextCall
  /\ \A t \in Tid : call[t] = NoCall \/ (call[t] \in issued /\ call[t].tid = t)
  /\ \A t \in Tid : thread[t] \in {"enter", "file"} => t \in Target

(* An event reports a call that was issued, an enter event one of the target *)
(* under its own number, and no event of a call precedes its enter event.    *)
EventsKnown ==
  /\ \A e \in Seen : /\ e.of \in issued \cup {NoCall}
                     /\ ~e.exit => /\ e.of \in issued /\ e.nr = e.of.nr
                                   /\ e.of.tid \in Target
  /\ \A t \in Tid : thread[t] = "enter" => \A e \in Seen : e.of # call[t]

(* Nothing is seen that was not seen before or just submitted.               *)
LEMMA SeenStep ==
  ASSUME TypeOK, [Next]_vars, NEW e \in Seen'
  PROVE  \/ e \in Seen
         \/ \E t \in Tid : EnterSubmit(t) /\ e = EnterEvent(t)
         \/ \E t \in Tid, ret \in Rets : ExitSubmit(t, ret) /\ e = ExitEvent(t, ret)
<1>1. PathStep
  BY PathSteps
<1>2. CASE e \in recorded'
  <2>1. \/ e \in recorded
        \/ Pipeline # <<>> /\ e = Pipeline[1]
    BY <1>1, <1>2 DEF PathStep
  <2>2. Pipeline # <<>> => 1 \in DOMAIN Pipeline
    BY PathType, EmptySeq
  <2> QED BY <2>1, <2>2 DEF Seen
<1>3. CASE \E i \in DOMAIN Pipeline' : e = Pipeline'[i]
  <2>1. PICK i \in DOMAIN Pipeline' : e = Pipeline'[i]
    BY <1>3
  <2>2. CASE Thins(Pipeline, Pipeline')
    BY <2>1, <2>2 DEF Thins, Seen
  <2>3. ASSUME NEW f \in Event, Pipeline' = Append(Pipeline, f)
        PROVE  e \in Seen \/ e = f
    <3>1. DOMAIN Pipeline' = 1 .. Len(Pipeline) + 1
          /\ Pipeline'[Len(Pipeline) + 1] = f
          /\ \A k \in 1 .. Len(Pipeline) : Pipeline'[k] = Pipeline[k]
      BY <2>3, PathType, AppendProperties
    <3>2. i = Len(Pipeline) + 1 \/ i \in 1 .. Len(Pipeline)
      BY <2>1, <3>1, PathType
    <3> QED BY <2>1, <3>1, <3>2, PathType DEF Seen
  <2>4. ASSUME NEW t \in Tid, EnterSubmit(t), Pipeline' = Append(Pipeline, EnterEvent(t))
        PROVE  e \in Seen \/ e = EnterEvent(t)
    BY <2>3, <2>4, SubmittedType DEF EnterSubmit
  <2>5. ASSUME NEW t \in Tid, NEW ret \in Rets, ExitSubmit(t, ret),
               Pipeline' = Append(Pipeline, ExitEvent(t, ret))
        PROVE  e \in Seen \/ e = ExitEvent(t, ret)
    BY <2>3, <2>5, SubmittedType DEF ExitSubmit
  <2>6. ASSUME Pipeline # <<>>, Pipeline' = Tail(Pipeline) PROVE e \in Seen
    <3>1. Thins(Pipeline, Pipeline')
      BY <2>6, PathType, DropHead
    <3> QED BY <2>1, <3>1 DEF Thins, Seen
  <2> QED BY <1>1, <2>2, <2>4, <2>5, <2>6 DEF PathStep
<1> QED BY <1>2, <1>3 DEF Seen

(* A thread between the two parts of trace_sys_enter was there before, in    *)
(* the same call, or has just made one with a new id.                        *)
LEMMA EnteringStep ==
  ASSUME TypeOK, [Next]_vars, NEW u \in Tid, thread'[u] = "enter"
  PROVE  \/ thread[u] = "enter" /\ call'[u] = call[u]
         \/ call'[u].id = nextCall + 1 /\ thread[u] = "user"
<1>0. thread \in [Tid -> Threads] /\ call \in [Tid -> Call \cup {NoCall}]
  BY DEF TypeOK, KernelTypeOK
<1>1. ASSUME NEW t \in Tid, NEW nr \in Nr, SysEnter(t, nr)
      PROVE  \/ thread[u] = "enter" /\ call'[u] = call[u]
             \/ call'[u].id = nextCall + 1 /\ thread[u] = "user"
  <2>1. /\ thread[t] = "user" /\ \E c : c.id = nextCall + 1 /\ call' = [call EXCEPT ![t] = c]
        /\ \E x \in {"enter", "kernel"} : thread' = [thread EXCEPT ![t] = x]
    BY <1>1 DEF SysEnter
  <2> QED BY <1>0, <2>1
<1>2. ASSUME NEW t \in Tid, \/ Spawn(t) \/ ThreadEnds(t) \/ EnterSubmit(t)
                           \/ MaybeEmitFile(t) \/ SysExit(t)
                           \/ \E ret \in Rets : ExitSubmit(t, ret)
      PROVE  thread[u] = "enter" /\ call'[u] = call[u]
  <2>1. /\ \E x \in {"newborn", "none", "file", "kernel", "exit", "user"} :
             thread' = [thread EXCEPT ![t] = x]
        /\ call' = call \/ call' = [call EXCEPT ![t] = NoCall]
    BY <1>2 DEF Spawn, ThreadEnds, EnterSubmit, MaybeEmitFile, SysExit, ExitSubmit
  <2> QED BY <1>0, <2>1
<1>3. CASE UNCHANGED kernelVars
  BY <1>3 DEF kernelVars
<1>4. \/ \E r \in Resources : NewSyscallTracer(r) \/ StopClose(r)
      \/ SetTargetNS \/ TrackPID \/ Start \/ TimerFires \/ CollectTimeout
      \/ StopSignal \/ GoSide \/ UNCHANGED vars
      => UNCHANGED kernelVars
  BY GoSideFrame DEF NewSyscallTracer, StopClose, SetTargetNS, TrackPID, Start, TimerFires,
     CollectTimeout, StopSignal, vars
<1> QED BY <1>1, <1>2, <1>3, <1>4, StepCases

(* CallsKnown is preserved, and calls issued stay so.                        *)
LEMMA CallsStep ==
  ASSUME TypeOK, CallsKnown, [Next]_vars
  PROVE  CallsKnown' /\ issued \subseteq issued' /\ nextCall <= nextCall'
<1>0. /\ thread \in [Tid -> Threads] /\ call \in [Tid -> Call \cup {NoCall}]
      /\ nextCall \in Nat /\ issued \in SUBSET Call
  BY DEF TypeOK, KernelTypeOK
<1>1. ASSUME NEW t \in Tid, NEW nr \in Nr, SysEnter(t, nr)
      PROVE  CallsKnown' /\ issued \subseteq issued' /\ nextCall <= nextCall'
  <2> DEFINE probed == "enterLink" \in held /\ PidIsTracked(t)
             c == [id |-> nextCall + 1, tid |-> t, nr |-> nr,
                   probed |-> probed, ts |-> IF probed THEN clock ELSE 0]
  <2>1. /\ nextCall' = nextCall + 1 /\ issued' = issued \cup {c}
        /\ call' = [call EXCEPT ![t] = c]
        /\ \/ probed /\ thread' = [thread EXCEPT ![t] = "enter"]
           \/ thread' = [thread EXCEPT ![t] = "kernel"]
    BY <1>1 DEF SysEnter
  <2>2. c.id = nextCall + 1 /\ c.tid = t /\ (probed => t \in Target)
    BY DEF PidIsTracked
  <2> HIDE DEF c, probed
  <2>3. IsFiniteSet(issued')
    BY <2>1, FS_AddElement DEF CallsKnown
  <2>4. \A d \in issued' : d.id <= nextCall'
    <3> SUFFICES ASSUME NEW d \in issued' PROVE d.id <= nextCall + 1
      BY <2>1
    <3>1. CASE d \in issued
      <4>1. d.id \in Nat /\ d.id <= nextCall
        BY <1>0, <3>1 DEF Call, CallsKnown
      <4> QED BY <1>0, <4>1
    <3>2. CASE d = c
      BY <1>0, <2>2, <3>2
    <3> QED BY <2>1, <3>1, <3>2
  <2>5. \A u \in Tid : call'[u] = NoCall \/ (call'[u] \in issued' /\ call'[u].tid = u)
    BY <1>0, <2>1, <2>2 DEF CallsKnown
  <2>6. \A u \in Tid : thread'[u] \in {"enter", "file"} => u \in Target
    BY <1>0, <2>1, <2>2 DEF CallsKnown
  <2> QED BY <1>0, <2>1, <2>3, <2>4, <2>5, <2>6 DEF CallsKnown
<1>2. ASSUME NEW t \in Tid, \/ Spawn(t) \/ ThreadEnds(t) \/ EnterSubmit(t)
                           \/ MaybeEmitFile(t) \/ SysExit(t)
                           \/ \E ret \in Rets : ExitSubmit(t, ret)
      PROVE  CallsKnown' /\ issued \subseteq issued' /\ nextCall <= nextCall'
  <2>1. /\ UNCHANGED <<nextCall, issued>>
        /\ \/ /\ thread[t] = "enter"
              /\ \E x \in {"file", "kernel"} : thread' = [thread EXCEPT ![t] = x]
           \/ \E x \in {"newborn", "none", "kernel", "exit", "user"} :
                thread' = [thread EXCEPT ![t] = x]
        /\ call' = call \/ call' = [call EXCEPT ![t] = NoCall]
    BY <1>2 DEF Spawn, ThreadEnds, EnterSubmit, MaybeEmitFile, SysExit, ExitSubmit
  <2>2. \A u \in Tid : call'[u] = NoCall \/ (call'[u] \in issued' /\ call'[u].tid = u)
    BY <1>0, <2>1 DEF CallsKnown
  <2>3. \A u \in Tid : thread'[u] \in {"enter", "file"} => u \in Target
    BY <1>0, <2>1 DEF CallsKnown
  <2> QED BY <1>0, <2>1, <2>2, <2>3 DEF CallsKnown
<1>3. CASE UNCHANGED kernelVars
  BY <1>0, <1>3 DEF kernelVars, CallsKnown
<1>4. \/ \E r \in Resources : NewSyscallTracer(r) \/ StopClose(r)
      \/ SetTargetNS \/ TrackPID \/ Start \/ TimerFires \/ CollectTimeout
      \/ StopSignal \/ GoSide \/ UNCHANGED vars
      => UNCHANGED kernelVars
  BY GoSideFrame DEF NewSyscallTracer, StopClose, SetTargetNS, TrackPID, Start, TimerFires,
     CollectTimeout, StopSignal, vars
<1> QED BY <1>1, <1>2, <1>3, <1>4, StepCases

(* EventsKnown is preserved.                                                 *)
LEMMA EventsKnownStep ==
  ASSUME TypeOK, CallsKnown, EventsKnown, [Next]_vars
  PROVE  EventsKnown'
<1>0. /\ thread \in [Tid -> Threads] /\ call \in [Tid -> Call \cup {NoCall}]
      /\ nextCall \in Nat /\ issued \in SUBSET Call /\ issued \subseteq issued'
      /\ NoCall \notin Call /\ NoCall.id = 0
  BY CallsStep, Distinct DEF TypeOK, KernelTypeOK, NoCall
<1>1. ASSUME NEW e \in Seen'
      PROVE  /\ e.of \in issued \cup {NoCall}
             /\ ~e.exit => /\ e.of \in issued /\ e.nr = e.of.nr /\ e.of.tid \in Target
  <2>1. CASE e \in Seen
    BY <2>1 DEF EventsKnown
  <2>2. ASSUME NEW t \in Tid, EnterSubmit(t), e = EnterEvent(t)
        PROVE  e.of \in issued /\ e.nr = e.of.nr /\ e.of.tid \in Target
    <3>1. thread[t] = "enter" /\ call[t] \in Call
      BY <2>2, SubmittedType DEF EnterSubmit
    <3>2. call[t] \in issued /\ call[t].tid = t /\ t \in Target
      BY <1>0, <3>1 DEF CallsKnown
    <3> QED BY <2>2, <3>2 DEF EnterEvent
  <2>3. ASSUME NEW t \in Tid, NEW ret \in Rets, e = ExitEvent(t, ret)
        PROVE  e.of \in issued \cup {NoCall} /\ e.exit
    BY <2>3 DEF ExitEvent, CallsKnown
  <2> QED BY <2>1, <2>2, <2>3, SeenStep
<1>2. ASSUME NEW u \in Tid, thread'[u] = "enter", NEW e \in Seen'
      PROVE  e.of # call'[u]
  <2>1. CASE thread[u] = "enter" /\ call'[u] = call[u]
    <3>1. call[u] \in issued /\ call[u].tid = u
      BY <1>0, <2>1, SubmittedType DEF CallsKnown
    <3>2. CASE e \in Seen
      BY <2>1, <3>2 DEF EventsKnown
    <3>3. ASSUME NEW t \in Tid, EnterSubmit(t), e = EnterEvent(t) PROVE e.of # call'[u]
      <4>1. t # u
        BY <1>0, <1>2, <3>3 DEF EnterSubmit
      <4>2. e.of = call[t] /\ (call[t] = NoCall \/ call[t].tid = t)
        BY <3>3 DEF EnterEvent, CallsKnown
      <4> QED BY <1>0, <2>1, <3>1, <4>1, <4>2
    <3>4. ASSUME NEW t \in Tid, NEW ret \in Rets, ExitSubmit(t, ret), e = ExitEvent(t, ret)
          PROVE  e.of # call'[u]
      <4>1. t # u
        BY <2>1, <3>4 DEF ExitSubmit
      <4>2. e.of = call[t] /\ (call[t] = NoCall \/ call[t].tid = t)
        BY <3>4 DEF ExitEvent, CallsKnown
      <4> QED BY <1>0, <2>1, <3>1, <4>1, <4>2
    <3> QED BY <3>2, <3>3, <3>4, SeenStep
  <2>2. CASE call'[u].id = nextCall + 1
    <3>1. e.of \in issued \cup {NoCall}
      BY <1>1
    <3>2. e.of.id \in Nat /\ e.of.id <= nextCall
      BY <1>0, <3>1 DEF CallsKnown, Call
    <3> QED BY <1>0, <2>2, <3>2
  <2> QED BY <1>2, <2>1, <2>2, EnteringStep
<1> QED BY <1>0, <1>1, <1>2 DEF EventsKnown
(* What a new head, a thinned queue or a longer queue has been before.       *)
LEMMA QueueStep ==
  ASSUME TypeOK, [Next]_vars
  PROVE  \/ recorded' = recorded /\ Thins(Pipeline, Pipeline')
         \/ \E e \in Event :
              /\ recorded' = recorded /\ Len(Pipeline) + 1 \notin DOMAIN Pipeline
              /\ DOMAIN Pipeline' = DOMAIN Pipeline \cup {Len(Pipeline) + 1}
              /\ \A i \in DOMAIN Pipeline : Pipeline'[i] = Pipeline[i] /\ i < Len(Pipeline) + 1
              /\ Pipeline'[Len(Pipeline) + 1] = e
              /\ \/ \E t \in Tid : EnterSubmit(t) /\ e = EnterEvent(t)
                 \/ \E t \in Tid, ret \in Rets : ExitSubmit(t, ret) /\ e = ExitEvent(t, ret)
         \/ /\ CollectEvent /\ 1 \in DOMAIN Pipeline
            /\ recorded' = recorded \cup {Pipeline[1]}
            /\ \A i \in DOMAIN Pipeline' : /\ i + 1 \in DOMAIN Pipeline /\ i \in Nat \ {0}
                                           /\ Pipeline'[i] = Pipeline[i + 1]
<1>1. ASSUME NEW e \in Event, Pipeline' = Append(Pipeline, e)
      PROVE  /\ Len(Pipeline) + 1 \notin DOMAIN Pipeline
             /\ DOMAIN Pipeline' = DOMAIN Pipeline \cup {Len(Pipeline) + 1}
             /\ \A i \in DOMAIN Pipeline : Pipeline'[i] = Pipeline[i] /\ i < Len(Pipeline) + 1
             /\ Pipeline'[Len(Pipeline) + 1] = e
  <2>1. /\ DOMAIN Pipeline = 1 .. Len(Pipeline) /\ Len(Pipeline) \in Nat
        /\ DOMAIN Pipeline' = 1 .. Len(Pipeline) + 1
        /\ \A i \in 1 .. Len(Pipeline) : Pipeline'[i] = Pipeline[i]
        /\ Pipeline'[Len(Pipeline) + 1] = e
    BY <1>1, PathType, AppendProperties
  <2> QED BY <2>1
<1>2. ASSUME Pipeline # <<>>, Pipeline' = Tail(Pipeline)
      PROVE  /\ 1 \in DOMAIN Pipeline
             /\ \A i \in DOMAIN Pipeline' : /\ i + 1 \in DOMAIN Pipeline /\ i \in Nat \ {0}
                                            /\ Pipeline'[i] = Pipeline[i + 1]
  <2>1. 1 \in DOMAIN Pipeline
    BY <1>2, PathType, EmptySeq
  <2>2. DOMAIN Pipeline' \subseteq Nat \ {0}
    BY <1>2, PathType, HeadTailProperties
  <2> QED BY <1>2, <2>1, <2>2, PathType, DropHead
<1>3. ASSUME NEW t \in Tid, EnterSubmit(t) PROVE EnterEvent(t) \in Event
  BY <1>3, SubmittedType DEF EnterSubmit
<1>4. ASSUME NEW t \in Tid, NEW ret \in Rets, ExitSubmit(t, ret)
      PROVE  ExitEvent(t, ret) \in Event
  BY <1>4, SubmittedType DEF ExitSubmit
<1>5. ASSUME NEW t \in Tid, EnterSubmit(t), Pipeline' = Append(Pipeline, EnterEvent(t)),
             recorded' = recorded
      PROVE  \E e \in Event :
              /\ recorded' = recorded /\ Len(Pipeline) + 1 \notin DOMAIN Pipeline
              /\ DOMAIN Pipeline' = DOMAIN Pipeline \cup {Len(Pipeline) + 1}
              /\ \A i \in DOMAIN Pipeline : Pipeline'[i] = Pipeline[i] /\ i < Len(Pipeline) + 1
              /\ Pipeline'[Len(Pipeline) + 1] = e
              /\ \E u \in Tid : EnterSubmit(u) /\ e = EnterEvent(u)
  <2>1. PICK e : e = EnterEvent(t)
    OBVIOUS
  <2>2. e \in Event /\ Pipeline' = Append(Pipeline, e)
    BY <1>3, <1>5, <2>1
  <2> QED BY <1>1, <1>5, <2>1, <2>2
<1>6. ASSUME NEW t \in Tid, NEW ret \in Rets, ExitSubmit(t, ret),
             Pipeline' = Append(Pipeline, ExitEvent(t, ret)), recorded' = recorded
      PROVE  \E e \in Event :
              /\ recorded' = recorded /\ Len(Pipeline) + 1 \notin DOMAIN Pipeline
              /\ DOMAIN Pipeline' = DOMAIN Pipeline \cup {Len(Pipeline) + 1}
              /\ \A i \in DOMAIN Pipeline : Pipeline'[i] = Pipeline[i] /\ i < Len(Pipeline) + 1
              /\ Pipeline'[Len(Pipeline) + 1] = e
              /\ \E u \in Tid, r \in Rets : ExitSubmit(u, r) /\ e = ExitEvent(u, r)
  <2>1. PICK e : e = ExitEvent(t, ret)
    OBVIOUS
  <2>2. e \in Event /\ Pipeline' = Append(Pipeline, e)
    BY <1>4, <1>6, <2>1
  <2> QED BY <1>1, <1>6, <2>1, <2>2
<1> QED BY <1>2, <1>5, <1>6, PathSteps DEF PathStep

----------------------------------------------------------------------------
(* The queue keeps the order of the probes, and a thread submits the enter   *)
(* event of a call before its exit event or never.                           *)
LEMMA OrderStep ==
  ASSUME TypeOK, EventsKnown, EnterBeforeExit, [Next]_vars
  PROVE  EnterBeforeExit'
<1> SUFFICES
      /\ \A i, j \in DOMAIN Pipeline' :
           (i < j /\ Pipeline'[i].exit /\ Pipeline'[i].of = Pipeline'[j].of)
             => Pipeline'[j].exit
      /\ \A e \in recorded' : \A j \in DOMAIN Pipeline' :
           (e.exit /\ e.of = Pipeline'[j].of) => Pipeline'[j].exit
  BY DEF EnterBeforeExit
<1>0. /\ \A i, j \in DOMAIN Pipeline :
           (i < j /\ Pipeline[i].exit /\ Pipeline[i].of = Pipeline[j].of) => Pipeline[j].exit
      /\ \A e \in recorded : \A j \in DOMAIN Pipeline :
           (e.exit /\ e.of = Pipeline[j].of) => Pipeline[j].exit
  BY DEF EnterBeforeExit
<1>1. CASE recorded' = recorded /\ Thins(Pipeline, Pipeline')
  <2>1. PICK g \in [DOMAIN Pipeline' -> DOMAIN Pipeline] :
          /\ \A i, j \in DOMAIN Pipeline' : i < j => g[i] < g[j]
          /\ \A i \in DOMAIN Pipeline' : Pipeline'[i] = Pipeline[g[i]]
    BY <1>1 DEF Thins
  <2> QED BY <1>0, <1>1, <2>1
<1>2. ASSUME NEW e \in Event, recorded' = recorded,
             DOMAIN Pipeline' = DOMAIN Pipeline \cup {Len(Pipeline) + 1},
             \A i \in DOMAIN Pipeline : Pipeline'[i] = Pipeline[i] /\ i < Len(Pipeline) + 1,
             Pipeline'[Len(Pipeline) + 1] = e,
             e.exit \/ \A f \in Seen : f.of # e.of
      PROVE  /\ \A i, j \in DOMAIN Pipeline' :
                  (i < j /\ Pipeline'[i].exit /\ Pipeline'[i].of = Pipeline'[j].of)
                    => Pipeline'[j].exit
             /\ \A f \in recorded' : \A j \in DOMAIN Pipeline' :
                  (f.exit /\ f.of = Pipeline'[j].of) => Pipeline'[j].exit
  <2> DEFINE n == Len(Pipeline) + 1
  <2>1. n \in Nat /\ DOMAIN Pipeline \subseteq Nat
    BY PathType
  <2>2. /\ \A i \in DOMAIN Pipeline : Pipeline[i] \in Seen
        /\ recorded \subseteq Seen
    BY DEF Seen
  <2>3. ASSUME NEW i \in DOMAIN Pipeline', NEW j \in DOMAIN Pipeline',
               i < j, Pipeline'[i].exit, Pipeline'[i].of = Pipeline'[j].of
        PROVE  Pipeline'[j].exit
    <3>1. CASE j \in DOMAIN Pipeline
      <4>1. i # n
        BY <1>2, <2>1, <2>3, <3>1
      <4>2. i \in DOMAIN Pipeline
        BY <1>2, <2>3, <4>1
      <4> QED BY <1>0, <1>2, <2>3, <3>1, <4>2
    <3>2. CASE j = n
      <4>1. i \in DOMAIN Pipeline
        BY <1>2, <2>1, <2>3, <3>2
      <4> QED BY <1>2, <2>2, <2>3, <3>2, <4>1
    <3> QED BY <1>2, <3>1, <3>2
  <2>4. ASSUME NEW f \in recorded', NEW j \in DOMAIN Pipeline', f.exit, f.of = Pipeline'[j].of
        PROVE  Pipeline'[j].exit
    BY <1>0, <1>2, <2>2, <2>4
  <2> QED BY <2>3, <2>4
<1>3. ASSUME NEW t \in Tid, EnterSubmit(t) PROVE \A f \in Seen : f.of # EnterEvent(t).of
  BY <1>3 DEF EnterSubmit, EventsKnown, EnterEvent
<1>4. ASSUME NEW t \in Tid, NEW ret \in Rets PROVE ExitEvent(t, ret).exit
  BY DEF ExitEvent
<1>5. CASE /\ 1 \in DOMAIN Pipeline /\ recorded' = recorded \cup {Pipeline[1]}
           /\ \A i \in DOMAIN Pipeline' : /\ i + 1 \in DOMAIN Pipeline /\ i \in Nat \ {0}
                                          /\ Pipeline'[i] = Pipeline[i + 1]
  <2>1. \A i \in DOMAIN Pipeline' : 1 < i + 1
    BY <1>5
  <2>2. \A i, j \in DOMAIN Pipeline' : i < j => i + 1 < j + 1
    BY <1>5
  <2> QED BY <1>0, <1>5, <2>1, <2>2
<1> QED BY <1>1, <1>2, <1>3, <1>4, <1>5, QueueStep

(* What is on its way or recorded is known, in every state.                  *)
LEMMA EventsAlways == Spec => [](CallsKnown /\ EventsKnown)
<1>1. Init => CallsKnown /\ EventsKnown
  <2> SUFFICES ASSUME Init PROVE CallsKnown /\ EventsKnown
    OBVIOUS
  <2>1. /\ issued = {} /\ nextCall = 0 /\ recorded = {} /\ Pipeline = <<>> \o <<>> \o <<>>
        /\ \A t \in Tid : call[t] = NoCall /\ thread[t] \in {"none", "user"}
    BY DEF Init, Pipeline
  <2>2. Pipeline = <<>>
    BY <2>1, ConcatEmptySeq, EmptySeq
  <2>3. Seen = {}
    BY <2>1, <2>2 DEF Seen
  <2> QED BY <2>1, <2>3, FS_EmptySet DEF CallsKnown, EventsKnown
<1>2. TypeOK /\ CallsKnown /\ EventsKnown /\ [Next]_vars => (CallsKnown /\ EventsKnown)'
  BY CallsStep, EventsKnownStep
<1> QED BY <1>1, <1>2, TypeCorrect, PTL DEF Spec

(* In the first state nothing is on its way.                                 *)
LEMMA NothingYet == Init => DOMAIN Pipeline = {} /\ recorded = {}
<1> SUFFICES ASSUME Init PROVE DOMAIN Pipeline = {} /\ recorded = {}
  OBVIOUS
<1>1. Pipeline = <<>> \o <<>> \o <<>> /\ recorded = {}
  BY DEF Init, Pipeline
<1> QED BY <1>1, ConcatEmptySeq, EmptySeq

(* However the steps of threads, readLoop and Collect interleave and         *)
(* whatever is dropped, the exit of a call never reaches Collect before its  *)
(* enter.                                                                    *)
THEOREM OrderCorrect == Spec => []EnterBeforeExit
<1>1. Init => EnterBeforeExit
  BY NothingYet DEF EnterBeforeExit
<1>2. TypeOK /\ EventsKnown /\ EnterBeforeExit /\ [Next]_vars => EnterBeforeExit'
  BY OrderStep
<1> QED BY <1>1, <1>2, EventsAlways, TypeCorrect, PTL DEF Spec
----------------------------------------------------------------------------
(* Counting.  No call has two enter events among those on their way and      *)
(* those recorded, so a count is the size of a set of calls.                 *)
KindOf(e) == IF e.exit THEN "exit" ELSE "enter"

OncePerCall(k) ==
  /\ \A i, j \in DOMAIN Pipeline :
       KindOf(Pipeline[i]) = k /\ KindOf(Pipeline[j]) = k
         /\ Pipeline[i].of = Pipeline[j].of => i = j
  /\ \A e \in recorded : \A j \in DOMAIN Pipeline :
       KindOf(e) = k /\ KindOf(Pipeline[j]) = k => e.of # Pipeline[j].of
  /\ \A e, f \in recorded :
       KindOf(e) = k /\ KindOf(f) = k /\ e.of = f.of => e = f

(* It stays so if each submission of the kind is the first of its call.      *)
LEMMA DistinctStep ==
  ASSUME TypeOK, NEW k \in {"enter", "exit"}, OncePerCall(k), [Next]_vars,
         \A t \in Tid : EnterSubmit(t) /\ k = "enter" =>
           \A f \in Seen : KindOf(f) = k => f.of # call[t],
         \A t \in Tid, ret \in Rets : ExitSubmit(t, ret) /\ k = "exit" =>
           \A f \in Seen : KindOf(f) = k => f.of # call[t]
  PROVE  OncePerCall(k)'
<1> SUFFICES
      /\ \A i, j \in DOMAIN Pipeline' :
           KindOf(Pipeline'[i]) = k /\ KindOf(Pipeline'[j]) = k
             /\ Pipeline'[i].of = Pipeline'[j].of => i = j
      /\ \A e \in recorded' : \A j \in DOMAIN Pipeline' :
           KindOf(e) = k /\ KindOf(Pipeline'[j]) = k => e.of # Pipeline'[j].of
      /\ \A e, f \in recorded' :
           KindOf(e) = k /\ KindOf(f) = k /\ e.of = f.of => e = f
  BY DEF OncePerCall, KindOf
<1>0. /\ \A i, j \in DOMAIN Pipeline :
           KindOf(Pipeline[i]) = k /\ KindOf(Pipeline[j]) = k
             /\ Pipeline[i].of = Pipeline[j].of => i = j
      /\ \A e \in recorded : \A j \in DOMAIN Pipeline :
           KindOf(e) = k /\ KindOf(Pipeline[j]) = k => e.of # Pipeline[j].of
      /\ \A e, f \in recorded :
           KindOf(e) = k /\ KindOf(f) = k /\ e.of = f.of => e = f
  BY DEF OncePerCall
<1>1. CASE recorded' = recorded /\ Thins(Pipeline, Pipeline')
  <2>1. PICK g \in [DOMAIN Pipeline' -> DOMAIN Pipeline] :
          /\ \A i, j \in DOMAIN Pipeline' : i < j => g[i] < g[j]
          /\ \A i \in DOMAIN Pipeline' : Pipeline'[i] = Pipeline[g[i]]
    BY <1>1 DEF Thins
  <2>2. DOMAIN Pipeline \subseteq Nat /\ DOMAIN Pipeline' \subseteq Nat
    <3>1. TypeOK'
      BY TypeStep
    <3>2. Pipeline' \in Seq(Event)
      BY <3>1, PathTypeNext
    <3> QED BY <3>2, PathType
  <2>3. ASSUME NEW i \in DOMAIN Pipeline', NEW j \in DOMAIN Pipeline',
               KindOf(Pipeline'[i]) = k, KindOf(Pipeline'[j]) = k,
               Pipeline'[i].of = Pipeline'[j].of
        PROVE  i = j
    <3>1. g[i] = g[j]
      BY <1>0, <2>1, <2>3
    <3>2. i < j => g[i] < g[j]
      BY <2>1
    <3>3. j < i => g[j] < g[i]
      BY <2>1
    <3>4. ~(i < j) /\ ~(j < i)
      BY <2>1, <2>2, <3>1, <3>2, <3>3
    <3> QED BY <2>2, <3>4
  <2>4. \A e \in recorded' : \A j \in DOMAIN Pipeline' :
          KindOf(e) = k /\ KindOf(Pipeline'[j]) = k => e.of # Pipeline'[j].of
    BY <1>0, <1>1, <2>1
  <2> QED BY <1>0, <1>1, <2>3, <2>4
<1>2. ASSUME NEW e \in Event, recorded' = recorded,
             Len(Pipeline) + 1 \notin DOMAIN Pipeline,
             DOMAIN Pipeline' = DOMAIN Pipeline \cup {Len(Pipeline) + 1},
             \A i \in DOMAIN Pipeline : Pipeline'[i] = Pipeline[i],
             Pipeline'[Len(Pipeline) + 1] = e,
             KindOf(e) = k => \A f \in Seen : KindOf(f) = k => f.of # e.of
      PROVE  /\ \A i, j \in DOMAIN Pipeline' :
                  KindOf(Pipeline'[i]) = k /\ KindOf(Pipeline'[j]) = k
                    /\ Pipeline'[i].of = Pipeline'[j].of => i = j
             /\ \A f \in recorded' : \A j \in DOMAIN Pipeline' :
                  KindOf(f) = k /\ KindOf(Pipeline'[j]) = k => f.of # Pipeline'[j].of
  <2>1. /\ \A i \in DOMAIN Pipeline : Pipeline[i] \in Seen
        /\ recorded \subseteq Seen
    BY DEF Seen
  <2> QED BY <1>0, <1>2, <2>1
<1>3. ASSUME NEW t \in Tid, EnterSubmit(t), KindOf(EnterEvent(t)) = k
      PROVE  \A f \in Seen : KindOf(f) = k => f.of # EnterEvent(t).of
  BY <1>3 DEF EnterEvent, KindOf
<1>4. ASSUME NEW t \in Tid, NEW ret \in Rets, ExitSubmit(t, ret), KindOf(ExitEvent(t, ret)) = k
      PROVE  \A f \in Seen : KindOf(f) = k => f.of # ExitEvent(t, ret).of
  BY <1>4 DEF ExitEvent, KindOf
<1>5. CASE /\ 1 \in DOMAIN Pipeline /\ recorded' = recorded \cup {Pipeline[1]}
           /\ \A i \in DOMAIN Pipeline' : /\ i + 1 \in DOMAIN Pipeline /\ i \in Nat \ {0}
                                          /\ Pipeline'[i] = Pipeline[i + 1]
  <2>1. \A i \in DOMAIN Pipeline' : 1 # i + 1
    BY <1>5
  <2>2. \A i, j \in DOMAIN Pipeline' : i + 1 = j + 1 => i = j
    BY <1>5
  <2>3. \A i, j \in DOMAIN Pipeline' :
           KindOf(Pipeline'[i]) = k /\ KindOf(Pipeline'[j]) = k
             /\ Pipeline'[i].of = Pipeline'[j].of => i = j
    BY <1>0, <1>5, <2>2
  <2>4. \A e \in recorded' : \A j \in DOMAIN Pipeline' :
           KindOf(e) = k /\ KindOf(Pipeline'[j]) = k => e.of # Pipeline'[j].of
    BY <1>0, <1>5, <2>1
  <2>5. \A e, f \in recorded' :
           KindOf(e) = k /\ KindOf(f) = k /\ e.of = f.of => e = f
    BY <1>0, <1>5
  <2> QED BY <2>3, <2>4, <2>5
<1>6. CASE \E e \in Event :
             /\ recorded' = recorded /\ Len(Pipeline) + 1 \notin DOMAIN Pipeline
             /\ DOMAIN Pipeline' = DOMAIN Pipeline \cup {Len(Pipeline) + 1}
             /\ \A i \in DOMAIN Pipeline : Pipeline'[i] = Pipeline[i]
             /\ Pipeline'[Len(Pipeline) + 1] = e
             /\ \/ \E t \in Tid : EnterSubmit(t) /\ e = EnterEvent(t)
                \/ \E t \in Tid, ret \in Rets : ExitSubmit(t, ret) /\ e = ExitEvent(t, ret)
  <2>1. PICK e \in Event :
             /\ recorded' = recorded /\ Len(Pipeline) + 1 \notin DOMAIN Pipeline
             /\ DOMAIN Pipeline' = DOMAIN Pipeline \cup {Len(Pipeline) + 1}
             /\ \A i \in DOMAIN Pipeline : Pipeline'[i] = Pipeline[i]
             /\ Pipeline'[Len(Pipeline) + 1] = e
             /\ \/ \E t \in Tid : EnterSubmit(t) /\ e = EnterEvent(t)
                \/ \E t \in Tid, ret \in Rets : ExitSubmit(t, ret) /\ e = ExitEvent(t, ret)
    BY <1>6
  <2>2. KindOf(e) = k => \A f \in Seen : KindOf(f) = k => f.of # e.of
    BY <1>3, <1>4, <2>1
  <2>3. /\ \A i, j \in DOMAIN Pipeline' :
             KindOf(Pipeline'[i]) = k /\ KindOf(Pipeline'[j]) = k
               /\ Pipeline'[i].of = Pipeline'[j].of => i = j
        /\ \A f \in recorded' : \A j \in DOMAIN Pipeline' :
             KindOf(f) = k /\ KindOf(Pipeline'[j]) = k => f.of # Pipeline'[j].of
    BY <1>2, <2>1, <2>2
  <2> QED BY <1>0, <2>1, <2>3
<1> QED BY <1>1, <1>5, <1>6, QueueStep

(* recordSyscallEvent adds one to one of the two counts.                     *)
LEMMA RecordCounts ==
  ASSUME NEW rec \in SyscallRecord, NEW e \in Event, NEW anchor \in Nat
  PROVE  LET new == RecordSyscallEvent(rec, e, anchor)
         IN  IF e.exit THEN new.exitCount = rec.exitCount + 1 /\ new.count = rec.count
             ELSE new.count = rec.count + 1 /\ new.exitCount = rec.exitCount
<1> DEFINE offset == TruncDiv(e.ts - anchor, NsPerMs)
           first  == IF rec.count + rec.exitCount > 0 THEN rec.first ELSE offset
           new == RecordSyscallEvent(rec, e, anchor)
<1>1. ASSUME ~e.exit
      PROVE  new.count = rec.count + 1 /\ new.exitCount = rec.exitCount
  <2>1. \E args : new = [rec EXCEPT !.first = first, !.last = offset,
                                   !.count = rec.count + 1, !.args = args]
    BY <1>1 DEF RecordSyscallEvent, SyscallRecord
  <2> HIDE DEF new, offset, first
  <2> QED BY <2>1 DEF SyscallRecord
<1>2. ASSUME e.exit
      PROVE  new.exitCount = rec.exitCount + 1 /\ new.count = rec.count
  <2> DEFINE errs == IF e.ret < 0 THEN rec.errorCount + 1 ELSE rec.errorCount
             rets == IF Len(rec.rets) < MaxSamples THEN Append(rec.rets, e.ret)
                     ELSE rec.rets
             max  == IF e.lat > rec.max THEN e.lat ELSE rec.max
  <2>1. new = [rec EXCEPT !.first = first, !.last = offset,
                          !.exitCount = rec.exitCount + 1, !.errorCount = errs,
                          !.rets = rets, !.total = rec.total + e.lat,
                          !.max = max]
    BY <1>2 DEF RecordSyscallEvent, SyscallRecord
  <2> HIDE DEF new, offset, first, errs, rets, max
  <2> QED BY <2>1 DEF SyscallRecord
<1> HIDE DEF new
<1> QED BY <1>1, <1>2 DEF new

(* Events recorded under number n, and what obs says of them.                *)
Recorded(n, k) == {e \in recorded : KindOf(e) = k /\ e.nr = n}
CountOf(n, k)  == IF k = "exit" THEN obs[n].exitCount ELSE obs[n].count
CountsRecorded(k) ==
  IsFiniteSet(recorded) /\ \A n \in Nr : CountOf(n, k) = Cardinality(Recorded(n, k))

(* Only CollectEvent touches the observation, and it adds one event.         *)
LEMMA ObsStep ==
  ASSUME TypeOK, [Next]_vars
  PROVE  \/ UNCHANGED <<obs, recorded>>
         \/ /\ CollectEvent /\ Pipeline[1] \in Event /\ 1 \in DOMAIN Pipeline
            /\ recorded' = recorded \cup {Pipeline[1]}
            /\ \A n \in Nr : \A k \in {"enter", "exit"} :
                 CountOf(n, k)' = IF n = Pipeline[1].nr /\ k = KindOf(Pipeline[1])
                                  THEN CountOf(n, k) + 1 ELSE CountOf(n, k)
<1>1. CASE CollectEvent
  <2> DEFINE e == Pipeline[1]
             anchor == IF firstEventNS = 0 THEN e.ts ELSE firstEventNS
  <2>1. /\ Pipeline # <<>> /\ Head(events) = e /\ recorded' = recorded \cup {e}
    BY <1>1, PathCollect
  <2>2. 1 \in DOMAIN Pipeline /\ e \in Event
    <3>1. 1 \in DOMAIN Pipeline
      BY <2>1, PathType, EmptySeq
    <3> QED BY <3>1, PathType
  <2>3. e.nr \in Nr /\ e.ts \in Nat /\ e.exit \in BOOLEAN
    BY <2>2 DEF Event
  <2>4. anchor \in Nat /\ obs \in [Nr -> SyscallRecord]
    BY <2>3 DEF TypeOK, ObsTypeOK
  <2>5. obs' = [obs EXCEPT ![e.nr] = RecordSyscallEvent(obs[e.nr], e, anchor)]
    BY <1>1, <2>1, <2>3, <2>4 DEF CollectEvent
  <2> HIDE DEF anchor, e
  <2>6. ASSUME NEW n \in Nr, NEW k \in {"enter", "exit"}
        PROVE  CountOf(n, k)' = IF n = e.nr /\ k = KindOf(e)
                                THEN CountOf(n, k) + 1 ELSE CountOf(n, k)
    <3>1. CASE n = e.nr
      <4> DEFINE new == RecordSyscallEvent(obs[n], e, anchor)
      <4>1. obs[n] \in SyscallRecord /\ obs'[n] = new
        BY <2>4, <2>5, <3>1
      <4>2. IF e.exit THEN new.exitCount = obs[n].exitCount + 1 /\ new.count = obs[n].count
            ELSE new.count = obs[n].count + 1 /\ new.exitCount = obs[n].exitCount
        BY <2>2, <2>4, <4>1, RecordCounts
      <4> HIDE DEF new
      <4> QED BY <2>3, <3>1, <4>1, <4>2 DEF CountOf, KindOf
    <3>2. CASE n # e.nr
      BY <2>4, <2>5, <3>2 DEF CountOf
    <3> QED BY <3>1, <3>2
  <2> QED BY <1>1, <2>1, <2>2, <2>6 DEF e
<1>2. CASE ~CollectEvent
  BY <1>2 DEF Next, vars, obsVars, NewSyscallTracer, SetTargetNS, TrackPID, Start,
     Spawn, ThreadEnds, SysEnter, EnterSubmit, MaybeEmitFile, SysExit, ExitSubmit, ReadCheck,
     Read, ReadClosed, ReadTransient, Send, FileReadCheck,
     FileRead, FileReadClosed, FileReadTransient, FileSend, CollectFile,
     TimerFires, CollectTimeout, StopSignal, StopClose
<1> QED BY <1>1, <1>2

(* The counts are those of the events recorded.                              *)
LEMMA CountsStep ==
  ASSUME TypeOK, NEW k \in {"enter", "exit"}, OncePerCall(k), CountsRecorded(k), [Next]_vars
  PROVE  CountsRecorded(k)'
<1>1. CASE UNCHANGED <<obs, recorded>>
  BY <1>1 DEF CountsRecorded, CountOf, Recorded, KindOf
<1>2. CASE /\ Pipeline[1] \in Event /\ 1 \in DOMAIN Pipeline
           /\ recorded' = recorded \cup {Pipeline[1]}
           /\ \A n \in Nr : \A x \in {"enter", "exit"} :
                CountOf(n, x)' = IF n = Pipeline[1].nr /\ x = KindOf(Pipeline[1])
                                 THEN CountOf(n, x) + 1 ELSE CountOf(n, x)
  <2> DEFINE e == Pipeline[1]
  <2>1. IsFiniteSet(recorded')
    BY <1>2, FS_AddElement DEF CountsRecorded
  <2>2. ASSUME NEW n \in Nr PROVE CountOf(n, k)' = Cardinality(Recorded(n, k)')
    <3>1. /\ IsFiniteSet(Recorded(n, k)) /\ CountOf(n, k) = Cardinality(Recorded(n, k))
      BY FS_Subset DEF CountsRecorded, Recorded
    <3>2. Recorded(n, k)' = {f \in recorded' : KindOf(f) = k /\ f.nr = n}
      BY DEF Recorded, KindOf
    <3>3. CASE n = e.nr /\ k = KindOf(e)
      <4>1. e \notin recorded
        BY <1>2, <3>3 DEF OncePerCall
      <4>2. Recorded(n, k)' = Recorded(n, k) \cup {e} /\ e \notin Recorded(n, k)
        BY <1>2, <3>2, <3>3, <4>1 DEF Recorded
      <4> HIDE DEF e
      <4>3. Cardinality(Recorded(n, k) \cup {e}) = Cardinality(Recorded(n, k)) + 1
        BY <3>1, <4>2, FS_AddElement
      <4> QED BY <1>2, <3>1, <3>3, <4>2, <4>3 DEF e
    <3>4. CASE ~(n = e.nr /\ k = KindOf(e))
      <4>1. Recorded(n, k)' = Recorded(n, k)
        BY <1>2, <3>2, <3>4 DEF Recorded
      <4> QED BY <1>2, <3>1, <3>4, <4>1
    <3> QED BY <3>3, <3>4
  <2> QED BY <2>1, <2>2 DEF CountsRecorded
<1> QED BY <1>1, <1>2, ObsStep

(* Distinct events recorded under n report distinct calls, so they are no    *)
(* more than the calls they can be of.                                       *)
LEMMA RecordedInjects ==
  ASSUME NEW k, OncePerCall(k), NEW n, NEW C, IsFiniteSet(C),
         \A e \in Recorded(n, k) : e.of \in C
  PROVE  Cardinality(Recorded(n, k)) <= Cardinality(C)
<1> DEFINE f == [e \in Recorded(n, k) |-> e.of]
<1>1. f \in [Recorded(n, k) -> C]
  OBVIOUS
<1>2. \A e, g \in Recorded(n, k) : f[e] = f[g] => e = g
  BY DEF OncePerCall, Recorded
<1>3. f \in Injection(Recorded(n, k), C)
  BY <1>1, <1>2 DEF Injection, IsInjective
<1> HIDE DEF f
<1> QED BY <1>3, FS_Injection
(* Enter events are counted once per call.                                   *)
LEMMA EntersAlways == Spec => [](OncePerCall("enter") /\ CountsRecorded("enter"))
<1> DEFINE I == OncePerCall("enter") /\ CountsRecorded("enter")
<1>1. Init => I
  <2> SUFFICES ASSUME Init PROVE I
    OBVIOUS
  <2>1. OncePerCall("enter")
    BY NothingYet DEF OncePerCall
  <2>2. recorded = {} /\ \A n \in Nr : obs[n].count = 0
    BY DEF Init, ZeroRecord
  <2>3. CountsRecorded("enter")
    BY <2>2, FS_EmptySet DEF CountsRecorded, CountOf, Recorded
  <2> QED BY <2>1, <2>3
<1>2. TypeOK /\ EventsKnown /\ I /\ [Next]_vars => I'
  <2> SUFFICES ASSUME TypeOK, EventsKnown, I, [Next]_vars PROVE I'
    OBVIOUS
  <2>1. ASSUME NEW t \in Tid, EnterSubmit(t) PROVE \A f \in Seen : f.of # call[t]
    BY <2>1 DEF EnterSubmit, EventsKnown
  <2>2. OncePerCall("enter")'
    BY <2>1, DistinctStep
  <2>3. CountsRecorded("enter")'
    BY CountsStep
  <2> QED BY <2>2, <2>3
<1> QED BY <1>1, <1>2, EventsAlways, TypeCorrect, PTL DEF Spec

(* So Count is at most the number of calls of the target.                    *)
LEMMA EnterCountBound ==
  ASSUME TypeOK, CallsKnown, EventsKnown, OncePerCall("enter"), CountsRecorded("enter"),
         NEW n \in Nr
  PROVE  obs[n].count <= Cardinality({c \in issued : c.nr = n /\ c.tid \in Target})
<1> DEFINE C == {c \in issued : c.nr = n /\ c.tid \in Target}
<1>1. IsFiniteSet(C)
  BY FS_Subset DEF CallsKnown
<1>2. \A e \in Recorded(n, "enter") : e.of \in C
  BY DEF Recorded, KindOf, EventsKnown, Seen
<1>3. obs[n].count = Cardinality(Recorded(n, "enter"))
  BY DEF CountsRecorded, CountOf
<1> HIDE DEF C
<1>4. Cardinality(Recorded(n, "enter")) <= Cardinality(C)
  BY <1>1, <1>2, RecordedInjects
<1> QED BY <1>3, <1>4 DEF C
----------------------------------------------------------------------------
(* The way of a file event: the accesses kept, the channel, what             *)
(* fileReadLoop has in hand and the ring are one queue too, to which only    *)
(* maybe_emit_file appends.                                                  *)
FileInHand == IF fileReader = "send" THEN <<fileReaderEvt>> ELSE <<>>
FilePath == ((accesses \o fileEvents) \o FileInHand) \o fileRing
FileEventOf(t) == [nr |-> call[t].nr, of |-> call[t]]

(* The parts of the way are queues of file events.                           *)
LEMMA FilePathType ==
  ASSUME TypeOK
  PROVE  /\ accesses \in Seq(FileEvent) /\ fileEvents \in Seq(FileEvent)
         /\ fileRing \in Seq(FileEvent) /\ FileInHand \in Seq(FileEvent)
         /\ fileReader = "send" => fileReaderEvt \in FileEvent
         /\ accesses \o fileEvents \in Seq(FileEvent)
         /\ (accesses \o fileEvents) \o FileInHand \in Seq(FileEvent)
         /\ FilePath \in Seq(FileEvent) /\ DOMAIN FilePath = 1 .. Len(FilePath)
         /\ Len(FilePath) \in Nat
         /\ \A i \in DOMAIN FilePath : FilePath[i] \in FileEvent
<1>1. /\ accesses \in Seq(FileEvent) /\ fileEvents \in Seq(FileEvent)
      /\ fileRing \in Seq(FileEvent)
      /\ fileReader = "send" => fileReaderEvt \in FileEvent
  BY DEF TypeOK, FilePathOK, ObsTypeOK
<1>2. FileInHand \in Seq(FileEvent)
  BY <1>1 DEF FileInHand
<1>3. /\ accesses \o fileEvents \in Seq(FileEvent)
      /\ (accesses \o fileEvents) \o FileInHand \in Seq(FileEvent)
      /\ FilePath \in Seq(FileEvent)
  BY <1>1, <1>2, ConcatProperties DEF FilePath
<1> QED BY <1>1, <1>2, <1>3

(* The same after a step.                                                    *)
LEMMA FilePathTypeNext ==
  ASSUME TypeOK'
  PROVE  FilePath' \in Seq(FileEvent) /\ DOMAIN FilePath' = 1 .. Len(FilePath')
<1>1. /\ accesses' \in Seq(FileEvent) /\ fileEvents' \in Seq(FileEvent)
      /\ fileRing' \in Seq(FileEvent)
      /\ fileReader' = "send" => fileReaderEvt' \in FileEvent
  BY DEF TypeOK, FilePathOK, ObsTypeOK
<1>2. FileInHand' \in Seq(FileEvent)
  BY <1>1 DEF FileInHand
<1>3. /\ accesses' \o fileEvents' \in Seq(FileEvent)
      /\ (accesses' \o fileEvents') \o FileInHand' \in Seq(FileEvent)
      /\ ((accesses' \o fileEvents') \o FileInHand') \o fileRing' \in Seq(FileEvent)
  BY <1>1, <1>2, ConcatProperties
<1>4. FilePath' = ((accesses' \o fileEvents') \o FileInHand') \o fileRing'
  BY DEF FilePath
<1> QED BY <1>3, <1>4

(* Four parts of a queue may be put together from either side.               *)
FromLeft(a, b, c, d) == ((a \o b) \o c) \o d
FromRight(a, b, c, d) == a \o ((b \o c) \o d)
LEMMA Regrouped ==
  ASSUME NEW S, NEW a \in Seq(S), NEW b \in Seq(S), NEW c \in Seq(S), NEW d \in Seq(S)
  PROVE  FromLeft(a, b, c, d) = FromRight(a, b, c, d)
BY DEF FromLeft, FromRight

(* Collect moves the head of the channel to the accesses or, with these at   *)
(* their limit, drops it.                                                    *)
LEMMA FileCollected ==
  ASSUME TypeOK, CollectFile
  PROVE  Thins(FilePath, FilePath')
<1> DEFINE h == Head(fileEvents)
           rest == (Tail(fileEvents) \o FileInHand) \o fileRing
<1>1. /\ fileEvents # <<>> /\ fileEvents' = Tail(fileEvents)
      /\ accesses' = (IF Len(accesses) < MaxFileAccesses THEN Append(accesses, h) ELSE accesses)
      /\ UNCHANGED <<fileRing, fileReader, fileReaderEvt>>
  BY DEF CollectFile, ringVars, fileVars
<1>2. FilePath' = ((accesses' \o Tail(fileEvents)) \o FileInHand) \o fileRing
  BY <1>1 DEF FilePath, FileInHand
<1>0. /\ accesses \in Seq(FileEvent) /\ FileInHand \in Seq(FileEvent)
      /\ fileRing \in Seq(FileEvent)
  BY FilePathType
<1>3. /\ h \in FileEvent /\ Tail(fileEvents) \in Seq(FileEvent)
      /\ accesses \o <<h>> \in Seq(FileEvent)
      /\ Tail(fileEvents) \o FileInHand \in Seq(FileEvent) /\ rest \in Seq(FileEvent)
  <2>1. h \in FileEvent /\ Tail(fileEvents) \in Seq(FileEvent)
    BY <1>1, FilePathType, HeadTailProperties
  <2> HIDE DEF h
  <2>2. <<h>> \in Seq(FileEvent)
    BY <2>1
  <2> QED BY <2>1, <2>2, FilePathType, ConcatProperties
<1> HIDE DEF h
<1>4. CASE Len(accesses) < MaxFileAccesses
  <2>1. Append(accesses, h) \o Tail(fileEvents) = accesses \o fileEvents
    BY <1>1, FilePathType, MoveHead DEF h
  <2>2. FilePath' = FilePath
    BY <1>1, <1>2, <1>4, <2>1 DEF FilePath
  <2> QED BY <2>2, FilePathType, DropNone
<1>5. CASE ~(Len(accesses) < MaxFileAccesses)
  <2>0. PICK u \in Seq(FileEvent) : u = Tail(fileEvents)
    BY <1>3
  <2>1. accesses \o fileEvents = (accesses \o <<h>>) \o Tail(fileEvents)
    BY <1>1, FilePathType, MoveHead DEF h
  <2>2. FilePath = (accesses \o <<h>>) \o rest
    <3>1. FilePath = (((accesses \o <<h>>) \o Tail(fileEvents)) \o FileInHand) \o fileRing
      BY <2>1 DEF FilePath
    <3>2. PICK a \in Seq(FileEvent) : a = accesses \o <<h>>
      BY <1>3
    <3>3. FromLeft(a, u, FileInHand, fileRing) = FromRight(a, u, FileInHand, fileRing)
      BY <1>0, Regrouped
    <3> QED BY <2>0, <3>1, <3>2, <3>3 DEF FromLeft, FromRight
  <2>3. FilePath' = accesses \o rest
    <3>1. FilePath' = ((accesses \o Tail(fileEvents)) \o FileInHand) \o fileRing
      BY <1>1, <1>2, <1>5
    <3>2. FromLeft(accesses, u, FileInHand, fileRing)
             = FromRight(accesses, u, FileInHand, fileRing)
      BY <1>0, Regrouped
    <3> QED BY <2>0, <3>1, <3>2 DEF FromLeft, FromRight
  <2> HIDE DEF rest
  <2> QED BY <1>3, <2>2, <2>3, FilePathType, DropOne
<1> QED BY <1>4, <1>5

(* Every step leaves something out of the queue or is maybe_emit_file's      *)
(* append.                                                                   *)
LEMMA FilePathSteps ==
  ASSUME TypeOK, [Next]_vars
  PROVE  \/ Thins(FilePath, FilePath')
         \/ \E t \in Tid : MaybeEmitFile(t) /\ FilePath' = Append(FilePath, FileEventOf(t))
<1>1. ASSUME NEW t \in Tid, MaybeEmitFile(t)
      PROVE  Thins(FilePath, FilePath') \/ FilePath' = Append(FilePath, FileEventOf(t))
  <2>1. /\ UNCHANGED <<fileReader, fileReaderEvt, fileEvents, accesses>>
        /\ fileRing' = fileRing \/ fileRing' = Append(fileRing, FileEventOf(t))
    BY <1>1 DEF MaybeEmitFile, FileEventOf, fileVars, obsVars
  <2>2. FileEventOf(t) \in FileEvent
    <3>1. call[t] \in Call /\ call[t].nr \in FileNr
      BY <1>1 DEF MaybeEmitFile, TypeOK, KernelTypeOK, InKernel
    <3> QED BY <3>1 DEF FileEventOf, FileEvent
  <2>3. FilePath' = ((accesses \o fileEvents) \o FileInHand) \o fileRing'
    BY <2>1 DEF FilePath, FileInHand
  <2>4. CASE fileRing' = fileRing
    <3>1. FilePath' = FilePath
      BY <2>3, <2>4 DEF FilePath
    <3> QED BY <3>1, FilePathType, DropNone
  <2>5. CASE fileRing' = Append(fileRing, FileEventOf(t))
    <3>1. FilePath' = Append(((accesses \o fileEvents) \o FileInHand) \o fileRing, FileEventOf(t))
      BY <2>2, <2>3, <2>5, FilePathType, AppendToLast
    <3> QED BY <3>1 DEF FilePath
  <2> QED BY <2>1, <2>4, <2>5
<1>2. ASSUME fileReader # "send", fileReader' # "send",
             UNCHANGED <<fileRing, fileEvents, accesses>>
      PROVE  Thins(FilePath, FilePath')
  <2>1. FilePath' = FilePath
    BY <1>2 DEF FilePath, FileInHand
  <2> QED BY <2>1, FilePathType, DropNone
<1>3. CASE FileReadCheck \/ FileReadClosed \/ FileReadTransient
  BY <1>2, <1>3 DEF FileReadCheck, FileReadClosed, FileReadTransient, ringVars, obsVars
<1>4. CASE Start
  <2>1. fileReader' # "send" /\ UNCHANGED <<fileRing, fileEvents, accesses>>
    BY <1>4 DEF Start, ringVars, obsVars
  <2>2. CASE fileReader # "send"
    BY <1>2, <2>1, <2>2
  <2>3. CASE fileReader = "send"
    <3>1. FileInHand = <<fileReaderEvt>> /\ FileInHand' = <<>> /\ fileReaderEvt \in FileEvent
      BY <2>1, <2>3, FilePathType DEF FileInHand
    <3>2. FilePath' = (accesses \o fileEvents) \o fileRing
      BY <2>1, <3>1, FilePathType, ConcatEmptySeq DEF FilePath
    <3>3. FilePath = ((accesses \o fileEvents) \o <<fileReaderEvt>>) \o fileRing
      BY <3>1 DEF FilePath
    <3> QED BY <3>1, <3>2, <3>3, FilePathType, DropOne
  <2> QED BY <2>2, <2>3
<1>5. CASE FileRead
  <2>1. /\ fileReader # "send" /\ fileReader' = "send" /\ fileRing # <<>>
        /\ fileReaderEvt' = Head(fileRing) /\ fileRing' = Tail(fileRing)
        /\ UNCHANGED <<fileEvents, accesses>>
    BY <1>5 DEF FileRead, obsVars
  <2>2. FilePath' = ((accesses \o fileEvents) \o <<Head(fileRing)>>) \o Tail(fileRing)
    BY <2>1 DEF FilePath, FileInHand
  <2>3. FilePath = ((accesses \o fileEvents) \o <<>>) \o fileRing
    BY <2>1 DEF FilePath, FileInHand
  <2>4. /\ (accesses \o fileEvents) \o <<>> = accesses \o fileEvents
        /\ ((accesses \o fileEvents) \o <<Head(fileRing)>>) \o Tail(fileRing)
             = (accesses \o fileEvents) \o fileRing
    <3> DEFINE a == accesses \o fileEvents
    <3>1. a \in Seq(FileEvent)
      BY FilePathType
    <3> HIDE DEF a
    <3>2. a \o <<>> = a
      BY <3>1, ConcatEmptySeq
    <3>3. (a \o <<Head(fileRing)>>) \o Tail(fileRing) = a \o fileRing
      BY <2>1, <3>1, FilePathType, MoveHead
    <3> QED BY <3>2, <3>3 DEF a
  <2>5. FilePath' = FilePath
    BY <2>2, <2>3, <2>4
  <2> QED BY <2>5, FilePathType, DropNone
<1>6. CASE FileSend
  <2>1. /\ fileReader = "send" /\ fileReader' = "check" /\ UNCHANGED <<fileRing, accesses>>
        /\ fileEvents' = IF HasRoom(fileEvents, ChanSize)
                         THEN Append(fileEvents, fileReaderEvt) ELSE fileEvents
    BY <1>6 DEF FileSend, ringVars, obsVars
  <2>2. FilePath = ((accesses \o fileEvents) \o <<fileReaderEvt>>) \o fileRing
        /\ fileReaderEvt \in FileEvent
    BY <2>1, FilePathType DEF FilePath, FileInHand
  <2>3. FilePath' = ((accesses \o fileEvents') \o <<>>) \o fileRing
    BY <2>1 DEF FilePath, FileInHand
  <2>4. CASE HasRoom(fileEvents, ChanSize)
    <3>1. accesses \o fileEvents' = (accesses \o fileEvents) \o <<fileReaderEvt>>
      <4>1. accesses \o fileEvents' = Append(accesses \o fileEvents, fileReaderEvt)
        BY <2>1, <2>2, <2>4, FilePathType, AppendToLast
      <4> QED BY <2>2, <4>1, FilePathType, AppendIsConcat
    <3>2. (accesses \o fileEvents) \o <<fileReaderEvt>> \in Seq(FileEvent)
      BY <2>2, FilePathType, ConcatProperties
    <3>3. FilePath' = FilePath
      BY <2>2, <2>3, <3>1, <3>2, ConcatEmptySeq
    <3> QED BY <3>3, FilePathType, DropNone
  <2>5. CASE ~HasRoom(fileEvents, ChanSize)
    <3>1. FilePath' = (accesses \o fileEvents) \o fileRing
      BY <2>1, <2>3, <2>5, FilePathType, ConcatEmptySeq
    <3> QED BY <2>2, <3>1, FilePathType, DropOne
  <2> QED BY <2>4, <2>5
<1>7. CASE UNCHANGED <<fileRing, fileReader, fileReaderEvt, fileEvents, accesses>>
  <2>1. FilePath' = FilePath
    BY <1>7 DEF FilePath, FileInHand
  <2> QED BY <2>1, FilePathType, DropNone
<1>8. \/ UNCHANGED <<fileRing, fileReader, fileReaderEvt, fileEvents, accesses>>
      \/ \E t \in Tid : MaybeEmitFile(t)
      \/ FileReadCheck \/ FileReadClosed \/ FileReadTransient \/ Start
      \/ FileRead \/ FileSend \/ CollectFile
  BY DEF Next, vars, ringVars, fileVars, obsVars, NewSyscallTracer, SetTargetNS, TrackPID,
         Spawn, ThreadEnds, SysEnter, EnterSubmit, SysExit, ExitSubmit, ReadCheck, Read,
         ReadClosed, ReadTransient, Send, CollectEvent,
         TimerFires, CollectTimeout, StopSignal, StopClose
<1> QED BY <1>1, <1>3, <1>4, <1>5, <1>6, <1>7, <1>8, FileCollected
(* A file event on its way reports a call of the target that was issued,     *)
(* under its own number and once, and none precedes maybe_emit_file.         *)
FilesKnown ==
  /\ \A i \in DOMAIN FilePath : /\ FilePath[i].of \in issued
                                /\ FilePath[i].nr = FilePath[i].of.nr
                                /\ FilePath[i].of.tid \in Target
  /\ \A i, j \in DOMAIN FilePath : FilePath[i].of = FilePath[j].of => i = j
  /\ \A t \in Tid : thread[t] \in {"enter", "file"} =>
       \A i \in DOMAIN FilePath : FilePath[i].of # call[t]

(* A thread in trace_sys_enter was there before, in the same call, or has    *)
(* just made one with a new id.                                              *)
LEMMA EnterPartsStep ==
  ASSUME TypeOK, [Next]_vars, NEW u \in Tid, thread'[u] \in {"enter", "file"}
  PROVE  \/ thread[u] \in {"enter", "file"} /\ call'[u] = call[u] /\ ~MaybeEmitFile(u)
         \/ call'[u].id = nextCall + 1
<1>0. thread \in [Tid -> Threads] /\ call \in [Tid -> Call \cup {NoCall}]
  BY DEF TypeOK, KernelTypeOK
<1>1. ~MaybeEmitFile(u)
  BY <1>0 DEF MaybeEmitFile
<1>2. ASSUME NEW t \in Tid, NEW nr \in Nr, SysEnter(t, nr)
      PROVE  \/ thread[u] \in {"enter", "file"} /\ call'[u] = call[u]
             \/ call'[u].id = nextCall + 1
  <2>1. /\ \E c : c.id = nextCall + 1 /\ call' = [call EXCEPT ![t] = c]
        /\ \E x \in {"enter", "kernel"} : thread' = [thread EXCEPT ![t] = x]
    BY <1>2 DEF SysEnter
  <2> QED BY <1>0, <2>1
<1>3. ASSUME NEW t \in Tid, EnterSubmit(t)
      PROVE  thread[u] \in {"enter", "file"} /\ call'[u] = call[u]
  <2>1. /\ thread[t] = "enter" /\ call' = call
        /\ \E x \in {"file", "kernel"} : thread' = [thread EXCEPT ![t] = x]
    BY <1>3 DEF EnterSubmit
  <2> QED BY <1>0, <2>1
<1>4. ASSUME NEW t \in Tid, \/ Spawn(t) \/ ThreadEnds(t) \/ MaybeEmitFile(t) \/ SysExit(t)
                           \/ \E ret \in Rets : ExitSubmit(t, ret)
      PROVE  thread[u] \in {"enter", "file"} /\ call'[u] = call[u]
  <2>1. /\ \E x \in {"newborn", "none", "kernel", "exit", "user"} :
             thread' = [thread EXCEPT ![t] = x]
        /\ call' = call \/ call' = [call EXCEPT ![t] = NoCall]
    BY <1>4 DEF Spawn, ThreadEnds, MaybeEmitFile, SysExit, ExitSubmit
  <2> QED BY <1>0, <2>1
<1>5. CASE UNCHANGED kernelVars
  BY <1>1, <1>5 DEF kernelVars
<1>6. \/ \E r \in Resources : NewSyscallTracer(r) \/ StopClose(r)
      \/ SetTargetNS \/ TrackPID \/ Start \/ TimerFires \/ CollectTimeout
      \/ StopSignal \/ GoSide \/ UNCHANGED vars
      => UNCHANGED kernelVars
  BY GoSideFrame DEF NewSyscallTracer, StopClose, SetTargetNS, TrackPID, Start, TimerFires,
     CollectTimeout, StopSignal, vars
<1> QED BY <1>1, <1>2, <1>3, <1>4, <1>5, <1>6, StepCases

(* FilesKnown is preserved.                                                  *)
LEMMA FilesKnownStep ==
  ASSUME TypeOK, CallsKnown, FilesKnown, [Next]_vars
  PROVE  FilesKnown'
<1>0. /\ thread \in [Tid -> Threads] /\ call \in [Tid -> Call \cup {NoCall}]
      /\ nextCall \in Nat /\ issued \in SUBSET Call /\ issued \subseteq issued'
      /\ NoCall \notin Call
  BY CallsStep, Distinct DEF TypeOK, KernelTypeOK
<1>1. ASSUME NEW t \in Tid, MaybeEmitFile(t)
      PROVE  /\ FileEventOf(t).of = call[t] /\ FileEventOf(t).nr = call[t].nr
             /\ FileEventOf(t) \in FileEvent
             /\ call[t] \in issued /\ call[t].tid = t /\ t \in Target
             /\ thread[t] = "file"
  <2>1. thread[t] = "file" /\ call[t] \in Call /\ call[t].nr \in FileNr
    BY <1>1 DEF MaybeEmitFile, TypeOK, KernelTypeOK, InKernel
  <2>2. call[t] \in issued /\ call[t].tid = t /\ t \in Target
    BY <1>0, <2>1 DEF CallsKnown
  <2> QED BY <2>1, <2>2 DEF FileEventOf, FileEvent
<1>2. DOMAIN FilePath \subseteq Nat /\ DOMAIN FilePath' \subseteq Nat
  <2>1. TypeOK'
    BY TypeStep
  <2>2. DOMAIN FilePath' = 1 .. Len(FilePath') /\ FilePath' \in Seq(FileEvent)
    BY <2>1, FilePathTypeNext
  <2> QED BY <2>2, FilePathType
<1>3. ASSUME NEW t \in Tid, MaybeEmitFile(t), FilePath' = Append(FilePath, FileEventOf(t))
      PROVE  /\ DOMAIN FilePath' = DOMAIN FilePath \cup {Len(FilePath) + 1}
             /\ \A i \in DOMAIN FilePath : FilePath'[i] = FilePath[i]
             /\ FilePath'[Len(FilePath) + 1] = FileEventOf(t)
  <2>1. PICK e \in FileEvent : e = FileEventOf(t)
    BY <1>1, <1>3
  <2>2. /\ DOMAIN FilePath = 1 .. Len(FilePath) /\ Len(FilePath) \in Nat
        /\ DOMAIN FilePath' = 1 .. Len(FilePath) + 1
        /\ \A i \in 1 .. Len(FilePath) : FilePath'[i] = FilePath[i]
        /\ FilePath'[Len(FilePath) + 1] = e
    BY <1>3, <2>1, FilePathType, AppendProperties
  <2> QED BY <2>1, <2>2
<1>4. ASSUME NEW i \in DOMAIN FilePath'
      PROVE  \/ \E j \in DOMAIN FilePath : FilePath'[i] = FilePath[j]
             \/ \E t \in Tid : MaybeEmitFile(t) /\ FilePath'[i] = FileEventOf(t)
  <2>1. CASE Thins(FilePath, FilePath')
    BY <2>1 DEF Thins
  <2>2. ASSUME NEW t \in Tid, MaybeEmitFile(t), FilePath' = Append(FilePath, FileEventOf(t))
        PROVE  (\E j \in DOMAIN FilePath : FilePath'[i] = FilePath[j])
                 \/ FilePath'[i] = FileEventOf(t)
    BY <1>3, <2>2
  <2> QED BY <2>1, <2>2, FilePathSteps
<1>5. ASSUME NEW i \in DOMAIN FilePath'
      PROVE  /\ FilePath'[i].of \in issued
             /\ FilePath'[i].nr = FilePath'[i].of.nr
             /\ FilePath'[i].of.tid \in Target
  BY <1>1, <1>4 DEF FilesKnown
<1>6. ASSUME NEW i \in DOMAIN FilePath', NEW j \in DOMAIN FilePath',
             FilePath'[i].of = FilePath'[j].of
      PROVE  i = j
  <2>1. CASE Thins(FilePath, FilePath')
    <3>1. PICK g \in [DOMAIN FilePath' -> DOMAIN FilePath] :
            /\ \A a, b \in DOMAIN FilePath' : a < b => g[a] < g[b]
            /\ \A a \in DOMAIN FilePath' : FilePath'[a] = FilePath[g[a]]
      BY <2>1 DEF Thins
    <3>2. g[i] = g[j]
      BY <1>6, <3>1 DEF FilesKnown
    <3>3. ~(i < j) /\ ~(j < i)
      BY <1>2, <3>1, <3>2
    <3> QED BY <1>2, <3>3
  <2>2. ASSUME NEW t \in Tid, MaybeEmitFile(t), FilePath' = Append(FilePath, FileEventOf(t))
        PROVE  i = j
    <3>1. \A a \in DOMAIN FilePath : FilePath[a].of # call[t]
      BY <1>1, <2>2 DEF FilesKnown
    <3> QED BY <1>1, <1>3, <1>6, <2>2, <3>1 DEF FilesKnown
  <2> QED BY <2>1, <2>2, FilePathSteps
<1>7. ASSUME NEW u \in Tid, thread'[u] \in {"enter", "file"}, NEW i \in DOMAIN FilePath'
      PROVE  FilePath'[i].of # call'[u]
  <2>1. CASE thread[u] \in {"enter", "file"} /\ call'[u] = call[u] /\ ~MaybeEmitFile(u)
    <3>1. call[u] \in issued /\ call[u].tid = u
      <4>1. call[u] \in Call
        BY <2>1 DEF TypeOK, KernelTypeOK, InKernel
      <4> QED BY <1>0, <4>1 DEF CallsKnown
    <3>2. ASSUME NEW t \in Tid, MaybeEmitFile(t), FilePath'[i] = FileEventOf(t)
          PROVE  FilePath'[i].of # call[u]
      BY <1>1, <2>1, <3>1, <3>2
    <3> QED BY <1>4, <2>1, <3>2 DEF FilesKnown
  <2>2. CASE call'[u].id = nextCall + 1
    <3>1. FilePath'[i].of.id \in Nat /\ FilePath'[i].of.id <= nextCall
      BY <1>0, <1>5 DEF CallsKnown, Call
    <3> QED BY <1>0, <2>2, <3>1
  <2> QED BY <1>7, <2>1, <2>2, EnterPartsStep
<1> QED BY <1>0, <1>5, <1>6, <1>7 DEF FilesKnown

(* FilesKnown holds in every state.                                          *)
LEMMA FilesAlways == Spec => []FilesKnown
<1>1. Init => FilesKnown
  <2> SUFFICES ASSUME Init PROVE FilesKnown
    OBVIOUS
  <2>1. /\ FilePath = <<>> \o <<>> \o <<>> \o <<>>
        /\ \A t \in Tid : thread[t] \notin {"enter", "file"}
    BY DEF Init, FilePath, FileInHand
  <2>2. DOMAIN FilePath = {}
    BY <2>1, ConcatEmptySeq, EmptySeq
  <2> QED BY <2>1, <2>2 DEF FilesKnown
<1>2. TypeOK /\ CallsKnown /\ FilesKnown /\ [Next]_vars => FilesKnown'
  BY FilesKnownStep
<1> QED BY <1>1, <1>2, EventsAlways, TypeCorrect, PTL DEF Spec

(* What Collect kept is the front of the queue.                              *)
LEMMA AccessesFirst ==
  ASSUME TypeOK
  PROVE  /\ DOMAIN accesses = 1 .. Len(accesses) /\ Len(accesses) \in Nat
         /\ DOMAIN accesses \subseteq DOMAIN FilePath
         /\ \A i \in DOMAIN accesses : FilePath[i] = accesses[i]
<1> DEFINE ab == accesses \o fileEvents
           abc == ab \o FileInHand
<1>1. /\ accesses \in Seq(FileEvent) /\ fileEvents \in Seq(FileEvent)
      /\ FileInHand \in Seq(FileEvent) /\ fileRing \in Seq(FileEvent)
      /\ ab \in Seq(FileEvent) /\ abc \in Seq(FileEvent) /\ FilePath = abc \o fileRing
  BY FilePathType DEF FilePath
<1>2. /\ Len(ab) = Len(accesses) + Len(fileEvents)
      /\ \A i \in 1 .. Len(accesses) : ab[i] = accesses[i]
  BY <1>1, ConcatProperties
<1> HIDE DEF ab
<1>3. /\ Len(abc) = Len(ab) + Len(FileInHand)
      /\ \A i \in 1 .. Len(ab) : abc[i] = ab[i]
  BY <1>1, ConcatProperties
<1> HIDE DEF abc
<1>4. /\ FilePath \in Seq(FileEvent) /\ Len(FilePath) = Len(abc) + Len(fileRing)
      /\ \A i \in 1 .. Len(abc) : FilePath[i] = abc[i]
  BY <1>1, ConcatProperties
<1>5. /\ Len(accesses) \in Nat /\ Len(fileEvents) \in Nat /\ Len(FileInHand) \in Nat
      /\ Len(fileRing) \in Nat /\ DOMAIN accesses = 1 .. Len(accesses)
      /\ DOMAIN FilePath = 1 .. Len(FilePath)
  BY <1>1, <1>4
<1> QED BY <1>2, <1>3, <1>4, <1>5

(* So the accesses kept, of one number or of all, are at most the calls.     *)
LEMMA AccessesBound ==
  ASSUME TypeOK, CallsKnown, FilesKnown, NEW N,
         NEW C, C = {c \in issued : c.nr \in N /\ c.tid \in Target}
  PROVE  /\ IsFiniteSet({i \in DOMAIN accesses : accesses[i].nr \in N})
         /\ Cardinality({i \in DOMAIN accesses : accesses[i].nr \in N}) <= Cardinality(C)
<1> DEFINE A == {i \in DOMAIN accesses : accesses[i].nr \in N}
           f == [i \in A |-> accesses[i].of]
<1>1. IsFiniteSet(C)
  BY FS_Subset DEF CallsKnown
<1>2. f \in [A -> C] /\ \A i, j \in A : f[i] = f[j] => i = j
  BY AccessesFirst DEF FilesKnown
<1>3. f \in Injection(A, C)
  BY <1>2 DEF Injection, IsInjective
<1>4. IsFiniteSet(A)
  <2>1. IsFiniteSet(1 .. Len(accesses))
    BY AccessesFirst, FS_Interval
  <2>2. A \subseteq 1 .. Len(accesses)
    BY AccessesFirst
  <2> QED BY <2>1, <2>2, FS_Subset
<1> HIDE DEF f, A
<1>5. Cardinality(A) <= Cardinality(C)
  BY <1>1, <1>3, FS_Injection
<1> QED BY <1>4, <1>5 DEF A

(* Whatever is dropped, and however probes, loops and Collect interleave,    *)
(* Count is at most the calls the target made and the file accesses at most  *)
(* its file calls.                                                           *)
THEOREM CountsCorrect == Spec => []CountsAreSound
<1>1. TypeOK /\ CallsKnown /\ EventsKnown /\ OncePerCall("enter")
        /\ CountsRecorded("enter") /\ FilesKnown => CountsAreSound
  <2> SUFFICES ASSUME TypeOK, CallsKnown, EventsKnown, OncePerCall("enter"),
                      CountsRecorded("enter"), FilesKnown
               PROVE  CountsAreSound
    OBVIOUS
  <2>1. \A n \in Nr : obs[n].count <= Cardinality({c \in issued : c.nr = n /\ c.tid \in Target})
    BY EnterCountBound
  <2>2. Len(accesses) <= Cardinality({c \in issued : c.nr \in FileNr /\ c.tid \in Target})
    <3>1. accesses \in Seq(FileEvent) /\ Len(accesses) \in Nat
          /\ DOMAIN accesses = 1 .. Len(accesses)
      BY FilePathType
    <3>2. {i \in DOMAIN accesses : accesses[i].nr \in FileNr} = 1 .. Len(accesses)
      <4>1. \A i \in DOMAIN accesses : accesses[i] \in FileEvent
        BY <3>1
      <4> QED BY <3>1, <4>1 DEF FileEvent
    <3>3. Cardinality(1 .. Len(accesses)) = Len(accesses)
      BY <3>1, FS_Interval
    <3> QED BY <3>2, <3>3, AccessesBound
  <2> QED BY <2>1, <2>2 DEF CountsAreSound
<1> QED BY <1>1, EventsAlways, EntersAlways, FilesAlways, TypeCorrect, PTL
----------------------------------------------------------------------------
(* Exits.  Without reuse of thread ids an exit event is of a call that came  *)
(* back and there is one per call, so ExitCount counts completed calls.      *)

(* An exit event is of a finished call, under its number; a thread in        *)
(* trace_sys_exit has not yet submitted the one of its call, and a thread on *)
(* the way there is in a call that is not finished.                          *)
ExitsKnown ==
  /\ finished \subseteq issued
  /\ \A e \in Seen : e.exit => e.of \in finished /\ e.nr = e.of.nr
  /\ \A t \in Tid : thread[t] = "exit" =>
       call[t] \in finished /\ \A e \in Seen : e.exit => e.of # call[t]
  /\ \A t \in Tid : thread[t] \in {"enter", "file", "kernel"} => call[t] \notin finished

(* How a thread came to be where it is, and what a step finishes.            *)
LEMMA ExitPartsStep ==
  ASSUME TypeOK, EntriesFresh, [Next]_vars
  PROVE  /\ \A u \in Tid : thread'[u] = "exit" =>
              \/ /\ thread[u] = "exit" /\ call'[u] = call[u]
                 /\ \A ret \in Rets : ~ExitSubmit(u, ret)
              \/ /\ thread[u] = "kernel" /\ call'[u] = call[u]
                 /\ finished' = finished \cup {call[u]}
         /\ \A u \in Tid : thread'[u] \in {"enter", "file", "kernel"} =>
              \/ /\ thread[u] \in {"enter", "file", "kernel"} /\ call'[u] = call[u]
                 /\ ~SysExit(u)
              \/ call'[u].id = nextCall + 1
         /\ \/ finished' = finished
            \/ \E t \in Tid : /\ SysExit(t) /\ thread[t] = "kernel"
                              /\ finished' = finished \cup {call[t]}
<1>0. thread \in [Tid -> Threads] /\ call \in [Tid -> Call \cup {NoCall}]
  BY DEF TypeOK, KernelTypeOK
<1> DEFINE Exiting(u) == thread'[u] = "exit" =>
              \/ thread[u] = "exit" /\ call'[u] = call[u]
              \/ /\ thread[u] = "kernel" /\ call'[u] = call[u]
                 /\ finished' = finished \cup {call[u]}
           Within(u) == thread'[u] \in {"enter", "file", "kernel"} =>
              \/ thread[u] \in {"enter", "file", "kernel"} /\ call'[u] = call[u]
              \/ call'[u].id = nextCall + 1
<1>1. ASSUME NEW t \in Tid, NEW nr \in Nr, SysEnter(t, nr)
      PROVE  finished' = finished /\ \A u \in Tid : Exiting(u) /\ Within(u)
  <2>1. /\ \E c : c.id = nextCall + 1 /\ call' = [call EXCEPT ![t] = c]
        /\ \E x \in {"enter", "kernel"} : thread' = [thread EXCEPT ![t] = x]
        /\ finished' = finished
    BY <1>1 DEF SysEnter
  <2> QED BY <1>0, <2>1
<1>2. ASSUME NEW t \in Tid, SysExit(t)
      PROVE  /\ \A u \in Tid : Exiting(u) /\ Within(u)
             /\ \/ finished' = finished
                \/ thread[t] = "kernel" /\ finished' = finished \cup {call[t]}
  <2>1. /\ \/ thread[t] = "kernel" /\ finished' = finished \cup {call[t]}
           \/ thread[t] = "newborn" /\ finished' = finished
        /\ \/ /\ thread' = [thread EXCEPT ![t] = "exit"] /\ call' = call
              /\ "exitLink" \in held /\ active[t] # NoActive
           \/ /\ thread' = [thread EXCEPT ![t] = "user"]
              /\ call' = [call EXCEPT ![t] = NoCall]
    BY <1>2 DEF SysExit, Gtid
  <2>2. "exitLink" \in held /\ active[t] # NoActive => thread[t] # "newborn"
    BY DEF EntriesFresh, InKernel
  <2> QED BY <1>0, <2>1, <2>2
<1>3. ASSUME NEW t \in Tid, EnterSubmit(t) \/ MaybeEmitFile(t)
      PROVE  finished' = finished /\ \A u \in Tid : Exiting(u) /\ Within(u)
  <2>1. /\ thread[t] \in {"enter", "file"} /\ call' = call /\ finished' = finished
        /\ \E x \in {"file", "kernel"} : thread' = [thread EXCEPT ![t] = x]
    BY <1>3 DEF EnterSubmit, MaybeEmitFile
  <2> QED BY <1>0, <2>1
<1>4. ASSUME NEW t \in Tid, \/ Spawn(t) \/ ThreadEnds(t)
                           \/ \E ret \in Rets : ExitSubmit(t, ret)
      PROVE  finished' = finished /\ \A u \in Tid : Exiting(u) /\ Within(u)
  <2>1. /\ \E x \in {"newborn", "none", "user"} : thread' = [thread EXCEPT ![t] = x]
        /\ call' = call \/ call' = [call EXCEPT ![t] = NoCall]
        /\ finished' = finished
    BY <1>4 DEF Spawn, ThreadEnds, ExitSubmit
  <2> QED BY <1>0, <2>1
<1>5. \/ \E r \in Resources : NewSyscallTracer(r) \/ StopClose(r)
      \/ SetTargetNS \/ TrackPID \/ Start \/ TimerFires \/ CollectTimeout
      \/ StopSignal \/ GoSide \/ UNCHANGED vars
      => UNCHANGED kernelVars
  BY GoSideFrame DEF NewSyscallTracer, StopClose, SetTargetNS, TrackPID, Start, TimerFires,
     CollectTimeout, StopSignal, vars
<1>6. /\ \A u \in Tid : Exiting(u) /\ Within(u)
      /\ \/ finished' = finished
         \/ \E t \in Tid : /\ SysExit(t) /\ thread[t] = "kernel"
                           /\ finished' = finished \cup {call[t]}
  <2>1. CASE UNCHANGED kernelVars
    BY <2>1 DEF kernelVars
  <2> HIDE DEF Exiting, Within
  <2> QED BY <1>1, <1>2, <1>3, <1>4, <1>5, <2>1, StepCases
<1>7. ASSUME NEW u \in Tid, NEW ret \in Rets, ExitSubmit(u, ret)
      PROVE  thread'[u] = "user"
  BY <1>0, <1>7 DEF ExitSubmit
<1>8. ASSUME NEW u \in Tid, SysExit(u) PROVE thread'[u] \in {"exit", "user"}
  BY <1>0, <1>8 DEF SysExit
<1> QED BY <1>6, <1>7, <1>8

(* ExitsKnown is preserved.                                                  *)
LEMMA ExitsKnownStep ==
  ASSUME TypeOK, CallsKnown, EntriesFresh, ExitsKnown, [Next]_vars
  PROVE  ExitsKnown'
<1>0. /\ thread \in [Tid -> Threads] /\ call \in [Tid -> Call \cup {NoCall}]
      /\ nextCall \in Nat /\ issued \in SUBSET Call /\ issued \subseteq issued'
      /\ NoCall \notin Call
  BY CallsStep, Distinct DEF TypeOK, KernelTypeOK
<1>1. \A u \in Tid : thread[u] \in {"enter", "file", "kernel", "exit"} =>
        call[u] \in issued /\ call[u].tid = u
  BY <1>0 DEF TypeOK, KernelTypeOK, InKernel, CallsKnown, ExitsKnown
<1>2. \/ finished' = finished
      \/ \E t \in Tid : /\ SysExit(t) /\ thread[t] = "kernel"
                        /\ finished' = finished \cup {call[t]}
  BY ExitPartsStep
<1>3. finished \subseteq finished' /\ finished' \subseteq issued'
  BY <1>0, <1>1, <1>2 DEF ExitsKnown
<1>4. ASSUME NEW t \in Tid, NEW ret \in Rets, ExitSubmit(t, ret)
      PROVE  /\ thread[t] = "exit" /\ call[t] \in finished
             /\ ExitEvent(t, ret).of = call[t] /\ ExitEvent(t, ret).nr = call[t].nr
  <2>1. thread[t] = "exit" /\ OwnEntry(t)
    BY <1>4 DEF ExitSubmit, EntriesFresh
  <2> QED BY <2>1 DEF ExitEvent, OwnEntry, ExitsKnown
<1>5. \A t \in Tid : ~EnterEvent(t).exit
  BY DEF EnterEvent
<1>6. ASSUME NEW e \in Seen', e.exit
      PROVE  \/ e \in Seen
             \/ \E t \in Tid, ret \in Rets : ExitSubmit(t, ret) /\ e = ExitEvent(t, ret)
  BY <1>5, <1>6, SeenStep
<1>7. ASSUME NEW e \in Seen', e.exit PROVE e.of \in finished' /\ e.nr = e.of.nr
  BY <1>3, <1>4, <1>6, <1>7 DEF ExitsKnown
<1>8. ASSUME NEW u \in Tid, thread'[u] = "exit"
      PROVE  call'[u] \in finished' /\ \A e \in Seen' : e.exit => e.of # call'[u]
  <2>1. \/ /\ thread[u] = "exit" /\ call'[u] = call[u]
           /\ \A ret \in Rets : ~ExitSubmit(u, ret)
        \/ /\ thread[u] = "kernel" /\ call'[u] = call[u]
           /\ finished' = finished \cup {call[u]}
    BY <1>8, ExitPartsStep
  <2>2. call'[u] \in finished' /\ call[u] \in issued /\ call[u].tid = u /\ call'[u] = call[u]
    BY <1>1, <1>3, <2>1 DEF ExitsKnown
  <2>3. ASSUME NEW e \in Seen, e.exit PROVE e.of # call[u]
    BY <2>1, <2>3 DEF ExitsKnown
  <2>4. ASSUME NEW t \in Tid, NEW ret \in Rets, ExitSubmit(t, ret)
        PROVE  ExitEvent(t, ret).of # call[u]
    <3>1. t # u
      BY <1>4, <2>1, <2>4
    <3> QED BY <1>1, <1>4, <2>2, <2>4, <3>1
  <2> QED BY <1>6, <2>2, <2>3, <2>4
<1>9. ASSUME NEW u \in Tid, thread'[u] \in {"enter", "file", "kernel"}
      PROVE  call'[u] \notin finished'
  <2>1. CASE /\ thread[u] \in {"enter", "file", "kernel"} /\ call'[u] = call[u]
             /\ ~SysExit(u)
    <3>1. ASSUME NEW t \in Tid, SysExit(t), thread[t] = "kernel" PROVE call[u] # call[t]
      BY <1>1, <2>1, <3>1
    <3> QED BY <1>2, <2>1, <3>1 DEF ExitsKnown
  <2>2. CASE call'[u].id = nextCall + 1
    <3>1. \A c \in finished' : c.id \in Nat /\ c.id <= nextCall
      BY <1>0, <1>1, <1>2 DEF CallsKnown, ExitsKnown, Call
    <3> QED BY <1>0, <2>2, <3>1
  <2> QED BY <1>9, <2>1, <2>2, ExitPartsStep
<1> QED BY <1>3, <1>7, <1>8, <1>9 DEF ExitsKnown

(* Without reuse of thread ids ExitCount under a number is at most the calls *)
(* of that number that came back.                                            *)
THEOREM ExitCountCorrect ==
  ASSUME ~TidReuse
  PROVE  Spec => []ExitCountIsCompletions
<1> DEFINE I == ExitsKnown /\ OncePerCall("exit") /\ CountsRecorded("exit")
<1>1. Init => I
  <2> SUFFICES ASSUME Init PROVE I
    OBVIOUS
  <2>1. OncePerCall("exit")
    BY NothingYet DEF OncePerCall
  <2>2. /\ recorded = {} /\ finished = {} /\ \A n \in Nr : obs[n].exitCount = 0
        /\ \A t \in Tid : thread[t] \in {"none", "user"}
    BY DEF Init, ZeroRecord
  <2>3. CountsRecorded("exit")
    BY <2>2, FS_EmptySet DEF CountsRecorded, CountOf, Recorded
  <2>4. ExitsKnown
    BY <2>2, NothingYet DEF ExitsKnown, Seen
  <2> QED BY <2>1, <2>3, <2>4
<1>2. TypeOK /\ CallsKnown /\ EntriesFresh /\ I /\ [Next]_vars => I'
  <2> SUFFICES ASSUME TypeOK, CallsKnown, EntriesFresh, I, [Next]_vars PROVE I'
    OBVIOUS
  <2>1. ASSUME NEW t \in Tid, NEW ret \in Rets, ExitSubmit(t, ret)
        PROVE  \A f \in Seen : KindOf(f) = "exit" => f.of # call[t]
    BY <2>1 DEF ExitSubmit, ExitsKnown, KindOf
  <2>2. OncePerCall("exit")'
    BY <2>1, DistinctStep
  <2>3. CountsRecorded("exit")'
    BY CountsStep
  <2>4. ExitsKnown'
    BY ExitsKnownStep
  <2> QED BY <2>2, <2>3, <2>4
<1>3. CallsKnown /\ I => ExitCountIsCompletions
  <2> SUFFICES ASSUME CallsKnown, I, NEW n \in Nr
               PROVE  obs[n].exitCount <= Cardinality({c \in finished : c.nr = n})
    BY DEF ExitCountIsCompletions
  <2> DEFINE C == {c \in finished : c.nr = n}
  <2>1. IsFiniteSet(C)
    BY FS_Subset DEF CallsKnown, ExitsKnown
  <2>2. \A e \in Recorded(n, "exit") : e.of \in C
    BY DEF Recorded, KindOf, ExitsKnown, Seen
  <2>3. obs[n].exitCount = Cardinality(Recorded(n, "exit"))
    BY DEF CountsRecorded, CountOf
  <2> HIDE DEF C
  <2>4. Cardinality(Recorded(n, "exit")) <= Cardinality(C)
    BY <2>1, <2>2, RecordedInjects
  <2> QED BY <2>3, <2>4 DEF C
<1>4. Spec => [](TrackedOnly /\ EntriesFresh /\ EventsPaired)
  BY PairingAlways
<1> HIDE DEF I
<1> QED BY <1>1, <1>2, <1>3, <1>4, EventsAlways, TypeCorrect, PTL DEF Spec
----------------------------------------------------------------------------
(* The sensor implements Observer, the fairness of Return aside: the initial *)
(* state is Observer's and every step is a Make, a Count, a Return or none.  *)

(* What Observer's variables are here.                                       *)
Made(k) == Cardinality({c \in issued : c.nr = k[2] /\ c.tid \in Target
                                       /\ (k[1] = "file" => c.nr \in FileNr)})
Kept(k) == IF k[1] = "call" THEN obs[k[2]].count
           ELSE Cardinality({i \in DOMAIN accesses : accesses[i].nr = k[2]})
Running == main \notin {"failed", "done"}

(* A kind is a pair of a sort and a number.                                  *)
LEMMA KindParts ==
  ASSUME NEW k \in Counted
  PROVE  k = <<k[1], k[2]>> /\ k[1] \in {"call", "file"} /\ k[2] \in Nr
BY DEF Counted

(* None is counted more often than it was made.                              *)
NoneTooMany == \A k \in Counted : /\ Made(k) \in Nat /\ Kept(k) \in Nat
                                  /\ Kept(k) <= Made(k)

(* It follows from the bounds on both counts.                                *)
LEMMA NoneTooManyAlways == Spec => []NoneTooMany
<1>1. TypeOK /\ CallsKnown /\ EventsKnown /\ OncePerCall("enter")
        /\ CountsRecorded("enter") /\ FilesKnown => NoneTooMany
  <2> SUFFICES ASSUME TypeOK, CallsKnown, EventsKnown, OncePerCall("enter"),
                      CountsRecorded("enter"), FilesKnown, NEW k \in Counted
               PROVE  Made(k) \in Nat /\ Kept(k) \in Nat /\ Kept(k) <= Made(k)
    BY DEF NoneTooMany
  <2> DEFINE C == {c \in issued : c.nr = k[2] /\ c.tid \in Target
                                  /\ (k[1] = "file" => c.nr \in FileNr)}
  <2>1. Made(k) \in Nat
    <3>1. IsFiniteSet(C)
      BY FS_Subset DEF CallsKnown
    <3> QED BY <3>1, FS_CardinalityType DEF Made
  <2>2. CASE k[1] = "call"
    <3>1. C = {c \in issued : c.nr = k[2] /\ c.tid \in Target}
      BY <2>2
    <3>2. obs[k[2]].count <= Cardinality({c \in issued : c.nr = k[2] /\ c.tid \in Target})
      BY KindParts, EnterCountBound
    <3>3. obs[k[2]].count \in Nat
      BY KindParts DEF TypeOK, ObsTypeOK, SyscallRecord
    <3> QED BY <2>1, <2>2, <3>1, <3>2, <3>3 DEF Kept, Made
  <2>3. CASE k[1] = "file"
    <3> DEFINE N == {k[2]} \cap FileNr
               A == {i \in DOMAIN accesses : accesses[i].nr \in N}
    <3>1. C = {c \in issued : c.nr \in N /\ c.tid \in Target}
      BY <2>3
    <3>2. A = {i \in DOMAIN accesses : accesses[i].nr = k[2]}
      <4>1. \A i \in DOMAIN accesses : accesses[i] \in FileEvent
        BY FilePathType
      <4> QED BY <4>1 DEF FileEvent
    <3> HIDE DEF N, C
    <3>3. IsFiniteSet(A) /\ Cardinality(A) <= Cardinality(C)
      BY <3>1, AccessesBound
    <3>4. Kept(k) = Cardinality(A)
      BY <2>3, <3>2 DEF Kept
    <3> HIDE DEF A
    <3>5. Kept(k) \in Nat
      BY <3>3, <3>4, FS_CardinalityType
    <3> QED BY <2>1, <3>3, <3>4, <3>5 DEF Made, C
  <2> QED BY <2>2, <2>3, KindParts
<1> QED BY <1>1, EventsAlways, EntersAlways, FilesAlways, TypeCorrect, PTL

(* A call made by the target is one more of its kinds.                       *)
LEMMA MakeStep ==
  ASSUME TypeOK, CallsKnown, NoneTooMany, NEW t \in Tid, NEW nr \in Nr, SysEnter(t, nr)
  PROVE  /\ \E ks \in SUBSET Counted : \A k \in Counted :
              Made(k)' = IF k \in ks THEN Made(k) + 1 ELSE Made(k)
         /\ \A k \in Counted : Kept(k)' = Kept(k)
         /\ Running' = Running
<1> DEFINE probed == "enterLink" \in held /\ PidIsTracked(t)
           c == [id |-> nextCall + 1, tid |-> t, nr |-> nr,
                 probed |-> probed, ts |-> IF probed THEN clock ELSE 0]
           ks == {k \in Counted : nr = k[2] /\ t \in Target
                                  /\ (k[1] = "file" => nr \in FileNr)}
<1>1. issued' = issued \cup {c} /\ UNCHANGED <<main, obs, accesses>>
  BY DEF SysEnter, mainVars, obsVars
<1>2. c.id = nextCall + 1 /\ c.tid = t /\ c.nr = nr
  OBVIOUS
<1> HIDE DEF c, probed
<1>3. c \notin issued
  BY <1>2 DEF CallsKnown, TypeOK, KernelTypeOK
<1>4. ASSUME NEW k \in Counted
      PROVE  Made(k)' = IF k \in ks THEN Made(k) + 1 ELSE Made(k)
  <2> DEFINE S == {d \in issued : d.nr = k[2] /\ d.tid \in Target
                                  /\ (k[1] = "file" => d.nr \in FileNr)}
             T == {d \in issued' : d.nr = k[2] /\ d.tid \in Target
                                   /\ (k[1] = "file" => d.nr \in FileNr)}
  <2>1. IsFiniteSet(S) /\ c \notin S
    BY <1>3, FS_Subset DEF CallsKnown
  <2>2. Made(k) = Cardinality(S) /\ Made(k)' = Cardinality(T)
    BY DEF Made
  <2>3. T = IF k \in ks THEN S \cup {c} ELSE S
    BY <1>1, <1>2
  <2> HIDE DEF S, T, ks
  <2>4. Cardinality(S \cup {c}) = Cardinality(S) + 1
    BY <2>1, FS_AddElement
  <2> QED BY <2>2, <2>3, <2>4
<1>5. \A k \in Counted : Kept(k)' = Kept(k)
  BY <1>1 DEF Kept
<1>6. ks \in SUBSET Counted
  OBVIOUS
<1> HIDE DEF ks
<1> QED BY <1>1, <1>4, <1>5, <1>6 DEF Running

(* An event or an access that Collect takes adds to one kind or to none.     *)
LEMMA CountStep ==
  ASSUME TypeOK, TypeOK', NoneTooMany, NoneTooMany', [Next]_vars, CollectEvent \/ CollectFile
  PROVE  /\ \A k \in Counted : Made(k)' = Made(k)
         /\ Running /\ Running'
         /\ \/ \A k \in Counted : Kept(k)' = Kept(k)
            \/ \E x \in Counted : /\ Kept(x) < Made(x)
                                  /\ \A k \in Counted : Kept(k)' = IF k = x THEN Kept(k) + 1
                                                                   ELSE Kept(k)
<1>1. /\ \A k \in Counted : Made(k)' = Made(k)
      /\ Running /\ Running'
  <2>1. issued' = issued /\ main = "collect" /\ main' = "collect"
    BY DEF CollectEvent, CollectFile, kernelVars, mainVars
  <2> QED BY <2>1 DEF Made, Running
<1>2. ASSUME NEW x \in Counted,
             \A k \in Counted : Kept(k)' = IF k = x THEN Kept(k) + 1 ELSE Kept(k)
      PROVE  Kept(x) < Made(x)
  <2>1. Kept(x)' = Kept(x) + 1 /\ Made(x)' = Made(x)
    BY <1>1, <1>2
  <2>2. Kept(x)' <= Made(x)' /\ Made(x) \in Nat /\ Kept(x) \in Nat
    BY DEF NoneTooMany
  <2> QED BY <2>1, <2>2
<1>3. CASE CollectEvent
  <2>0. accesses' = accesses
    BY <1>3 DEF CollectEvent
  <2>1. CASE UNCHANGED <<obs, recorded>>
    <3>1. \A k \in Counted : Kept(k)' = Kept(k)
      BY <2>0, <2>1 DEF Kept
    <3> QED BY <1>1, <3>1
  <2>2. CASE /\ Pipeline[1] \in Event /\ 1 \in DOMAIN Pipeline
             /\ \A n \in Nr : \A y \in {"enter", "exit"} :
                  CountOf(n, y)' = IF n = Pipeline[1].nr /\ y = KindOf(Pipeline[1])
                                   THEN CountOf(n, y) + 1 ELSE CountOf(n, y)
    <3>1. PICK e \in Event : e = Pipeline[1]
      BY <2>2
    <3>2. \A n \in Nr : obs'[n].count = IF n = e.nr /\ KindOf(e) = "enter"
                                        THEN obs[n].count + 1 ELSE obs[n].count
      BY <2>2, <3>1 DEF CountOf
    <3>3. e.nr \in Nr
      BY <3>1 DEF Event
    <3>4. CASE KindOf(e) = "enter"
      <4>1. PICK x \in Counted : x = <<"call", e.nr>>
        BY <3>3 DEF Counted
      <4>2. \A k \in Counted : Kept(k)' = IF k = x THEN Kept(k) + 1 ELSE Kept(k)
        BY <2>0, <3>2, <3>4, <4>1, KindParts DEF Kept
      <4> QED BY <1>1, <1>2, <4>2
    <3>5. CASE KindOf(e) # "enter"
      <4>1. \A k \in Counted : Kept(k)' = Kept(k)
        BY <2>0, <3>2, <3>5, KindParts DEF Kept
      <4> QED BY <1>1, <4>1
    <3> QED BY <3>4, <3>5
  <2> QED BY <1>1, <2>1, <2>2, ObsStep
<1>4. CASE CollectFile
  <2> DEFINE h == Head(fileEvents)
  <2>1. /\ fileEvents # <<>> /\ obs' = obs
        /\ accesses' = IF Len(accesses) < MaxFileAccesses THEN Append(accesses, h) ELSE accesses
    BY <1>4 DEF CollectFile
  <2>2. h \in FileEvent
    BY <2>1, FilePathType, HeadTailProperties
  <2> HIDE DEF h
  <2>3. CASE Len(accesses) < MaxFileAccesses
    <3>1. PICK x \in Counted : x = <<"file", h.nr>>
      BY <2>2, TracerAssumption DEF FileEvent, Counted
    <3> DEFINE n == Len(accesses) + 1
    <3>2. /\ DOMAIN accesses = 1 .. Len(accesses) /\ Len(accesses) \in Nat
          /\ DOMAIN accesses' = 1 .. n /\ accesses'[n] = h
          /\ \A i \in 1 .. Len(accesses) : accesses'[i] = accesses[i]
      BY <2>1, <2>2, <2>3, FilePathType, AppendProperties
    <3>3. /\ n \notin DOMAIN accesses /\ DOMAIN accesses' = DOMAIN accesses \cup {n}
      BY <3>2
    <3>4. ASSUME NEW k \in Counted PROVE Kept(k)' = IF k = x THEN Kept(k) + 1 ELSE Kept(k)
      <4> DEFINE A == {i \in DOMAIN accesses : accesses[i].nr = k[2]}
                 B == {i \in DOMAIN accesses' : accesses'[i].nr = k[2]}
      <4>1. CASE k[1] = "file"
        <5>1. Kept(k) = Cardinality(A) /\ Kept(k)' = Cardinality(B)
          BY <4>1 DEF Kept
        <5>2. IsFiniteSet(A) /\ n \notin A
          <6>1. IsFiniteSet(1 .. Len(accesses)) /\ A \subseteq 1 .. Len(accesses)
            BY <3>2, FS_Interval
          <6> QED BY <3>2, <6>1, FS_Subset
        <5>3. B = IF h.nr = k[2] THEN A \cup {n} ELSE A
          BY <3>2, <3>3
        <5>4. h.nr = k[2] <=> k = x
          BY <3>1, <4>1, KindParts
        <5> HIDE DEF A, B, n
        <5>5. Cardinality(A \cup {n}) = Cardinality(A) + 1
          BY <5>2, FS_AddElement
        <5> QED BY <5>1, <5>3, <5>4, <5>5
      <4>2. CASE k[1] = "call"
        BY <2>1, <3>1, <4>2 DEF Kept
      <4> QED BY <4>1, <4>2, KindParts
    <3> QED BY <1>1, <1>2, <3>4
  <2>4. CASE ~(Len(accesses) < MaxFileAccesses)
    <3>1. \A k \in Counted : Kept(k)' = Kept(k)
      BY <2>1, <2>4 DEF Kept
    <3> QED BY <1>1, <3>1
  <2> QED BY <2>3, <2>4
<1> QED BY <1>3, <1>4

(* Every other step at most ends the capture, once.                          *)
LEMMA OtherStep ==
  ASSUME [Next]_vars, ~(\E t \in Tid, nr \in Nr : SysEnter(t, nr)), ~CollectEvent, ~CollectFile
  PROVE  /\ \A k \in Counted : Made(k)' = Made(k) /\ Kept(k)' = Kept(k)
         /\ Running' # Running => Running /\ ~Running'
<1>1. UNCHANGED <<issued, obs, accesses>>
  BY DEF Next, vars, kernelVars, obsVars, NewSyscallTracer, SetTargetNS, TrackPID, Start,
     Spawn, ThreadEnds, EnterSubmit, MaybeEmitFile, SysExit, ExitSubmit, ReadCheck,
     Read, ReadClosed, ReadTransient, Send, FileReadCheck, FileRead, FileReadClosed,
     FileReadTransient, FileSend, TimerFires, CollectTimeout, StopSignal, StopClose
<1>2. main' = main \/ main \notin {"failed", "done"}
  BY DEF Next, vars, mainVars, NewSyscallTracer, SetTargetNS, TrackPID, Start,
     Spawn, ThreadEnds, EnterSubmit, MaybeEmitFile, SysExit, ExitSubmit, ReadCheck,
     Read, ReadClosed, ReadTransient, Send, FileReadCheck, FileRead, FileReadClosed,
     FileReadTransient, FileSend, TimerFires, CollectTimeout, StopSignal, StopClose
<1> QED BY <1>1, <1>2 DEF Made, Kept, Running

(* However the probes, the loops, Collect and Stop interleave, the sensor    *)
(* only makes Observer's steps: a capture counts nothing that was not made,  *)
(* and once it has returned the observation is final.                        *)
THEOREM ImplementsObserver == Spec => AsObserver!SafeSpec
<1>1. Init => AsObserver!Init
  <2> SUFFICES ASSUME Init PROVE AsObserver!Init
    OBVIOUS
  <2>1. /\ issued = {} /\ accesses = <<>> /\ main = "new"
        /\ \A n \in Nr : obs[n].count = 0
    BY DEF Init, ZeroRecord
  <2>2. \A k \in Counted : Made(k) = 0 /\ Kept(k) = 0
    BY <2>1, FS_EmptySet, KindParts DEF Made, Kept
  <2> QED BY <2>1, <2>2 DEF AsObserver!Init, Made, Kept
<1>2. TypeOK /\ TypeOK' /\ CallsKnown /\ NoneTooMany /\ NoneTooMany' /\ [Next]_vars
        => [AsObserver!Next]_(AsObserver!vars)
  <2> SUFFICES ASSUME TypeOK, TypeOK', CallsKnown, NoneTooMany, NoneTooMany', [Next]_vars
               PROVE  AsObserver!Next \/ UNCHANGED AsObserver!vars
    OBVIOUS
  <2>1. CASE \E t \in Tid, nr \in Nr : SysEnter(t, nr)
    <3>1. PICK ks \in SUBSET Counted :
            /\ \A k \in Counted : Made(k)' = IF k \in ks THEN Made(k) + 1 ELSE Made(k)
            /\ \A k \in Counted : Kept(k)' = Kept(k)
            /\ Running' = Running
      BY <2>1, MakeStep
    <3>2. AsObserver!Make(ks)
      BY <3>1 DEF AsObserver!Make, Made, Kept, Running
    <3> QED BY <3>2 DEF AsObserver!Next
  <2>2. CASE CollectEvent \/ CollectFile
    <3>1. /\ \A k \in Counted : Made(k)' = Made(k)
          /\ Running /\ Running'
          /\ \/ \A k \in Counted : Kept(k)' = Kept(k)
             \/ \E x \in Counted : /\ Kept(x) < Made(x)
                                   /\ \A k \in Counted : Kept(k)' = IF k = x THEN Kept(k) + 1
                                                                    ELSE Kept(k)
      BY <2>2, CountStep
    <3>2. CASE \A k \in Counted : Kept(k)' = Kept(k)
      BY <3>1, <3>2 DEF AsObserver!vars, Made, Kept, Running
    <3>3. ASSUME NEW x \in Counted, Kept(x) < Made(x),
                 \A k \in Counted : Kept(k)' = IF k = x THEN Kept(k) + 1 ELSE Kept(k)
          PROVE  AsObserver!Count(x)
      BY <3>1, <3>3 DEF AsObserver!Count, Made, Kept, Running
    <3> QED BY <3>1, <3>2, <3>3 DEF AsObserver!Next
  <2>3. CASE ~(\E t \in Tid, nr \in Nr : SysEnter(t, nr)) /\ ~CollectEvent /\ ~CollectFile
    <3>1. /\ \A k \in Counted : Made(k)' = Made(k) /\ Kept(k)' = Kept(k)
          /\ Running' # Running => Running /\ ~Running'
      BY <2>3, OtherStep
    <3>2. CASE Running' = Running
      BY <3>1, <3>2 DEF AsObserver!vars, Made, Kept, Running
    <3>3. CASE Running' # Running
      <4>1. AsObserver!Return
        BY <3>1, <3>3 DEF AsObserver!Return, Made, Kept, Running
      <4> QED BY <4>1 DEF AsObserver!Next
    <3> QED BY <3>2, <3>3
  <2> QED BY <2>1, <2>2, <2>3
<1> QED BY <1>1, <1>2, TypeCorrect, EventsAlways, NoneTooManyAlways, PTL
        DEF Spec, AsObserver!SafeSpec
----------------------------------------------------------------------------
(* Offsets.  With one target thread at most one probe is under way, so       *)
(* events are submitted in the order of the clock values they carry.         *)

OneTarget == \A t, u \in Target : t = u

(* What is seen is older than what a probe holds, and that than the clock.   *)
ProbesOrdered ==
  /\ \A e \in Seen : 0 < e.ts /\ e.ts < clock
  /\ \A t \in Tid : thread[t] = "enter" =>
       /\ t \in Target /\ 0 < call[t].ts /\ call[t].ts < clock
       /\ \A e \in Seen : e.ts <= call[t].ts
  /\ \A t \in Tid : thread[t] = "exit" =>
       /\ t \in Target /\ 0 < probeTs[t] /\ probeTs[t] < clock
       /\ \A e \in Seen : e.ts <= probeTs[t]

(* The queue is ordered and behind what was recorded.                        *)
QueueOrdered ==
  /\ \A i, j \in DOMAIN Pipeline : i < j => Pipeline[i].ts <= Pipeline[j].ts
  /\ \A e \in recorded : \A j \in DOMAIN Pipeline : e.ts <= Pipeline[j].ts

(* Offsets count from the first event recorded; the last of a record is that *)
(* of an event recorded.                                                     *)
OffsetsKnown ==
  /\ \A e \in recorded : 0 < firstEventNS /\ firstEventNS <= e.ts
  /\ firstEventNS # 0 => recorded # {}
  /\ \A n \in Nr : /\ 0 <= obs[n].first /\ obs[n].first <= obs[n].last
                   /\ \/ obs[n].last = 0
                      \/ \E e \in recorded :
                           obs[n].last = (e.ts - firstEventNS) \div NsPerMs

(* How a probe came to hold the clock value it has.                          *)
LEMMA ProbeStep ==
  ASSUME TypeOK, [Next]_vars
  PROVE  /\ clock <= clock'
         /\ \A u \in Tid : thread'[u] = "enter" =>
              \/ thread[u] = "enter" /\ call'[u] = call[u] /\ ~EnterSubmit(u)
              \/ u \in Target /\ call'[u].ts = clock /\ clock' = clock + 1
         /\ \A u \in Tid : thread'[u] = "exit" =>
              \/ /\ thread[u] = "exit" /\ probeTs'[u] = probeTs[u]
                 /\ \A ret \in Rets : ~ExitSubmit(u, ret)
              \/ u \in Target /\ probeTs'[u] = clock /\ clock' = clock + 1
<1>0. /\ thread \in [Tid -> Threads] /\ call \in [Tid -> Call \cup {NoCall}]
      /\ probeTs \in [Tid -> Nat] /\ clock \in Nat \ {0}
  BY DEF TypeOK, KernelTypeOK
<1> DEFINE Entering(u) == thread'[u] = "enter" =>
              \/ thread[u] = "enter" /\ call'[u] = call[u]
              \/ u \in Target /\ call'[u].ts = clock /\ clock' = clock + 1
           Exiting(u) == thread'[u] = "exit" =>
              \/ thread[u] = "exit" /\ probeTs'[u] = probeTs[u]
              \/ u \in Target /\ probeTs'[u] = clock /\ clock' = clock + 1
<1>1. ASSUME NEW t \in Tid, NEW nr \in Nr, SysEnter(t, nr)
      PROVE  clock <= clock' /\ \A u \in Tid : Entering(u) /\ Exiting(u)
  <2> DEFINE probed == "enterLink" \in held /\ PidIsTracked(t)
             c == [id |-> nextCall + 1, tid |-> t, nr |-> nr,
                   probed |-> probed, ts |-> IF probed THEN clock ELSE 0]
  <2>1. /\ call' = [call EXCEPT ![t] = c] /\ probeTs' = probeTs
        /\ \/ /\ probed /\ thread' = [thread EXCEPT ![t] = "enter"] /\ clock' = clock + 1
           \/ thread' = [thread EXCEPT ![t] = "kernel"] /\ clock' = clock
    BY <1>1 DEF SysEnter
  <2>2. probed => c.ts = clock /\ t \in Target
    BY DEF PidIsTracked
  <2> HIDE DEF c, probed
  <2> QED BY <1>0, <2>1, <2>2
<1>2. ASSUME NEW t \in Tid, SysExit(t)
      PROVE  clock <= clock' /\ \A u \in Tid : Entering(u) /\ Exiting(u)
  <2>1. \/ /\ thread' = [thread EXCEPT ![t] = "exit"] /\ call' = call /\ t \in Target
           /\ probeTs' = [probeTs EXCEPT ![t] = clock] /\ clock' = clock + 1
        \/ /\ thread' = [thread EXCEPT ![t] = "user"]
           /\ call' = [call EXCEPT ![t] = NoCall]
           /\ UNCHANGED <<probeTs, clock>>
    BY <1>2 DEF SysExit, PidIsTracked
  <2> QED BY <1>0, <2>1
<1>3. ASSUME NEW t \in Tid, \/ Spawn(t) \/ ThreadEnds(t) \/ EnterSubmit(t) \/ MaybeEmitFile(t)
                           \/ \E ret \in Rets : ExitSubmit(t, ret)
      PROVE  clock <= clock' /\ \A u \in Tid : Entering(u) /\ Exiting(u)
  <2>1. /\ \E x \in {"newborn", "none", "user", "kernel", "file"} :
             thread' = [thread EXCEPT ![t] = x]
        /\ call' = call \/ call' = [call EXCEPT ![t] = NoCall]
        /\ UNCHANGED <<probeTs, clock>>
    BY <1>3 DEF Spawn, ThreadEnds, EnterSubmit, MaybeEmitFile, ExitSubmit
  <2> QED BY <1>0, <2>1
<1>4. \/ \E r \in Resources : NewSyscallTracer(r) \/ StopClose(r)
      \/ SetTargetNS \/ TrackPID \/ Start \/ TimerFires \/ CollectTimeout
      \/ StopSignal \/ GoSide \/ UNCHANGED vars
      => UNCHANGED kernelVars
  BY GoSideFrame DEF NewSyscallTracer, StopClose, SetTargetNS, TrackPID, Start, TimerFires,
     CollectTimeout, StopSignal, vars
<1>5. clock <= clock' /\ \A u \in Tid : Entering(u) /\ Exiting(u)
  <2>1. CASE UNCHANGED kernelVars
    BY <1>0, <2>1 DEF kernelVars
  <2> HIDE DEF Entering, Exiting
  <2> QED BY <1>1, <1>2, <1>3, <1>4, <2>1, StepCases
<1>6. ASSUME NEW u \in Tid, EnterSubmit(u) PROVE thread'[u] \in {"file", "kernel"}
  BY <1>0, <1>6 DEF EnterSubmit
<1>7. ASSUME NEW u \in Tid, NEW ret \in Rets, ExitSubmit(u, ret)
      PROVE  thread'[u] = "user"
  BY <1>0, <1>7 DEF ExitSubmit
<1> QED BY <1>5, <1>6, <1>7

(* ProbesOrdered is preserved.                                               *)
LEMMA ProbesOrderedStep ==
  ASSUME TypeOK, OneTarget, ProbesOrdered, [Next]_vars
  PROVE  ProbesOrdered'
<1>0. /\ clock \in Nat /\ clock' \in Nat /\ clock <= clock' /\ clock > 0
  <2>1. TypeOK'
    BY TypeStep
  <2> QED BY <2>1, ProbeStep DEF TypeOK, KernelTypeOK
<1>1. ASSUME NEW t \in Tid, EnterSubmit(t)
      PROVE  /\ thread[t] = "enter" /\ EnterEvent(t).ts = call[t].ts /\ call[t].ts \in Nat
             /\ t \in Target /\ 0 < call[t].ts /\ call[t].ts < clock
  BY <1>1, SubmittedType DEF EnterSubmit, EnterEvent, ProbesOrdered, Call
<1>2. ASSUME NEW t \in Tid, NEW ret \in Rets, ExitSubmit(t, ret)
      PROVE  /\ thread[t] = "exit" /\ ExitEvent(t, ret).ts = probeTs[t] /\ probeTs[t] \in Nat
             /\ t \in Target /\ 0 < probeTs[t] /\ probeTs[t] < clock
  BY <1>2 DEF ExitSubmit, ExitEvent, ProbesOrdered, TypeOK, KernelTypeOK
<1>3. \A e \in Seen : e.ts \in Nat
  <2>1. Seen \subseteq Event
    BY PathType DEF Seen, TypeOK, ObsTypeOK
  <2> QED BY <2>1 DEF Event
<1>4. ASSUME NEW e \in Seen'
      PROVE  e.ts \in Nat /\ 0 < e.ts /\ e.ts < clock
  <2>1. CASE e \in Seen
    BY <1>3, <2>1 DEF ProbesOrdered
  <2> QED BY <1>1, <1>2, <2>1, SeenStep
<1>5. ASSUME NEW u \in Tid, thread'[u] = "enter"
      PROVE  /\ u \in Target /\ 0 < call'[u].ts /\ call'[u].ts < clock'
             /\ \A e \in Seen' : e.ts <= call'[u].ts
  <2>1. CASE thread[u] = "enter" /\ call'[u] = call[u] /\ ~EnterSubmit(u)
    <3>1. /\ u \in Target /\ 0 < call[u].ts /\ call[u].ts < clock /\ call[u].ts \in Nat
          /\ \A e \in Seen : e.ts <= call[u].ts
      BY <2>1, SubmittedType DEF ProbesOrdered, Call
    <3>2. \A t \in Tid : ~EnterSubmit(t)
      BY <1>1, <2>1, <3>1 DEF OneTarget
    <3>3. \A t \in Tid, ret \in Rets : ~ExitSubmit(t, ret)
      <4> SUFFICES ASSUME NEW t \in Tid, NEW ret \in Rets, ExitSubmit(t, ret) PROVE FALSE
        OBVIOUS
      <4>1. t = u /\ thread[t] = "exit"
        BY <1>2, <3>1 DEF OneTarget
      <4> QED BY <2>1, <4>1
    <3>4. \A e \in Seen' : e \in Seen
      BY <3>2, <3>3, SeenStep
    <3> QED BY <1>0, <2>1, <3>1, <3>4
  <2>2. CASE u \in Target /\ call'[u].ts = clock /\ clock' = clock + 1
    BY <1>0, <1>4, <2>2
  <2> QED BY <1>5, <2>1, <2>2, ProbeStep
<1>6. ASSUME NEW u \in Tid, thread'[u] = "exit"
      PROVE  /\ u \in Target /\ 0 < probeTs'[u] /\ probeTs'[u] < clock'
             /\ \A e \in Seen' : e.ts <= probeTs'[u]
  <2>1. CASE /\ thread[u] = "exit" /\ probeTs'[u] = probeTs[u]
             /\ \A ret \in Rets : ~ExitSubmit(u, ret)
    <3>1. /\ u \in Target /\ 0 < probeTs[u] /\ probeTs[u] < clock /\ probeTs[u] \in Nat
          /\ \A e \in Seen : e.ts <= probeTs[u]
      BY <2>1 DEF ProbesOrdered, TypeOK, KernelTypeOK
    <3>2. \A t \in Tid : ~EnterSubmit(t)
      <4> SUFFICES ASSUME NEW t \in Tid, EnterSubmit(t) PROVE FALSE
        OBVIOUS
      <4>1. t = u /\ thread[t] = "enter"
        BY <1>1, <3>1 DEF OneTarget
      <4> QED BY <2>1, <4>1
    <3>3. \A t \in Tid, ret \in Rets : ~ExitSubmit(t, ret)
      BY <1>2, <2>1, <3>1 DEF OneTarget
    <3>4. \A e \in Seen' : e \in Seen
      BY <3>2, <3>3, SeenStep
    <3> QED BY <1>0, <2>1, <3>1, <3>4
  <2>2. CASE u \in Target /\ probeTs'[u] = clock /\ clock' = clock + 1
    BY <1>0, <1>4, <2>2
  <2> QED BY <1>6, <2>1, <2>2, ProbeStep
<1> QED BY <1>0, <1>4, <1>5, <1>6 DEF ProbesOrdered

(* QueueOrdered is preserved.                                                *)
LEMMA QueueOrderedStep ==
  ASSUME TypeOK, ProbesOrdered, QueueOrdered, [Next]_vars
  PROVE  QueueOrdered'
<1> SUFFICES
      /\ \A i, j \in DOMAIN Pipeline' : i < j => Pipeline'[i].ts <= Pipeline'[j].ts
      /\ \A e \in recorded' : \A j \in DOMAIN Pipeline' : e.ts <= Pipeline'[j].ts
  BY DEF QueueOrdered
<1>0. /\ \A i, j \in DOMAIN Pipeline : i < j => Pipeline[i].ts <= Pipeline[j].ts
      /\ \A e \in recorded : \A j \in DOMAIN Pipeline : e.ts <= Pipeline[j].ts
  BY DEF QueueOrdered
<1>1. CASE recorded' = recorded /\ Thins(Pipeline, Pipeline')
  <2>1. PICK g \in [DOMAIN Pipeline' -> DOMAIN Pipeline] :
          /\ \A i, j \in DOMAIN Pipeline' : i < j => g[i] < g[j]
          /\ \A i \in DOMAIN Pipeline' : Pipeline'[i] = Pipeline[g[i]]
    BY <1>1 DEF Thins
  <2> QED BY <1>0, <1>1, <2>1
<1>2. CASE \E e \in Event :
             /\ recorded' = recorded /\ Len(Pipeline) + 1 \notin DOMAIN Pipeline
             /\ DOMAIN Pipeline' = DOMAIN Pipeline \cup {Len(Pipeline) + 1}
             /\ \A i \in DOMAIN Pipeline : Pipeline'[i] = Pipeline[i] /\ i < Len(Pipeline) + 1
             /\ Pipeline'[Len(Pipeline) + 1] = e
             /\ \/ \E t \in Tid : EnterSubmit(t) /\ e = EnterEvent(t)
                \/ \E t \in Tid, ret \in Rets : ExitSubmit(t, ret) /\ e = ExitEvent(t, ret)
  <2>1. PICK e \in Event :
             /\ recorded' = recorded /\ Len(Pipeline) + 1 \notin DOMAIN Pipeline
             /\ DOMAIN Pipeline' = DOMAIN Pipeline \cup {Len(Pipeline) + 1}
             /\ \A i \in DOMAIN Pipeline : Pipeline'[i] = Pipeline[i] /\ i < Len(Pipeline) + 1
             /\ Pipeline'[Len(Pipeline) + 1] = e
             /\ \/ \E t \in Tid : EnterSubmit(t) /\ e = EnterEvent(t)
                \/ \E t \in Tid, ret \in Rets : ExitSubmit(t, ret) /\ e = ExitEvent(t, ret)
    BY <1>2
  <2> DEFINE n == Len(Pipeline) + 1
  <2>2. \A f \in Seen : f.ts <= e.ts
    <3>1. ASSUME NEW t \in Tid, EnterSubmit(t), e = EnterEvent(t)
          PROVE  \A f \in Seen : f.ts <= e.ts
      BY <3>1 DEF EnterSubmit, EnterEvent, ProbesOrdered
    <3>2. ASSUME NEW t \in Tid, NEW ret \in Rets, ExitSubmit(t, ret), e = ExitEvent(t, ret)
          PROVE  \A f \in Seen : f.ts <= e.ts
      BY <3>2 DEF ExitSubmit, ExitEvent, ProbesOrdered
    <3> QED BY <2>1, <3>1, <3>2
  <2>3. /\ \A i \in DOMAIN Pipeline : Pipeline[i] \in Seen
        /\ recorded \subseteq Seen
    BY DEF Seen
  <2>4. n \in Nat /\ DOMAIN Pipeline \subseteq Nat
    BY PathType
  <2>5. ASSUME NEW i \in DOMAIN Pipeline', NEW j \in DOMAIN Pipeline', i < j
        PROVE  Pipeline'[i].ts <= Pipeline'[j].ts
    <3>1. i \in DOMAIN Pipeline
      BY <2>1, <2>4, <2>5
    <3>2. CASE j \in DOMAIN Pipeline
      BY <1>0, <2>1, <2>5, <3>1, <3>2
    <3>3. CASE j = n
      BY <2>1, <2>2, <2>3, <3>1, <3>3
    <3> QED BY <2>1, <3>2, <3>3
  <2>6. ASSUME NEW f \in recorded', NEW j \in DOMAIN Pipeline' PROVE f.ts <= Pipeline'[j].ts
    BY <1>0, <2>1, <2>2, <2>3
  <2> QED BY <2>5, <2>6
<1>3. CASE /\ 1 \in DOMAIN Pipeline /\ recorded' = recorded \cup {Pipeline[1]}
           /\ \A i \in DOMAIN Pipeline' : /\ i + 1 \in DOMAIN Pipeline /\ i \in Nat \ {0}
                                          /\ Pipeline'[i] = Pipeline[i + 1]
  <2>1. \A i \in DOMAIN Pipeline' : 1 < i + 1
    BY <1>3
  <2>2. \A i, j \in DOMAIN Pipeline' : i < j => i + 1 < j + 1
    BY <1>3
  <2> QED BY <1>0, <1>3, <2>1, <2>2
<1> QED BY <1>1, <1>2, <1>3, QueueStep

(* A later event has no smaller an offset, and none is negative.             *)
LEMMA OffsetMonotone ==
  ASSUME NEW a \in Nat, NEW b \in Nat, a <= b
  PROVE  /\ TruncDiv(a, NsPerMs) = a \div NsPerMs
         /\ 0 <= a \div NsPerMs /\ a \div NsPerMs <= b \div NsPerMs
<1>1. NsPerMs \in Nat \ {0}
  BY TracerAssumption
<1>2. 0 <= a \div NsPerMs /\ a \div NsPerMs <= b \div NsPerMs
  BY <1>1
<1>3. TruncDiv(a, NsPerMs) = a \div NsPerMs
  BY DEF TruncDiv
<1> QED BY <1>2, <1>3

(* recordSyscallEvent sets the last offset, and the first one once.          *)
LEMMA RecordOffsets ==
  ASSUME NEW rec \in SyscallRecord, NEW e \in Event, NEW anchor \in Nat
  PROVE  LET new == RecordSyscallEvent(rec, e, anchor)
             offset == TruncDiv(e.ts - anchor, NsPerMs)
         IN  new.last = offset /\ new.first \in {rec.first, offset}
<1> DEFINE offset == TruncDiv(e.ts - anchor, NsPerMs)
           first  == IF rec.count + rec.exitCount > 0 THEN rec.first ELSE offset
           new == RecordSyscallEvent(rec, e, anchor)
<1>1. ASSUME ~e.exit PROVE new.last = offset /\ new.first = first
  <2>1. \E args : new = [rec EXCEPT !.first = first, !.last = offset,
                                   !.count = rec.count + 1, !.args = args]
    BY <1>1 DEF RecordSyscallEvent, SyscallRecord
  <2> HIDE DEF new, offset, first
  <2> QED BY <2>1 DEF SyscallRecord
<1>2. ASSUME e.exit PROVE new.last = offset /\ new.first = first
  <2> DEFINE errs == IF e.ret < 0 THEN rec.errorCount + 1 ELSE rec.errorCount
             rets == IF Len(rec.rets) < MaxSamples THEN Append(rec.rets, e.ret)
                     ELSE rec.rets
             max  == IF e.lat > rec.max THEN e.lat ELSE rec.max
  <2>1. new = [rec EXCEPT !.first = first, !.last = offset,
                          !.exitCount = rec.exitCount + 1, !.errorCount = errs,
                          !.rets = rets, !.total = rec.total + e.lat,
                          !.max = max]
    BY <1>2 DEF RecordSyscallEvent, SyscallRecord
  <2> HIDE DEF new, offset, first, errs, rets, max
  <2> QED BY <2>1 DEF SyscallRecord
<1> HIDE DEF new
<1> QED BY <1>1, <1>2 DEF new

(* OffsetsKnown is preserved.                                                *)
LEMMA OffsetsStep ==
  ASSUME TypeOK, ProbesOrdered, QueueOrdered, OffsetsKnown, [Next]_vars
  PROVE  OffsetsKnown'
<1>1. CASE CollectEvent
  <2> DEFINE e == Pipeline[1]
             anchor == IF firstEventNS = 0 THEN e.ts ELSE firstEventNS
             offset == (e.ts - anchor) \div NsPerMs
  <2>1. /\ Pipeline # <<>> /\ Head(events) = e /\ recorded' = recorded \cup {e}
    BY <1>1, PathCollect
  <2>2. 1 \in DOMAIN Pipeline /\ e \in Event
    <3>1. 1 \in DOMAIN Pipeline
      BY <2>1, PathType, EmptySeq
    <3> QED BY <3>1, PathType
  <2>3. e.nr \in Nr /\ e.ts \in Nat /\ 0 < e.ts
    <3>1. e \in Seen
      BY <2>2 DEF Seen
    <3> QED BY <2>2, <3>1 DEF Event, ProbesOrdered
  <2>4. obs \in [Nr -> SyscallRecord] /\ firstEventNS \in Nat /\ recorded \subseteq Event
    BY DEF TypeOK, ObsTypeOK
  <2>5. /\ firstEventNS' = anchor
        /\ obs' = [obs EXCEPT ![e.nr] = RecordSyscallEvent(obs[e.nr], e, anchor)]
    BY <1>1, <2>1, <2>3, <2>4 DEF CollectEvent
  <2>6. \A f \in recorded : f.ts \in Nat /\ f.ts <= e.ts /\ firstEventNS <= f.ts /\ firstEventNS # 0
    <3>1. \A f \in recorded : f.ts \in Nat
      BY <2>4 DEF Event
    <3> QED BY <2>2, <2>4, <3>1 DEF QueueOrdered, OffsetsKnown
  <2>7. /\ anchor \in Nat /\ 0 < anchor /\ anchor <= e.ts
        /\ recorded # {} => anchor = firstEventNS
        /\ recorded = {} => firstEventNS = 0
    BY <2>3, <2>4, <2>6 DEF OffsetsKnown
  <2>8. e.ts - anchor \in Nat /\ TruncDiv(e.ts - anchor, NsPerMs) = offset /\ 0 <= offset
    BY <2>3, <2>7, OffsetMonotone
  <2>9. ASSUME NEW f \in recorded
        PROVE  f.ts - firstEventNS \in Nat /\ (f.ts - firstEventNS) \div NsPerMs <= offset
    <3>1. anchor = firstEventNS /\ f.ts - anchor \in Nat /\ f.ts - anchor <= e.ts - anchor
      BY <2>3, <2>4, <2>6, <2>7
    <3> HIDE DEF e, anchor
    <3>2. (f.ts - anchor) \div NsPerMs <= offset
      BY <2>8, <3>1, OffsetMonotone
    <3> QED BY <3>1, <3>2
  <2>10. \A n \in Nr : obs[n].last <= offset /\ 0 <= obs[n].first /\ obs[n].first <= obs[n].last
                       /\ obs[n].first \in Int /\ obs[n].last \in Int /\ offset \in Int
    <3>1. NsPerMs \in Nat \ {0}
      BY TracerAssumption
    <3>2. offset \in Int
      BY <2>8, <3>1
    <3>3. \A n \in Nr : obs[n].first \in Int /\ obs[n].last \in Int
      BY <2>4 DEF SyscallRecord
    <3> HIDE DEF offset
    <3> QED BY <2>8, <2>9, <3>2, <3>3 DEF OffsetsKnown
  <2> HIDE DEF offset, anchor, e
  <2>11. /\ obs'[e.nr].last = offset /\ obs'[e.nr].first \in {obs[e.nr].first, offset}
         /\ \A n \in Nr \ {e.nr} : obs'[n] = obs[n]
    <3>1. PICK rec \in SyscallRecord : rec = obs[e.nr]
      BY <2>3, <2>4
    <3> DEFINE new == RecordSyscallEvent(rec, e, anchor)
    <3>2. new.last = offset /\ new.first \in {rec.first, offset}
      BY <2>2, <2>7, <2>8, RecordOffsets
    <3>3. obs'[e.nr] = new /\ \A n \in Nr \ {e.nr} : obs'[n] = obs[n]
      BY <2>3, <2>4, <2>5, <3>1
    <3> HIDE DEF new
    <3> QED BY <3>1, <3>2, <3>3
  <2>12. \A f \in recorded' : 0 < firstEventNS' /\ firstEventNS' <= f.ts
    BY <2>1, <2>5, <2>6, <2>7
  <2>13. \A n \in Nr : 0 <= obs'[n].first /\ obs'[n].first <= obs'[n].last
    BY <2>3, <2>8, <2>10, <2>11
  <2>14. offset = (e.ts - firstEventNS') \div NsPerMs /\ e \in recorded'
    BY <2>1, <2>5 DEF offset
  <2>15. ASSUME NEW n \in Nr
         PROVE  \/ obs'[n].last = 0
                \/ \E f \in recorded' : obs'[n].last = (f.ts - firstEventNS') \div NsPerMs
    <3>1. CASE n = e.nr
      BY <2>11, <2>14, <3>1
    <3>2. CASE n # e.nr /\ recorded # {}
      <4>1. obs'[n] = obs[n] /\ firstEventNS' = firstEventNS /\ recorded \subseteq recorded'
        BY <2>1, <2>5, <2>7, <2>11, <3>2
      <4> QED BY <4>1 DEF OffsetsKnown
    <3>3. CASE n # e.nr /\ recorded = {}
      BY <2>11, <3>3 DEF OffsetsKnown
    <3> QED BY <3>1, <3>2, <3>3
  <2> QED BY <2>12, <2>13, <2>14, <2>15 DEF OffsetsKnown
<1>2. CASE ~CollectEvent
  <2>1. UNCHANGED <<obs, firstEventNS, recorded>>
    BY <1>2 DEF Next, vars, obsVars, NewSyscallTracer, SetTargetNS, TrackPID, Start,
       Spawn, ThreadEnds, SysEnter, EnterSubmit, MaybeEmitFile, SysExit, ExitSubmit, ReadCheck,
       Read, ReadClosed, ReadTransient, Send, FileReadCheck,
       FileRead, FileReadClosed, FileReadTransient, FileSend, CollectFile,
       TimerFires, CollectTimeout, StopSignal, StopClose
  <2> QED BY <2>1 DEF OffsetsKnown
<1> QED BY <1>1, <1>2

(* With one target thread, and whatever is dropped, no offset is negative    *)
(* and the first of a record is not after its last.                          *)
THEOREM OffsetsCorrect == Spec => []OffsetsOrdered
<1> DEFINE I == OneTarget => ProbesOrdered /\ QueueOrdered /\ OffsetsKnown
<1>1. Init => I
  <2> SUFFICES ASSUME Init PROVE I
    OBVIOUS
  <2>1. /\ \A n \in Nr : obs[n].first = 0 /\ obs[n].last = 0
        /\ \A t \in Tid : thread[t] \in {"none", "user"}
        /\ firstEventNS = 0
    BY DEF Init, ZeroRecord
  <2> QED BY <2>1, NothingYet DEF ProbesOrdered, QueueOrdered, OffsetsKnown, Seen
<1>2. TypeOK /\ I /\ [Next]_vars => I'
  BY ProbesOrderedStep, QueueOrderedStep, OffsetsStep DEF OneTarget
<1>3. I => OffsetsOrdered
  <2> SUFFICES ASSUME I, Cardinality(Target) = 1
               PROVE  \A n \in Nr : 0 <= obs[n].first /\ obs[n].first <= obs[n].last
    BY DEF OffsetsOrdered
  <2>1. IsFiniteSet(Target)
    BY TracerAssumption, FS_Subset
  <2>2. OneTarget
    BY <2>1, FS_Singleton DEF OneTarget
  <2> QED BY <2>2 DEF OffsetsKnown
<1> QED BY <1>1, <1>2, <1>3, TypeCorrect, PTL DEF Spec
=============================================================================
