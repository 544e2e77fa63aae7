-------------------------- MODULE SysmonMap_proofs --------------------------
(***************************************************************************)
(* What the Sysmon backend reports, for any number of processes, events,   *)
(* kinds of payload and any length of the window and the margin.           *)
(***************************************************************************)
EXTENDS SysmonMap, Ordered_proofs

(* Events as Sysmon logs them.                                               *)
Kinds == {"target", "child", "descendant", "stranger"}
Vals == {pl[2] : pl \in UNION {Payload[id] : id \in DOMAIN Payload}}
Events == [id : EventIds, pid : Pid, ppid : Pid \cup {NoPid}, obj : Obj, val : Vals,
           time : Int, kin : Kinds]

----------------------------------------------------------------------------
(* The positions in the log that an answer holds, and of those the ones the  *)
(* mapping attributes to the target; and the last of them for each object.   *)
Mine(S, id) == {i \in S : log[i].id = id /\ Attributed(PickBack(log, S), log[i])}
Newest(S, id) == {i \in Mine(S, id) : \A j \in Mine(S, id) : log[j].obj = log[i].obj => j <= i}
Image(at, P) == {at[p] : p \in P}

(* The answer's positions run backwards through those of the log.            *)
LEMMA AnswerBack ==
  ASSUME log \in Seq(Events), NEW S \in SUBSET (DOMAIN log),
         NEW A, A = PickBack(log, S), NEW at, at = InReverse(S)
  PROVE  /\ IsFiniteSet(S) /\ IsFiniteSet(DOMAIN A) /\ DOMAIN A \in SUBSET Nat
         /\ at \in [DOMAIN A -> S] /\ S \in SUBSET Nat
         /\ \A p \in DOMAIN A : A[p] = log[at[p]] /\ A[p] \in Events
         /\ \A p, q \in DOMAIN A : p <= q <=> at[q] <= at[p]
         /\ \A i \in S : \E p \in DOMAIN A : at[p] = i
<1> DEFINE n == Cardinality(S)
<1>1. /\ IsFiniteSet(S) /\ n \in Nat /\ A \in Seq(Events) /\ DOMAIN A = 1 .. n
      /\ at \in [1 .. n -> S]
      /\ \A p \in 1 .. n : A[p] = log[at[p]]
      /\ \A p, q \in 1 .. n : p < q => at[p] > at[q]
      /\ \A i \in S : \E p \in 1 .. n : at[p] = i
  BY PickBackAll
<1> HIDE DEF n
<1>2. S \in SUBSET Nat /\ \A i \in S : log[i] \in Events
  <2>1. DOMAIN log = 1 .. Len(log) /\ Len(log) \in Nat /\ \A i \in DOMAIN log : log[i] \in Events
    OBVIOUS
  <2> QED BY <2>1
<1>3. \A p, q \in 1 .. n : p <= q <=> at[q] <= at[p]
  <2> TAKE p, q \in 1 .. n
  <2> DEFINE x == at[p]
             y == at[q]
  <2>1. p \in Nat /\ q \in Nat /\ x \in Nat /\ y \in Nat /\ (p = q => x = y)
    BY <1>1, <1>2
  <2>2. p < q => x > y
    BY <1>1
  <2>3. q < p => y > x
    BY <1>1
  <2> HIDE DEF x, y
  <2>4. p <= q <=> y <= x
    BY <2>1, <2>2, <2>3
  <2> QED BY <2>4 DEF x, y
<1>4. IsFiniteSet(1 .. n)
  <2>1. n \in Nat
    BY <1>1
  <2> QED BY <2>1, FS_Interval
<1>5. \A p \in 1 .. n : A[p] \in Events
  BY <1>1, <1>2
<1> QED BY <1>1, <1>2, <1>3, <1>4, <1>5

(* Selecting in the answer is selecting in the log.                          *)
LEMMA OfBack ==
  ASSUME log \in Seq(Events), NEW S \in SUBSET (DOMAIN log), NEW id,
         NEW A, A = PickBack(log, S), NEW at, at = InReverse(S)
  PROVE  /\ Of(A, id) \in SUBSET DOMAIN A
         /\ \A p \in DOMAIN A : p \in Of(A, id) <=> at[p] \in Mine(S, id)
         /\ \A p \in DOMAIN A : p \in FirstOf(A, id) <=> at[p] \in Newest(S, id)
<1>1. /\ at \in [DOMAIN A -> S]
      /\ \A p \in DOMAIN A : A[p] = log[at[p]]
      /\ \A p, q \in DOMAIN A : p <= q <=> at[q] <= at[p]
      /\ \A i \in S : \E p \in DOMAIN A : at[p] = i
  BY AnswerBack
<1>2. \A i : i \in Mine(S, id) <=> i \in S /\ log[i].id = id /\ Attributed(A, log[i])
  BY DEF Mine
<1>3. \A p : p \in Of(A, id) <=> p \in DOMAIN A /\ A[p].id = id /\ Attributed(A, A[p])
  BY DEF Of
<1>4. \A p \in DOMAIN A : p \in Of(A, id) <=> at[p] \in Mine(S, id)
  BY <1>1, <1>2, <1>3
<1>5. \A p : p \in FirstOf(A, id) <=>
        p \in Of(A, id) /\ \A q \in Of(A, id) : A[q].obj = A[p].obj => p <= q
  BY DEF FirstOf
<1>6. \A i : i \in Newest(S, id) <=>
        i \in Mine(S, id) /\ \A j \in Mine(S, id) : log[j].obj = log[i].obj => j <= i
  BY DEF Newest
<1>7. ASSUME NEW p \in DOMAIN A PROVE p \in FirstOf(A, id) <=> at[p] \in Newest(S, id)
  <2>1. ASSUME p \in FirstOf(A, id) PROVE at[p] \in Newest(S, id)
    <3>1. ASSUME NEW j \in Mine(S, id), log[j].obj = log[at[p]].obj PROVE j <= at[p]
      <4>1. PICK q \in DOMAIN A : at[q] = j
        BY <1>1, <1>2, <3>1
      <4>2. q \in Of(A, id) /\ A[q].obj = A[p].obj
        BY <1>1, <1>4, <3>1, <4>1
      <4>3. p <= q
        BY <1>5, <2>1, <4>2
      <4> QED BY <1>1, <4>1, <4>3
    <3>2. at[p] \in Mine(S, id)
      BY <1>4, <1>5, <2>1
    <3> QED BY <1>6, <3>1, <3>2
  <2>2. ASSUME at[p] \in Newest(S, id) PROVE p \in FirstOf(A, id)
    <3>1. p \in Of(A, id)
      BY <1>4, <1>6, <2>2
    <3>2. ASSUME NEW q \in Of(A, id), A[q].obj = A[p].obj PROVE p <= q
      <4>1. q \in DOMAIN A /\ at[q] \in Mine(S, id) /\ log[at[q]].obj = log[at[p]].obj
        BY <1>1, <1>3, <1>4, <3>2
      <4>2. at[q] <= at[p]
        BY <1>6, <2>2, <4>1
      <4> QED BY <1>1, <4>1, <4>2
    <3> QED BY <1>5, <3>1, <3>2
  <2> QED BY <2>1, <2>2
<1>8. Of(A, id) \in SUBSET DOMAIN A
  BY <1>3
<1> QED BY <1>4, <1>7, <1>8

(* Every object of an attributed event has a last one.                       *)
LEMMA NewestExists ==
  ASSUME log \in Seq(Events), NEW S \in SUBSET (DOMAIN log), NEW id, NEW i \in Mine(S, id)
  PROVE  \E j \in Newest(S, id) : log[j].obj = log[i].obj
<1>0. PICK A, at : A = PickBack(log, S) /\ at = InReverse(S)
  OBVIOUS
<1>1. /\ DOMAIN A \in SUBSET Nat /\ at \in [DOMAIN A -> S]
      /\ \A p \in DOMAIN A : A[p] = log[at[p]]
      /\ \A k \in S : \E p \in DOMAIN A : at[p] = k
  BY <1>0, AnswerBack
<1>2. /\ Of(A, id) \in SUBSET DOMAIN A
      /\ \A p \in DOMAIN A : p \in Of(A, id) <=> at[p] \in Mine(S, id)
      /\ \A p \in DOMAIN A : p \in FirstOf(A, id) <=> at[p] \in Newest(S, id)
  BY <1>0, OfBack
<1>3. i \in S
  BY DEF Mine
<1>4. PICK p \in Of(A, id) : at[p] = i
  BY <1>1, <1>2, <1>3
<1> DEFINE P == {q \in Of(A, id) : A[q].obj = log[i].obj}
<1>5. p \in P /\ P \subseteq Nat
  BY <1>1, <1>2, <1>4
<1>6. PICK q \in P : \A r \in P : q <= r
  <2> HIDE DEF P
  <2> QED BY <1>5, SmallestOf
<1>7. q \in FirstOf(A, id)
  BY <1>6 DEF FirstOf
<1>8. q \in DOMAIN A /\ log[at[q]].obj = log[i].obj
  BY <1>1, <1>2, <1>6
<1> QED BY <1>2, <1>7, <1>8
(* Counting in the answer is counting in the log.                            *)
LEMMA CountBack ==
  ASSUME log \in Seq(Events), NEW S \in SUBSET (DOMAIN log),
         NEW A, A = PickBack(log, S), NEW at, at = InReverse(S),
         NEW P \in SUBSET (DOMAIN A), NEW Q \in SUBSET S,
         \A p \in DOMAIN A : p \in P <=> at[p] \in Q
  PROVE  IsFiniteSet(Q) /\ Cardinality(P) = Cardinality(Q)
<1>1. /\ IsFiniteSet(S) /\ IsFiniteSet(DOMAIN A) /\ DOMAIN A \in SUBSET Nat
      /\ at \in [DOMAIN A -> S] /\ S \in SUBSET Nat
      /\ \A p, q \in DOMAIN A : p <= q <=> at[q] <= at[p]
      /\ \A i \in S : \E p \in DOMAIN A : at[p] = i
  BY AnswerBack
<1>2. IsFiniteSet(P) /\ IsFiniteSet(Q)
  BY <1>1, FS_Subset
<1> DEFINE f == [p \in P |-> at[p]]
<1>3. f \in Bijection(P, Q)
  <2>1. f \in [P -> Q]
    OBVIOUS
  <2>2. \A p, q \in P : f[p] = f[q] => p = q
    <3> TAKE p, q \in P
    <3>1. p \in DOMAIN A /\ q \in DOMAIN A /\ p \in Nat /\ q \in Nat /\ at[p] \in Nat
      BY <1>1
    <3>2. at[p] = at[q] => p <= q /\ q <= p
      BY <1>1, <3>1
    <3> QED BY <3>1, <3>2
  <2>3. \A i \in Q : \E p \in P : f[p] = i
    BY <1>1
  <2> HIDE DEF f
  <2>4. IsInjective(f)
    BY <2>1, <2>2 DEF IsInjective
  <2> QED BY <2>1, <2>3, <2>4 DEF Bijection, Injection, Surjection
<1> HIDE DEF f
<1> QED BY <1>2, <1>3, FS_Bijection DEF ExistsBijection

(* What is listed of the answer, told in terms of the log.                   *)
Reports(r, S) ==
  /\ r.children = {<<log[i].obj, log[i].val>> : i \in Newest(S, "processCreate")}
  /\ \A id \in Deduped : r.once[id] = {log[i].obj : i \in Newest(S, id)}
  /\ DOMAIN r.counted = {"network", "registrySet", "processAccess"}
  /\ \A o \in Obj :
       /\ r.counted["network"][o] =
            Cardinality({i \in Mine(S, "network") : log[i].obj = o /\ log[i].val = "initiated"})
       /\ \A id \in {"registrySet", "processAccess"} :
            r.counted[id][o] = Cardinality({i \in Mine(S, id) : log[i].obj = o})
  /\ r.keysDeleted = {log[i].obj : i \in {j \in Newest(S, "registryKey") :
                                            log[j].val = "delete"}}
  /\ r.keysCreated = {log[i].obj : i \in {j \in Newest(S, "registryKey") :
                                            log[j].val # "delete"}}
  /\ \E touched :
       /\ touched = {log[i].obj : i \in Newest(S, "registryKey")}
                      \cup {log[i].obj : i \in Mine(S, "registrySet")}
       /\ r.persistence <=> touched \cap PersistenceKeys # {}
       /\ r.weakened <=> touched \cap WeakeningKeys # {}
  /\ r.injection <=> Mine(S, "remoteThread") # {}

(* The mapping reports that.                                                 *)
LEMMA MapBack ==
  ASSUME log \in Seq(Events), NEW S \in SUBSET (DOMAIN log),
         NEW r, r = MapEvents(PickBack(log, S))
  PROVE  Reports(r, S)
<1>0. PICK A, at : A = PickBack(log, S) /\ at = InReverse(S)
  OBVIOUS
<1>1. /\ at \in [DOMAIN A -> S]
      /\ \A p \in DOMAIN A : A[p] = log[at[p]]
      /\ \A i \in S : \E p \in DOMAIN A : at[p] = i
  BY <1>0, AnswerBack
<1>2. ASSUME NEW id
      PROVE  /\ Of(A, id) \in SUBSET (DOMAIN A) /\ FirstOf(A, id) \in SUBSET (DOMAIN A)
             /\ Mine(S, id) \in SUBSET S /\ Newest(S, id) \in SUBSET S
             /\ \A p \in DOMAIN A : p \in Of(A, id) <=> at[p] \in Mine(S, id)
             /\ \A p \in DOMAIN A : p \in FirstOf(A, id) <=> at[p] \in Newest(S, id)
  <2>1. /\ Of(A, id) \in SUBSET (DOMAIN A)
        /\ \A p \in DOMAIN A : p \in Of(A, id) <=> at[p] \in Mine(S, id)
        /\ \A p \in DOMAIN A : p \in FirstOf(A, id) <=> at[p] \in Newest(S, id)
    BY <1>0, OfBack
  <2>2. FirstOf(A, id) \in SUBSET Of(A, id)
    BY DEF FirstOf
  <2>3. Mine(S, id) \in SUBSET S /\ Newest(S, id) \in SUBSET Mine(S, id)
    BY DEF Mine, Newest
  <2> QED BY <2>1, <2>2, <2>3
<1>3. ASSUME NEW P \in SUBSET (DOMAIN A), NEW Q \in SUBSET S,
             \A p \in DOMAIN A : p \in P <=> at[p] \in Q
      PROVE  /\ Objects(A, P) = {log[i].obj : i \in Q}
             /\ {<<A[p].obj, A[p].val>> : p \in P} = {<<log[i].obj, log[i].val>> : i \in Q}
             /\ P = {} <=> Q = {}
  <2>1. \A p \in P : at[p] \in Q /\ A[p] = log[at[p]]
    BY <1>1, <1>3
  <2>2. \A i \in Q : \E p \in P : at[p] = i /\ A[p] = log[i]
    BY <1>1, <1>3
  <2>3. Objects(A, P) = {log[i].obj : i \in Q}
    BY <2>1, <2>2 DEF Objects
  <2>4. {<<A[p].obj, A[p].val>> : p \in P} = {<<log[i].obj, log[i].val>> : i \in Q}
    BY <2>1, <2>2
  <2>5. P = {} <=> Q = {}
    BY <2>1, <2>2
  <2> QED BY <2>3, <2>4, <2>5
<1> DEFINE keys == FirstOf(A, "registryKey")
           del == {p \in keys : A[p].val = "delete"}
           news == Newest(S, "registryKey")
           newDel == {j \in news : log[j].val = "delete"}
           newAdd == {j \in news : log[j].val # "delete"}
           ini == {p \in Of(A, "network") : A[p].val = "initiated"}
<1>4. /\ r.children = {<<A[i].obj, A[i].val>> : i \in FirstOf(A, "processCreate")}
      /\ \A id \in Deduped : r.once[id] = Objects(A, FirstOf(A, id))
      /\ DOMAIN r.counted = {"network", "registrySet", "processAccess"}
      /\ r.counted["network"] = CountOf(A, ini)
      /\ \A id \in {"registrySet", "processAccess"} : r.counted[id] = CountOf(A, Of(A, id))
      /\ r.keysDeleted = Objects(A, del) /\ r.keysCreated = Objects(A, keys \ del)
      /\ r.persistence <=> (Objects(A, keys) \cup Objects(A, Of(A, "registrySet")))
                             \cap PersistenceKeys # {}
      /\ r.weakened <=> (Objects(A, keys) \cup Objects(A, Of(A, "registrySet")))
                          \cap WeakeningKeys # {}
      /\ r.injection <=> Of(A, "remoteThread") # {}
  <2>1. r = MapEvents(A)
    BY <1>0
  <2>2. r.children = {<<A[i].obj, A[i].val>> : i \in FirstOf(A, "processCreate")}
    BY <2>1 DEF MapEvents
  <2>3. r.once = [id \in Deduped |-> Objects(A, FirstOf(A, id))]
    BY <2>1 DEF MapEvents
  <2>4. r.counted = [network       |-> CountOf(A, ini),
                     registrySet   |-> CountOf(A, Of(A, "registrySet")),
                     processAccess |-> CountOf(A, Of(A, "processAccess"))]
    BY <2>1 DEF MapEvents
  <2>5. r.keysDeleted = Objects(A, del) /\ r.keysCreated = Objects(A, keys \ del)
    BY <2>1 DEF MapEvents
  <2>6. r.persistence = ((Objects(A, keys) \cup Objects(A, Of(A, "registrySet")))
                           \cap PersistenceKeys # {})
    BY <2>1 DEF MapEvents
  <2>7. r.weakened = ((Objects(A, keys) \cup Objects(A, Of(A, "registrySet")))
                        \cap WeakeningKeys # {})
    BY <2>1 DEF MapEvents
  <2>8. r.injection = (Of(A, "remoteThread") # {})
    BY <2>1 DEF MapEvents
  <2> HIDE DEF ini, keys, del
  <2>9. /\ DOMAIN r.counted = {"network", "registrySet", "processAccess"}
        /\ r.counted["network"] = CountOf(A, ini)
        /\ \A id \in {"registrySet", "processAccess"} : r.counted[id] = CountOf(A, Of(A, id))
    BY <2>4
  <2> QED BY <2>2, <2>3, <2>5, <2>6, <2>7, <2>8, <2>9
<1>5. r.children = {<<log[i].obj, log[i].val>> : i \in Newest(S, "processCreate")}
  <2> DEFINE P == FirstOf(A, "processCreate")
             Q == Newest(S, "processCreate")
  <2>1. /\ P \in SUBSET (DOMAIN A) /\ Q \in SUBSET S
        /\ \A p \in DOMAIN A : p \in P <=> at[p] \in Q
    BY <1>2
  <2>2. r.children = {<<A[i].obj, A[i].val>> : i \in P}
    BY <1>4
  <2> HIDE DEF P, Q
  <2>3. {<<A[p].obj, A[p].val>> : p \in P} = {<<log[i].obj, log[i].val>> : i \in Q}
    BY <1>3, <2>1
  <2> QED BY <2>2, <2>3 DEF Q
<1>6. ASSUME NEW id \in Deduped PROVE r.once[id] = {log[i].obj : i \in Newest(S, id)}
  <2> DEFINE P == FirstOf(A, id)
             Q == Newest(S, id)
  <2>1. /\ P \in SUBSET (DOMAIN A) /\ Q \in SUBSET S
        /\ \A p \in DOMAIN A : p \in P <=> at[p] \in Q
    BY <1>2
  <2>2. r.once[id] = Objects(A, P)
    BY <1>4
  <2> HIDE DEF P, Q
  <2>3. Objects(A, P) = {log[i].obj : i \in Q}
    BY <1>3, <2>1
  <2> QED BY <2>2, <2>3 DEF Q
<1>7. ASSUME NEW o \in Obj
      PROVE  r.counted["network"][o] =
               Cardinality({i \in Mine(S, "network") : log[i].obj = o /\ log[i].val = "initiated"})
  <2> DEFINE P == {p \in ini : A[p].obj = o}
             Q == {i \in Mine(S, "network") : log[i].obj = o /\ log[i].val = "initiated"}
  <2>1. r.counted["network"][o] = Cardinality(P)
    BY <1>4 DEF CountOf
  <2>2. P \in SUBSET (DOMAIN A) /\ Q \in SUBSET S /\ \A p \in DOMAIN A : p \in P <=> at[p] \in Q
    BY <1>1, <1>2
  <2> HIDE DEF P, Q
  <2>3. Cardinality(P) = Cardinality(Q)
    BY <1>0, <2>2, CountBack
  <2> QED BY <2>1, <2>3 DEF Q
<1>8. ASSUME NEW o \in Obj, NEW id \in {"registrySet", "processAccess"}
      PROVE  r.counted[id][o] = Cardinality({i \in Mine(S, id) : log[i].obj = o})
  <2> DEFINE P == {p \in Of(A, id) : A[p].obj = o}
             Q == {i \in Mine(S, id) : log[i].obj = o}
  <2>1. r.counted[id][o] = Cardinality(P)
    BY <1>4 DEF CountOf
  <2>2. P \in SUBSET (DOMAIN A) /\ Q \in SUBSET S /\ \A p \in DOMAIN A : p \in P <=> at[p] \in Q
    BY <1>1, <1>2
  <2> HIDE DEF P, Q
  <2>3. Cardinality(P) = Cardinality(Q)
    BY <1>0, <2>2, CountBack
  <2> QED BY <2>1, <2>3 DEF Q
<1>9. r.keysDeleted = {log[i].obj : i \in newDel} /\ r.keysCreated = {log[i].obj : i \in newAdd}
  <2>1. /\ del \in SUBSET (DOMAIN A) /\ newDel \in SUBSET S
        /\ \A p \in DOMAIN A : p \in del <=> at[p] \in newDel
    BY <1>1, <1>2
  <2>2. /\ keys \ del \in SUBSET (DOMAIN A) /\ newAdd \in SUBSET S
        /\ \A p \in DOMAIN A : p \in keys \ del <=> at[p] \in newAdd
    BY <1>1, <1>2
  <2> HIDE DEF keys, del, newDel, newAdd
  <2> QED BY <1>3, <1>4, <2>1, <2>2
<1>10. /\ Objects(A, keys) = {log[i].obj : i \in news}
       /\ Objects(A, Of(A, "registrySet")) = {log[i].obj : i \in Mine(S, "registrySet")}
       /\ Of(A, "remoteThread") = {} <=> Mine(S, "remoteThread") = {}
  BY <1>2, <1>3
<1> HIDE DEF keys, del, news, newDel, newAdd, ini
<1>11. \E touched :
         /\ touched = {log[i].obj : i \in news} \cup {log[i].obj : i \in Mine(S, "registrySet")}
         /\ r.persistence <=> touched \cap PersistenceKeys # {}
         /\ r.weakened <=> touched \cap WeakeningKeys # {}
  BY <1>4, <1>10
<1> QED
  BY <1>4, <1>5, <1>6, <1>7, <1>8, <1>9, <1>10, <1>11 DEF Reports, news, newDel, newAdd
----------------------------------------------------------------------------
(* Who the target is and who acts for it, as far as process ids tell: kin is *)
(* never taken from a wrong parent, and as long as no process id is handed   *)
(* out twice it stays what it was.                                           *)
Known ==
  /\ proc[Target] = "target"
  /\ \A i \in DOMAIN log :
       /\ proc[log[i].pid] = log[i].kin
       /\ log[i].id = "processCreate" /\ log[i].ppid = Target => log[i].kin = "child"
Logged ==
  /\ log \in Seq(Events) /\ proc \in [Pid -> Kinds \cup {"none"}]
  /\ clock \in Int /\ opened \in Int /\ queried \in Int
  /\ \A i \in DOMAIN log : log[i].time <= clock
  /\ \A p \in Pid : proc[p] = "target" => p = Target
  /\ \A i \in DOMAIN log :
       /\ log[i].id = "processCreate" /\ log[i].kin = "child" => log[i].ppid = Target
       /\ log[i].id # "processCreate" /\ log[i].kin = "target" => log[i].pid = Target
  /\ reused = {} => Known

(* The result is that of the answer to the query, or empty.                  *)
Returned ==
  /\ answer = "events" =>
       /\ phase = "done" /\ queried >= opened + Duration
       /\ \A i \in DOMAIN log : log[i].time <= queried
  /\ result = MapEvents(IF answer = "events" THEN Answer(queried - Reach) ELSE <<>>)

(* A process that starts another one makes it its child, and none the target. *)
LEMMA KinOfStarter ==
  ASSUME NEW k \in Kinds
  PROVE  KinOf(k) \in Kinds \ {"target"} /\ (KinOf(k) = "child" <=> k = "target")
BY DEF Kinds, KinOf

(* Every entry of Payload is an object and a field of events.                *)
LEMMA PayloadType ==
  ASSUME NEW id \in DOMAIN Payload, NEW pl \in Payload[id]
  PROVE  id \in EventIds /\ pl[1] \in Obj /\ pl[2] \in Vals
BY SysmonAssumption DEF SysmonAssumption, Vals

(* A new event at the end of the log.                                        *)
LEMMA LogGrows ==
  ASSUME log \in Seq(Events), NEW e \in Events, log' = Append(log, e)
  PROVE  /\ log' \in Seq(Events) /\ DOMAIN log' = (DOMAIN log) \cup {Len(log) + 1}
         /\ log'[Len(log) + 1] = e /\ \A i \in DOMAIN log : log'[i] = log[i]
OBVIOUS

(* Logged and Returned hold throughout.                                      *)
LEMMA LoggedAlways == Spec => [](Logged /\ Returned)
<1> DEFINE Inv == Logged /\ Returned
<1>0. Target \in Pid
  BY SysmonAssumption DEF SysmonAssumption
<1>1. Init => Inv
  <2> SUFFICES ASSUME Init PROVE Inv
    OBVIOUS
  <2>1. /\ proc \in [Pid -> {"none", "target", "child", "stranger"}] /\ log = <<>>
        /\ \A p \in Pid : proc[p] = "target" <=> p = Target
        /\ clock = 0 /\ opened = 0 /\ queried = 0 /\ answer = "none"
        /\ result = MapEvents(<<>>)
    BY DEF Init
  <2>2. proc \in [Pid -> Kinds \cup {"none"}] /\ log \in Seq(Events) /\ DOMAIN log = {}
    BY <2>1 DEF Kinds
  <2>3. Known
    BY <1>0, <2>1, <2>2 DEF Known
  <2> QED BY <2>1, <2>2, <2>3 DEF Logged, Returned
<1>2. Inv /\ [Next]_vars => Inv'
  <2> SUFFICES ASSUME Logged, Returned, [Next]_vars PROVE Inv'
    OBVIOUS
  <2>0. /\ log \in Seq(Events) /\ proc \in [Pid -> Kinds \cup {"none"}]
        /\ clock \in Int /\ opened \in Int /\ queried \in Int /\ Len(log) + 1 \notin DOMAIN log
        /\ \A i \in DOMAIN log : log[i] \in Events
    BY DEF Logged
  <2>1. CASE Begin
    <3>1. /\ UNCHANGED <<clock, queried, proc, reused, log, answer, result>> /\ opened' = clock
          /\ phase = "before" /\ phase' = "sleep"
      BY <2>1 DEF Begin
    <3> QED BY <2>0, <3>1 DEF Logged, Returned, Known
  <2>2. CASE Query
    <3>1. /\ UNCHANGED <<clock, opened, proc, reused, log>> /\ queried' = clock
          /\ clock >= opened + Duration
          /\ \/ /\ answer' = "events" /\ phase' = "done"
                /\ result' = MapEvents(Answer(clock - Reach))
             \/ answer' \in {"nothing", "error"} /\ result' = MapEvents(<<>>)
      BY <2>2 DEF Query
    <3>2. Logged'
      BY <2>0, <3>1 DEF Logged, Known
    <3>3. Answer(clock - Reach) = Answer(queried - Reach)'
      BY <3>1 DEF Answer, Since
    <3> QED BY <3>1, <3>2, <3>3 DEF Logged, Returned
  <2>3. CASE Running /\ Tick
    <3>1. /\ UNCHANGED <<phase, opened, queried, proc, reused, log, answer, result>>
          /\ clock' = clock + 1 /\ phase # "done"
      BY <2>3 DEF Tick, Running
    <3>2. \A i \in DOMAIN log' : log'[i].time <= clock'
      BY <2>0, <3>1 DEF Logged, Events
    <3> QED BY <2>0, <3>1, <3>2 DEF Logged, Returned, Known
  <2>4. ASSUME Running, NEW parent \in Pid, NEW p \in Pid, NEW pl \in Payload["processCreate"],
               Launch(parent, p, pl)
        PROVE  Inv'
    <3> DEFINE k == KinOf(proc[parent])
               n == Len(log) + 1
               e == [id |-> "processCreate", pid |-> p, ppid |-> parent, obj |-> pl[1],
                     val |-> pl[2], time |-> clock, kin |-> k]
    <3>1. /\ UNCHANGED <<phase, clock, opened, queried, answer, result>> /\ phase # "done"
          /\ log' = Append(log, e) /\ proc' = [proc EXCEPT ![p] = k] /\ p # parent
          /\ proc[parent] # "none"
          /\ reused' = IF proc[p] = "none" THEN reused ELSE reused \cup {p}
      BY <2>4 DEF Launch, Log, Running
    <3>2. /\ proc[parent] \in Kinds /\ k \in Kinds \ {"target"}
          /\ k = "child" <=> proc[parent] = "target"
      BY <2>0, <3>1, KinOfStarter
    <3>3. "processCreate" \in DOMAIN Payload
      BY SysmonAssumption DEF SysmonAssumption
    <3>4. "processCreate" \in EventIds /\ pl[1] \in Obj /\ pl[2] \in Vals
      BY <3>3, PayloadType
    <3> HIDE DEF k
    <3>5. e \in Events
      BY <2>0, <3>2, <3>4 DEF Events
    <3>6. /\ log' \in Seq(Events) /\ DOMAIN log' = (DOMAIN log) \cup {n}
          /\ log'[n] = e /\ \A i \in DOMAIN log : log'[i] = log[i]
      BY <2>0, <3>1, <3>5, LogGrows
    <3>7. e.id = "processCreate" /\ e.pid = p /\ e.ppid = parent /\ e.kin = k /\ e.time = clock
      OBVIOUS
    <3> HIDE DEF e, n
    <3>8. proc' \in [Pid -> Kinds \cup {"none"}] /\ proc'[p] = k
          /\ \A q \in Pid \ {p} : proc'[q] = proc[q]
      BY <2>0, <3>1, <3>2
    <3>9. \A q \in Pid : proc'[q] = "target" => q = Target
      BY <3>2, <3>8 DEF Logged
    <3>10. ASSUME NEW i \in DOMAIN log'
           PROVE  /\ log'[i].id = "processCreate" /\ log'[i].kin = "child" => log'[i].ppid = Target
                  /\ log'[i].id # "processCreate" /\ log'[i].kin = "target" => log'[i].pid = Target
      <4>1. CASE i \in DOMAIN log
        BY <3>6, <4>1 DEF Logged
      <4>2. CASE i = n
        <5>1. k = "child" => parent = Target
          BY <3>2 DEF Logged
        <5> QED BY <3>6, <3>7, <4>2, <5>1
      <4> QED BY <3>6, <4>1, <4>2
    <3>11. ASSUME reused' = {} PROVE Known'
      <4>1. reused = {} /\ proc[p] = "none"
        BY <3>1, <3>11
      <4>2. Known
        BY <4>1 DEF Logged
      <4>3. p # Target /\ proc'[Target] = "target"
        BY <1>0, <3>8, <4>1, <4>2 DEF Known
      <4>4. ASSUME NEW i \in DOMAIN log'
            PROVE  /\ proc'[log'[i].pid] = log'[i].kin
                   /\ log'[i].id = "processCreate" /\ log'[i].ppid = Target => log'[i].kin = "child"
        <5>1. CASE i \in DOMAIN log
          <6>1. log[i].pid \in Pid /\ log[i].kin \in Kinds /\ proc[log[i].pid] = log[i].kin
                /\ (log[i].id = "processCreate" /\ log[i].ppid = Target => log[i].kin = "child")
            BY <2>0, <4>2, <5>1 DEF Known, Events
          <6>2. log[i].pid # p
            BY <4>1, <6>1 DEF Kinds
          <6> QED BY <3>6, <3>8, <5>1, <6>1, <6>2
        <5>2. CASE i = n
          <6>1. parent = Target => k = "child"
            BY <3>2, <4>2 DEF Known
          <6> QED BY <3>6, <3>7, <3>8, <5>2, <6>1
        <5> QED BY <3>6, <5>1, <5>2
      <4> QED BY <4>3, <4>4 DEF Known
    <3>12. Logged'
      <4>1. \A i \in DOMAIN log' : log'[i].time <= clock'
        BY <2>0, <3>1, <3>6, <3>7 DEF Logged
      <4> QED BY <2>0, <3>1, <3>6, <3>8, <3>9, <3>10, <3>11, <4>1 DEF Logged
    <3>13. Returned'
      BY <3>1 DEF Returned
    <3> QED BY <3>12, <3>13
  <2>5. ASSUME Running, NEW p \in Pid, NEW id \in DOMAIN Payload, NEW pl \in Payload[id],
               Act(p, id, pl)
        PROVE  Inv'
    <3> DEFINE n == Len(log) + 1
               e == [id |-> id, pid |-> p, ppid |-> NoPid, obj |-> pl[1],
                     val |-> pl[2], time |-> clock, kin |-> proc[p]]
    <3>1. /\ UNCHANGED <<phase, clock, opened, queried, proc, reused, answer, result>> /\ phase # "done"
          /\ log' = Append(log, e) /\ proc[p] # "none" /\ id # "processCreate"
      BY <2>5 DEF Act, Log, Running
    <3>2. proc[p] \in Kinds /\ id \in EventIds /\ pl[1] \in Obj /\ pl[2] \in Vals
      BY <2>0, <3>1, PayloadType
    <3>3. e \in Events
      BY <2>0, <3>2 DEF Events
    <3>4. /\ log' \in Seq(Events) /\ DOMAIN log' = (DOMAIN log) \cup {n}
          /\ log'[n] = e /\ \A i \in DOMAIN log : log'[i] = log[i]
      BY <2>0, <3>1, <3>3, LogGrows
    <3>5. e.id = id /\ e.pid = p /\ e.kin = proc[p] /\ e.time = clock
      OBVIOUS
    <3> HIDE DEF e, n
    <3>6. ASSUME NEW i \in DOMAIN log'
          PROVE  /\ log'[i].id = "processCreate" /\ log'[i].kin = "child" => log'[i].ppid = Target
                 /\ log'[i].id # "processCreate" /\ log'[i].kin = "target" => log'[i].pid = Target
      <4>1. CASE i \in DOMAIN log
        BY <3>4, <4>1 DEF Logged
      <4>2. CASE i = n
        <5>1. proc[p] = "target" => p = Target
          BY DEF Logged
        <5> QED BY <3>1, <3>4, <3>5, <4>2, <5>1
      <4> QED BY <3>4, <4>1, <4>2
    <3>7. ASSUME reused' = {} PROVE Known'
      <4>1. Known
        BY <3>1, <3>7 DEF Logged
      <4>2. ASSUME NEW i \in DOMAIN log'
            PROVE  /\ proc[log'[i].pid] = log'[i].kin
                   /\ log'[i].id = "processCreate" /\ log'[i].ppid = Target => log'[i].kin = "child"
        <5>1. CASE i \in DOMAIN log
          BY <3>4, <4>1, <5>1 DEF Known
        <5>2. CASE i = n
          BY <3>1, <3>4, <3>5, <5>2
        <5> QED BY <3>4, <5>1, <5>2
      <4> QED BY <3>1, <4>1, <4>2 DEF Known
    <3>8. Logged'
      <4>1. \A i \in DOMAIN log' : log'[i].time <= clock'
        BY <2>0, <3>1, <3>4, <3>5 DEF Logged
      <4> QED BY <2>0, <3>1, <3>4, <3>6, <3>7, <4>1 DEF Logged
    <3>9. Returned'
      BY <3>1 DEF Returned
    <3> QED BY <3>8, <3>9
  <2>6. CASE UNCHANGED vars
    <3>1. Answer(queried - Reach)' = Answer(queried - Reach)
      BY <2>6 DEF vars, Answer, Since
    <3> QED BY <2>6, <3>1 DEF vars, Logged, Known, Returned
  <2> QED BY <2>1, <2>2, <2>3, <2>4, <2>5, <2>6 DEF Next
<1> QED BY <1>1, <1>2, PTL DEF Spec
----------------------------------------------------------------------------
(* The processes an answer makes the mapping follow.                         *)
LEMMA TrackedBack ==
  ASSUME log \in Seq(Events), NEW S \in SUBSET (DOMAIN log), NEW x
  PROVE  x \in Tracked(PickBack(log, S)) <=>
           \/ x = Target
           \/ \E j \in S : log[j].id = "processCreate" /\ log[j].ppid = Target /\ log[j].pid = x
<1>0. PICK A, at : A = PickBack(log, S) /\ at = InReverse(S)
  OBVIOUS
<1>1. /\ at \in [DOMAIN A -> S] /\ \A p \in DOMAIN A : A[p] = log[at[p]]
      /\ \A i \in S : \E p \in DOMAIN A : at[p] = i
  BY <1>0, AnswerBack
<1>2. x \in Tracked(A) <=>
        \/ x = Target
        \/ \E p \in DOMAIN A : A[p].id = "processCreate" /\ A[p].ppid = Target /\ A[p].pid = x
  BY DEF Tracked
<1>3. (\E p \in DOMAIN A : A[p].id = "processCreate" /\ A[p].ppid = Target /\ A[p].pid = x)
      <=> (\E j \in S : log[j].id = "processCreate" /\ log[j].ppid = Target /\ log[j].pid = x)
  BY <1>1
<1> QED BY <1>0, <1>2, <1>3

(* While no process id is handed out twice, an event the mapping attributes  *)
(* to the target was caused by it or by a process it started.                *)
LEMMA MineClose ==
  ASSUME Logged, reused = {}, NEW S \in SUBSET (DOMAIN log), NEW id, NEW i \in Mine(S, id)
  PROVE  i \in S /\ log[i].id = id /\ Close(log[i]) /\ log[i].obj \in Obj
<1>1. /\ i \in S /\ log[i].id = id /\ Attributed(PickBack(log, S), log[i])
      /\ log \in Seq(Events) /\ log[i] \in Events /\ Known
  BY DEF Mine, Logged
<1>2. CASE id = "processCreate"
  <2>1. log[i].kin = "child"
    BY <1>1, <1>2 DEF Attributed, Known, BySource
  <2> QED BY <1>1, <1>2, <2>1 DEF Close, Events
<1>3. CASE id \in BySource
  <2>1. id # "processCreate" /\ log[i].pid = Target
    BY <1>1, <1>3 DEF Attributed, BySource
  <2>2. log[i].kin = "target"
    BY <1>1, <2>1 DEF Known
  <2> QED BY <1>1, <1>3, <2>1, <2>2 DEF Close, Events
<1>4. CASE id # "processCreate" /\ id \notin BySource
  <2>1. log[i].pid \in Tracked(PickBack(log, S))
    BY <1>1, <1>4 DEF Attributed
  <2>2. \/ log[i].pid = Target
        \/ \E j \in S : /\ log[j].id = "processCreate" /\ log[j].ppid = Target
                        /\ log[j].pid = log[i].pid
    BY <1>1, <2>1, TrackedBack
  <2>3. log[i].kin \in {"target", "child"}
    BY <1>1, <2>2 DEF Known
  <2> QED BY <1>1, <1>4, <2>3 DEF Close, Events
<1> QED BY <1>2, <1>3, <1>4

(* Whatever happens to process ids, an event of the target is attributed to  *)
(* it, and so is one of a child whose start the answer holds.                *)
LEMMA CloseMine ==
  ASSUME Logged, NEW S \in SUBSET (DOMAIN log), NEW i \in S, Close(log[i]),
         log[i].id # "processCreate" /\ log[i].kin = "child" =>
           \E j \in S : /\ log[j].id = "processCreate" /\ log[j].pid = log[i].pid
                        /\ log[j].kin = "child"
  PROVE  i \in Mine(S, log[i].id)
<1>1. log \in Seq(Events)
  BY DEF Logged
<1>2. \A j \in DOMAIN log :
        /\ log[j].id = "processCreate" /\ log[j].kin = "child" => log[j].ppid = Target
        /\ log[j].id # "processCreate" /\ log[j].kin = "target" => log[j].pid = Target
  BY DEF Logged
<1> DEFINE e == log[i]
<1>3. Attributed(PickBack(log, S), e)
  <2>1. CASE e.id = "processCreate"
    BY <1>2, <2>1 DEF Close, Attributed, BySource
  <2>2. CASE e.id # "processCreate" /\ e.id \in BySource
    BY <1>2, <2>2 DEF Close, Attributed
  <2>3. CASE e.id # "processCreate" /\ e.id \notin BySource
    <3>1. \/ e.pid = Target
          \/ \E j \in S : /\ log[j].id = "processCreate" /\ log[j].ppid = Target
                          /\ log[j].pid = e.pid
      BY <1>2, <2>3 DEF Close
    <3>2. e.pid \in Tracked(PickBack(log, S))
      BY <1>1, <3>1, TrackedBack
    <3> QED BY <2>3, <3>2 DEF Attributed
  <2> QED BY <2>1, <2>2, <2>3
<1> QED BY <1>3 DEF Mine

(* What a sentence of the result rests on.                                   *)
LEMMA SelectionFinite ==
  ASSUME log \in Seq(Events), NEW S \in SUBSET (DOMAIN log)
  PROVE  IsFiniteSet(S) /\ \A T \in SUBSET S : /\ IsFiniteSet(T) /\ Cardinality(T) \in Nat
                                               /\ (Cardinality(T) = 0 <=> T = {})
<1>1. IsFiniteSet(S)
  BY AnswerBack
<1> QED BY <1>1, FS_Subset, FS_CardinalityType, FS_EmptySet

(* What the query reaches back to: never behind the margin, and if it comes  *)
(* soon enough, back to when the window opened.                              *)
LEMMA ReachBack ==
  ASSUME Logged, queried >= opened + Duration
  PROVE  /\ queried - Reach \in Int /\ queried - Reach >= opened - Margin
         /\ queried - (opened + Duration) <= Margin - (Duration % Second)
              => queried - Reach <= opened
<1>1. Duration \in Nat /\ Second \in Nat \ {0} /\ Margin \in Nat /\ opened \in Int /\ queried \in Int
  BY SysmonAssumption DEF SysmonAssumption, Logged
<1> DEFINE d == Duration \div Second
           m == Duration % Second
           x == d * Second
<1>2. Duration = Second * d + m
  BY <1>1, SMTT(60)
<1>3. d \in Nat /\ m \in Nat
  BY <1>1, SMTT(60)
<1> HIDE DEF d, m
<1>4. Second * d = x /\ x \in Nat
  BY <1>1, <1>3
<1>5. Reach = x + Margin
  BY DEF Reach, d
<1> HIDE DEF x
<1> QED BY <1>1, <1>2, <1>3, <1>4, <1>5 DEF m
----------------------------------------------------------------------------
(* Everything reported was done in reach of the query, from the margin before *)
(* the window to the query itself, and no more often.                        *)
THEOREM ReportedCorrect == Spec => []ReportedWasDone
<1>1. Logged /\ Returned => ReportedWasDone
  <2> SUFFICES ASSUME Logged, Returned, reused = {} PROVE ReportedWasDone
    BY DEF ReportedWasDone
  <2> DEFINE since == opened - Margin
  <2>0. PICK S, r : /\ S = IF answer = "events" THEN Since(queried - Reach) ELSE {}
                    /\ r = result
    OBVIOUS
  <2>1. /\ S \in SUBSET (DOMAIN log) /\ r = MapEvents(PickBack(log, S))
        /\ \A i \in S : since <= log[i].time /\ log[i].time <= queried
    <3>1. CASE answer = "events"
      <4>1. queried - Reach \in Int /\ queried - Reach >= since /\ opened \in Int
        BY <3>1, ReachBack DEF Returned, Logged
      <4>2. since \in Int
        BY <4>1, SysmonAssumption DEF SysmonAssumption
      <4>3. \A i \in DOMAIN log : log[i].time \in Int
        <5>1. \A i \in DOMAIN log : log[i] \in Events
          BY DEF Logged
        <5> QED BY <5>1 DEF Events
      <4> HIDE DEF since
      <4> QED BY <2>0, <3>1, <4>1, <4>2, <4>3 DEF Since, Returned, Answer
    <3>2. CASE answer # "events"
      <4>1. PickBack(log, {}) = <<>>
        BY FS_EmptySet DEF PickBack
      <4> QED BY <2>0, <3>2, <4>1 DEF Returned
    <3> QED BY <3>1, <3>2
  <2>2. log \in Seq(Events)
    BY DEF Logged
  <2> HIDE DEF since
  <2>3. ASSUME NEW id, NEW i \in Mine(S, id)
        PROVE  i \in Did(id, log[i].obj) /\ log[i].obj \in Obj
    BY <2>1, MineClose DEF Did, since
  <2>4. ASSUME NEW id, NEW T \in SUBSET Mine(S, id), NEW o, \A i \in T : log[i].obj = o
        PROVE  Cardinality(T) <= Cardinality(Did(id, o))
    <3>1. IsFiniteSet(DOMAIN log)
      BY <2>2, SelectionFinite
    <3>2. Did(id, o) \in SUBSET (DOMAIN log)
      BY DEF Did
    <3>3. IsFiniteSet(Did(id, o))
      BY <3>1, <3>2, FS_Subset
    <3>4. T \in SUBSET Did(id, o)
      BY <2>3, <2>4
    <3> QED BY <3>3, <3>4, FS_Subset
  <2>5. \A id : Newest(S, id) \in SUBSET Mine(S, id)
    BY DEF Newest
  <2> DEFINE Listed == r.keysCreated \cup r.keysDeleted
             Written == {o \in Obj : r.counted.registrySet[o] > 0}
  <2>6. Reports(r, S)
    <3>1. S \in SUBSET (DOMAIN log) /\ r = MapEvents(PickBack(log, S))
      BY <2>1
    <3> QED BY <2>2, <3>1, MapBack
  <2>7. \A c \in r.children : \E i \in Did("processCreate", c[1]) : log[i].val = c[2]
    <3> SUFFICES ASSUME NEW c \in r.children
                 PROVE  \E i \in Did("processCreate", c[1]) : log[i].val = c[2]
      OBVIOUS
    <3>1. PICK i \in Newest(S, "processCreate") : c = <<log[i].obj, log[i].val>>
      BY <2>6 DEF Reports
    <3> QED BY <2>3, <2>5, <3>1
  <2>8. \A id \in Deduped : \A o \in r.once[id] : Did(id, o) # {}
    <3> SUFFICES ASSUME NEW id \in Deduped, NEW o \in r.once[id] PROVE Did(id, o) # {}
      OBVIOUS
    <3>1. PICK i \in Newest(S, id) : o = log[i].obj
      BY <2>6 DEF Reports
    <3> QED BY <2>3, <2>5, <3>1
  <2>9. \A id \in DOMAIN r.counted : \A o \in Obj :
          r.counted[id][o] <= Cardinality(Did(id, o))
    <3> SUFFICES ASSUME NEW id \in DOMAIN r.counted, NEW o \in Obj
                 PROVE  r.counted[id][o] <= Cardinality(Did(id, o))
      OBVIOUS
    <3>1. \E T \in SUBSET Mine(S, id) :
            r.counted[id][o] = Cardinality(T) /\ \A i \in T : log[i].obj = o
      <4>1. CASE id = "network"
        <5> DEFINE T == {i \in Mine(S, "network") : log[i].obj = o /\ log[i].val = "initiated"}
        <5>1. r.counted[id][o] = Cardinality(T) /\ T \in SUBSET Mine(S, id)
              /\ \A i \in T : log[i].obj = o
          BY <2>6, <4>1 DEF Reports
        <5> QED BY <5>1
      <4>2. CASE id \in {"registrySet", "processAccess"}
        <5> DEFINE T == {i \in Mine(S, id) : log[i].obj = o}
        <5>1. r.counted[id][o] = Cardinality(T) /\ T \in SUBSET Mine(S, id)
              /\ \A i \in T : log[i].obj = o
          BY <2>6, <4>2 DEF Reports
        <5> QED BY <5>1
      <4> QED BY <2>6, <4>1, <4>2 DEF Reports
    <3> QED BY <2>4, <3>1
  <2>10. Listed = {log[i].obj : i \in Newest(S, "registryKey")}
    <3> DEFINE N == Newest(S, "registryKey")
               D == {j \in N : log[j].val = "delete"}
               C == {j \in N : log[j].val # "delete"}
    <3>1. N = D \cup C /\ Listed = {log[i].obj : i \in D} \cup {log[i].obj : i \in C}
      BY <2>6 DEF Reports
    <3> HIDE DEF D, C, N
    <3> QED BY <3>1 DEF N
  <2>11. \A o \in Listed : Did("registryKey", o) # {}
    <3> SUFFICES ASSUME NEW o \in Listed PROVE Did("registryKey", o) # {}
      OBVIOUS
    <3>1. PICK i \in Newest(S, "registryKey") : o = log[i].obj
      BY <2>10
    <3> QED BY <2>3, <2>5, <3>1
  <2>12. \A i \in Mine(S, "registrySet") : log[i].obj \in Written
    <3> SUFFICES ASSUME NEW i \in Mine(S, "registrySet") PROVE log[i].obj \in Written
      OBVIOUS
    <3> DEFINE o == log[i].obj
               T == {j \in Mine(S, "registrySet") : log[j].obj = o}
    <3>1. o \in Obj /\ T \in SUBSET S /\ i \in T
      BY <2>1, MineClose DEF Mine
    <3>2. r.counted["registrySet"][o] = Cardinality(T)
      BY <2>6, <3>1 DEF Reports
    <3> HIDE DEF T, o
    <3>3. Cardinality(T) \in Nat /\ Cardinality(T) # 0
      BY <2>1, <2>2, <3>1, SelectionFinite
    <3> QED BY <3>1, <3>2, <3>3 DEF o
  <2>13. /\ r.persistence => (Listed \cup Written) \cap PersistenceKeys # {}
         /\ r.weakened => (Listed \cup Written) \cap WeakeningKeys # {}
    <3>1. PICK touched :
             /\ touched = {log[i].obj : i \in Newest(S, "registryKey")}
                            \cup {log[i].obj : i \in Mine(S, "registrySet")}
             /\ r.persistence <=> touched \cap PersistenceKeys # {}
             /\ r.weakened <=> touched \cap WeakeningKeys # {}
      BY <2>6 DEF Reports
    <3> HIDE DEF Listed, Written
    <3>2. touched \subseteq Listed \cup Written
      BY <2>10, <2>12, <3>1
    <3> QED BY <3>1, <3>2
  <2>14. r.injection => \E o \in Obj : Did("remoteThread", o) # {}
    <3>1. ASSUME r.injection PROVE \E i : i \in Mine(S, "remoteThread")
      BY <2>6, <3>1 DEF Reports
    <3> QED BY <2>3, <3>1
  <2> HIDE DEF Listed, Written
  <2> QED
    BY <2>0, <2>7, <2>8, <2>9, <2>11, <2>13, <2>14 DEF ReportedWasDone, Listed, Written
<1> QED BY <1>1, LoggedAlways, PTL
(* In what a query in time holds, everything is represented.                 *)
LEMMA MineRepresented ==
  ASSUME Logged, Returned, answer = "events", NEW i \in Since(queried - Reach),
         i \in Mine(Since(queried - Reach), log[i].id)
  PROVE  Represented(log[i])
<1>0. PICK S, r, e : S = Since(queried - Reach) /\ r = result /\ e = log[i]
  OBVIOUS
<1>1. log \in Seq(Events) /\ S \in SUBSET (DOMAIN log) /\ i \in Mine(S, e.id) /\ i \in S
  BY <1>0 DEF Logged, Since, Mine
<1>2. e \in Events
  BY <1>0, <1>1
<1>3. r = MapEvents(PickBack(log, S))
  BY <1>0 DEF Returned, Answer
<1>4. Reports(r, S)
  BY <1>1, <1>3, MapBack
<1>5. PICK j \in Newest(S, e.id) : log[j].obj = e.obj
  <2>1. \E j \in Newest(S, e.id) : log[j].obj = log[i].obj
    BY <1>1, NewestExists
  <2>2. e.obj = log[i].obj
    BY <1>0
  <2> QED BY <2>1, <2>2, Zenon
<1>6. CASE e.id = "processCreate"
  <2>1. <<log[j].obj, log[j].val>> \in r.children
    BY <1>4, <1>5, <1>6 DEF Reports
  <2>2. \E c \in r.children : c[1] = e.obj
    BY <1>5, <2>1
  <2> QED BY <1>0, <1>6, <2>2 DEF Represented, Deduped
<1>7. CASE e.id \in Deduped
  BY <1>0, <1>4, <1>5, <1>7 DEF Reports, Represented, Deduped
<1>8. CASE e.id = "registryKey"
  <2> DEFINE N == Newest(S, "registryKey")
  <2>1. j \in N /\ (log[j].val = "delete" \/ log[j].val # "delete")
    BY <1>5, <1>8
  <2>2. e.obj \in r.keysCreated \cup r.keysDeleted
    BY <1>4, <1>5, <2>1 DEF Reports
  <2> QED BY <1>0, <1>8, <2>2 DEF Represented, Deduped
<1>9. CASE e.id = "remoteThread"
  BY <1>0, <1>1, <1>4, <1>9 DEF Reports, Represented, Deduped
<1>10. CASE e.id = "network"
  <2> SUFFICES ASSUME e.val = "initiated" PROVE r.counted["network"][e.obj] > 0
    BY <1>0, <1>10 DEF Represented, Deduped
  <2> DEFINE T == {k \in Mine(S, "network") : log[k].obj = e.obj /\ log[k].val = "initiated"}
  <2>1. T \in SUBSET S /\ i \in T /\ e.obj \in Obj
    BY <1>0, <1>1, <1>2, <1>10 DEF Mine, Events
  <2>2. r.counted["network"][e.obj] = Cardinality(T)
    BY <1>4, <2>1 DEF Reports
  <2> HIDE DEF T
  <2>3. Cardinality(T) \in Nat /\ Cardinality(T) # 0
    BY <1>1, <2>1, SelectionFinite
  <2> QED BY <2>2, <2>3
<1>11. CASE e.id \in {"registrySet", "processAccess"}
  <2> DEFINE T == {k \in Mine(S, e.id) : log[k].obj = e.obj}
  <2>1. T \in SUBSET S /\ i \in T /\ e.obj \in Obj
    BY <1>0, <1>1, <1>2 DEF Mine, Events
  <2>2. r.counted[e.id][e.obj] = Cardinality(T)
    BY <1>4, <1>11, <2>1 DEF Reports
  <2> HIDE DEF T
  <2>3. Cardinality(T) \in Nat /\ Cardinality(T) # 0
    BY <1>1, <2>1, SelectionFinite
  <2>4. r.counted[e.id][e.obj] > 0
    BY <2>2, <2>3
  <2> QED BY <1>0, <1>11, <2>4 DEF Represented, Deduped
<1>12. e.id \in {"processCreate", "network", "registryKey", "registrySet", "remoteThread",
                 "processAccess"} \cup Deduped
  BY <1>2 DEF Events, EventIds, BySource
<1> QED BY <1>6, <1>7, <1>8, <1>9, <1>10, <1>11, <1>12, <1>0

(* A query that reads the log and starts soon enough after the sleep misses  *)
(* nothing.                                                                  *)
THEOREM CoverageCorrect == Spec => []WindowCovered
<1>1. Logged /\ Returned => WindowCovered
  <2> SUFFICES ASSUME Logged, Returned, answer = "events",
                      queried - (opened + Duration) <= Margin - (Duration % Second),
                      NEW i \in DOMAIN log, InWindow(log[i]), Close(log[i]),
                      log[i].kin = "child" => Reached(log[i].pid)
      PROVE  Represented(log[i])
    BY DEF WindowCovered
  <2> DEFINE from == queried - Reach
  <2>1. from \in Int /\ from <= opened /\ opened \in Int
    BY ReachBack DEF Returned, Logged
  <2>2. log[i] \in Events
    BY DEF Logged
  <2>3. log[i].time \in Int
    BY <2>2 DEF Events
  <2> HIDE DEF from
  <2>4. i \in Since(from)
    BY <2>1, <2>3 DEF InWindow, Since
  <2>5. Since(from) \in SUBSET (DOMAIN log)
    BY DEF Since
  <2>6. i \in Mine(Since(from), log[i].id)
    <3>1. PICK S : S = Since(from)
      OBVIOUS
    <3>2. log[i].kin = "child" =>
            \E j \in S : /\ log[j].id = "processCreate" /\ log[j].pid = log[i].pid
                         /\ log[j].kin = "child"
      BY <3>1 DEF Reached, from
    <3>3. S \in SUBSET (DOMAIN log) /\ i \in S
      BY <2>4, <2>5, <3>1
    <3>4. i \in Mine(S, log[i].id)
      BY <3>2, <3>3, CloseMine
    <3> QED BY <3>1, <3>4
  <2>7. from = queried - Reach
    BY DEF from
  <2> QED BY <2>4, <2>6, <2>7, MineRepresented
<1> QED BY <1>1, LoggedAlways, PTL

(* Registry keys are listed as they were left, children with the image they  *)
(* were last started from, even if process ids are handed out twice; given   *)
(* that the query reads the log, newest event first.                         *)
THEOREM LastCorrect == Spec => []ListsShowTheLast
<1>1. Logged /\ Returned => ListsShowTheLast
  <2> SUFFICES ASSUME Logged, Returned, answer = "events", NEW i \in Since(queried - Reach),
                      \A j \in DOMAIN log :
                        log[j].id = log[i].id /\ log[j].obj = log[i].obj => j <= i,
                      Close(log[i])
      PROVE  /\ log[i].id = "registryKey" /\ (log[i].kin = "child" => Reached(log[i].pid)) =>
                  log[i].obj \in (IF log[i].val = "delete" THEN result.keysDeleted
                                                            ELSE result.keysCreated)
             /\ log[i].id = "processCreate" => <<log[i].obj, log[i].val>> \in result.children
    BY DEF ListsShowTheLast
  <2>0. PICK S, r, e : S = Since(queried - Reach) /\ r = result /\ e = log[i]
    OBVIOUS
  <2>1. log \in Seq(Events) /\ S \in SUBSET (DOMAIN log) /\ i \in S
    BY <2>0 DEF Logged, Since
  <2>2. r = MapEvents(PickBack(log, S))
    BY <2>0 DEF Returned, Answer
  <2>3. Reports(r, S)
    BY <2>1, <2>2, MapBack
  <2>4. i \in Mine(S, e.id) => i \in Newest(S, e.id)
    BY <2>0, <2>1 DEF Newest, Mine
  <2>5. ASSUME e.id = "registryKey", e.kin = "child" => Reached(e.pid)
        PROVE  e.obj \in (IF e.val = "delete" THEN r.keysDeleted ELSE r.keysCreated)
    <3>1. i \in Mine(S, e.id)
      BY <2>0, <2>1, <2>5, CloseMine DEF Reached
    <3>2. i \in Newest(S, "registryKey")
      BY <2>4, <2>5, <3>1
    <3>3. e.val = "delete" => e.obj \in r.keysDeleted
      BY <2>0, <2>3, <3>2 DEF Reports
    <3>4. e.val # "delete" => e.obj \in r.keysCreated
      BY <2>0, <2>3, <3>2 DEF Reports
    <3> QED BY <3>3, <3>4
  <2>6. ASSUME e.id = "processCreate" PROVE <<e.obj, e.val>> \in r.children
    <3>1. i \in Mine(S, e.id)
      BY <2>0, <2>1, <2>6, CloseMine
    <3>2. i \in Newest(S, "processCreate")
      BY <2>4, <2>6, <3>1
    <3> QED BY <2>0, <2>3, <3>2 DEF Reports
  <2> QED BY <2>0, <2>5, <2>6
<1> QED BY <1>1, LoggedAlways, PTL
=============================================================================
