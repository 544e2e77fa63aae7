--------------------------- MODULE Ordered_proofs ---------------------------
(***************************************************************************)
(* What sorting and selection return, for every sequence.                  *)
(***************************************************************************)
EXTENDS Ordered, FiniteSetTheorems, WellFoundedInduction, TLAPS

(* Every set of numbers that has an element has a smallest one.              *)
LEMMA SmallestOf ==
  ASSUME NEW S, S \subseteq Nat, NEW x \in S
  PROVE  \E i \in S : \A j \in S : i <= j
<1> DEFINE R == {p \in Nat \X Nat : p[1] < p[2]}
<1>1. IsWellFoundedOn(R, Nat)
  BY NatLessThanWellFounded DEF OpToRel
<1>2. \A i, j \in Nat : <<i, j>> \in R <=> i < j
  OBVIOUS
<1> HIDE DEF R
<1>3. PICK i \in S : \A j \in S : ~(<<j, i>> \in R)
  BY <1>1, WFMin
<1>4. \A j \in S : i <= j
  <2> TAKE j \in S
  <2>1. i \in Nat /\ j \in Nat
    OBVIOUS
  <2>2. ~(j < i)
    BY <2>1, <1>2, <1>3
  <2> QED BY <2>1, <2>2
<1> QED BY <1>4

(* R puts the elements of S one after the other.                             *)
TotalOn(S, R) ==
  /\ \A x \in S : <<x, x>> \notin R
  /\ \A x, y, z \in S : <<x, y>> \in R /\ <<y, z>> \in R => <<x, z>> \in R
  /\ \A x, y \in S : x # y => <<x, y>> \in R \/ <<y, x>> \in R

(* The further back an element is the higher its place, and there are as     *)
(* many places as elements.                                                  *)
LEMMA PlacesFit ==
  ASSUME NEW S, IsFiniteSet(S), NEW R, TotalOn(S, R)
  PROVE  /\ Place(S, R) \in Injection(S, 1 .. Cardinality(S))
         /\ \A x, y \in S : <<x, y>> \in R => Place(S, R)[x] < Place(S, R)[y]
<1> DEFINE Below(x) == {y \in S : <<y, x>> \in R}
           n == Cardinality(S)
           f == Place(S, R)
<1>1. n \in Nat
  BY FS_CardinalityType
<1>2. \A x \in S : f[x] = 1 + Cardinality(Below(x))
  BY DEF Place
<1>3. ASSUME NEW x \in S PROVE IsFiniteSet(Below(x)) /\ Cardinality(Below(x)) \in Nat
  <2>1. Below(x) \in SUBSET S
    OBVIOUS
  <2> HIDE DEF Below
  <2>2. IsFiniteSet(Below(x))
    BY <2>1, FS_Subset
  <2> QED BY <2>2, FS_CardinalityType
<1>4. ASSUME NEW x \in S PROVE f[x] \in 1 .. n
  <2>1. Below(x) \in SUBSET S /\ x \notin Below(x)
    BY DEF TotalOn
  <2> HIDE DEF Below
  <2>2. Cardinality(Below(x)) <= n /\ Cardinality(Below(x)) # n
    BY <2>1, FS_Subset
  <2> HIDE DEF n, f
  <2> QED BY <1>1, <1>2, <1>3, <2>2
<1>5. ASSUME NEW x \in S, NEW y \in S, <<x, y>> \in R PROVE f[x] < f[y]
  <2>1. Below(x) \in SUBSET Below(y) /\ x \in Below(y) /\ x \notin Below(x)
    BY <1>5 DEF TotalOn
  <2>2. IsFiniteSet(Below(y)) /\ Cardinality(Below(x)) \in Nat /\ Cardinality(Below(y)) \in Nat
    BY <1>3
  <2> HIDE DEF Below
  <2>3. Cardinality(Below(x)) <= Cardinality(Below(y))
        /\ Cardinality(Below(x)) # Cardinality(Below(y))
    BY <2>1, <2>2, FS_Subset
  <2> HIDE DEF f
  <2> QED BY <1>2, <2>2, <2>3
<1>6. f \in [S -> 1 .. n]
  BY <1>4 DEF Place
<1>7. \A x, y \in S : f[x] = f[y] => x = y
  <2> SUFFICES ASSUME NEW x \in S, NEW y \in S, x # y PROVE f[x] # f[y]
    OBVIOUS
  <2>1. <<x, y>> \in R \/ <<y, x>> \in R
    BY DEF TotalOn
  <2>2. f[x] \in 1 .. n /\ f[y] \in 1 .. n
    BY <1>4
  <2> HIDE DEF f
  <2> QED BY <1>1, <1>5, <2>1, <2>2
<1> HIDE DEF f, n
<1>8. IsInjective(f)
  BY <1>6, <1>7 DEF IsInjective
<1> QED BY <1>5, <1>6, <1>8 DEF f, n, Injection

(* Arranged lists every element once, in the order of R.                     *)
LEMMA ArrangedAll ==
  ASSUME NEW S, IsFiniteSet(S), NEW R, TotalOn(S, R)
  PROVE  /\ Cardinality(S) \in Nat
         /\ Arranged(S, R) \in [1 .. Cardinality(S) -> S]
         /\ \A p, q \in 1 .. Cardinality(S) :
              p < q <=> <<Arranged(S, R)[p], Arranged(S, R)[q]>> \in R
         /\ \A x \in S : \E p \in 1 .. Cardinality(S) : Arranged(S, R)[p] = x
<1> DEFINE n == Cardinality(S)
           f == Place(S, R)
           a == Arranged(S, R)
<1>1. n \in Nat /\ IsFiniteSet(1 .. n) /\ Cardinality(1 .. n) = n
  <2>1. n \in Nat
    BY FS_CardinalityType
  <2> HIDE DEF n
  <2>2. IsFiniteSet(1 .. n) /\ Cardinality(1 .. n) = IF 1 > n THEN 0 ELSE n - 1 + 1
    BY <2>1, FS_Interval
  <2> QED BY <2>1, <2>2
<1>2. f \in Injection(S, 1 .. n) /\ \A x, y \in S : <<x, y>> \in R => f[x] < f[y]
  BY PlacesFit
<1>3. a = [p \in 1 .. n |-> CHOOSE x \in S : f[x] = p]
  BY DEF Arranged
<1> HIDE DEF n, f, a
<1>4. f \in Surjection(S, 1 .. n)
  BY <1>1, <1>2, FS_Injection DEF n
<1>5. f \in [S -> 1 .. n] /\ (\A p \in 1 .. n : \E x \in S : f[x] = p)
      /\ (\A x, y \in S : f[x] = f[y] => x = y)
  BY <1>2, <1>4 DEF Surjection, Injection, IsInjective
<1>6. \A p \in 1 .. n : a[p] \in S /\ f[a[p]] = p
  BY <1>3, <1>5
<1>7. a \in [1 .. n -> S]
  BY <1>3, <1>6
<1>8. ASSUME NEW x \in S PROVE f[x] \in 1 .. n /\ a[f[x]] = x
  BY <1>5, <1>6
<1>9. ASSUME NEW p \in 1 .. n, NEW q \in 1 .. n PROVE p < q <=> <<a[p], a[q]>> \in R
  <2>1. /\ a[p] \in S /\ a[q] \in S /\ f[a[p]] = p /\ f[a[q]] = q
    BY <1>6
  <2>2. <<a[p], a[q]>> \in R => p < q
    BY <1>2, <2>1
  <2>3. p < q => <<a[p], a[q]>> \in R
    <3> SUFFICES ASSUME p < q PROVE <<a[p], a[q]>> \in R
      OBVIOUS
    <3>1. a[p] # a[q]
      BY <1>1, <2>1
    <3>2. <<a[p], a[q]>> \in R \/ <<a[q], a[p]>> \in R
      BY <2>1, <3>1 DEF TotalOn
    <3>3. <<a[q], a[p]>> \in R => q < p
      BY <1>2, <2>1
    <3> QED BY <1>1, <3>2, <3>3
  <2> QED BY <2>2, <2>3
<1> QED BY <1>1, <1>7, <1>8, <1>9 DEF a, n
----------------------------------------------------------------------------
(* Positions are in order.                                                   *)
LEMMA AscendingTotal ==
  ASSUME NEW I \in SUBSET Nat
  PROVE  TotalOn(I, Ascending(I))
BY DEF TotalOn, Ascending

(* Pick returns the elements at the positions asked for, each once and in    *)
(* their order, and nothing else.                                            *)
LEMMA PickAll ==
  ASSUME NEW T, NEW s \in Seq(T), NEW I \in SUBSET (DOMAIN s)
  PROVE  /\ IsFiniteSet(I) /\ Cardinality(I) \in Nat
         /\ Pick(s, I) \in Seq(T) /\ Len(Pick(s, I)) = Cardinality(I)
         /\ DOMAIN Pick(s, I) = 1 .. Cardinality(I)
         /\ InOrder(I) \in [1 .. Cardinality(I) -> I]
         /\ \A p \in 1 .. Cardinality(I) : Pick(s, I)[p] = s[InOrder(I)[p]]
         /\ \A p, q \in 1 .. Cardinality(I) : p < q => InOrder(I)[p] < InOrder(I)[q]
         /\ \A i \in I : \E p \in 1 .. Cardinality(I) : InOrder(I)[p] = i
<1> DEFINE n == Cardinality(I)
           at == InOrder(I)
<1>1. DOMAIN s = 1 .. Len(s) /\ Len(s) \in Nat /\ \A i \in DOMAIN s : s[i] \in T
  OBVIOUS
<1>2. IsFiniteSet(I) /\ I \in SUBSET Nat
  <2>1. IsFiniteSet(1 .. Len(s))
    BY <1>1, FS_Interval
  <2> QED BY <1>1, <2>1, FS_Subset
<1>3. /\ n \in Nat /\ at \in [1 .. n -> I]
      /\ \A p, q \in 1 .. n : p < q <=> <<at[p], at[q]>> \in Ascending(I)
      /\ \A i \in I : \E p \in 1 .. n : at[p] = i
  BY <1>2, AscendingTotal, ArrangedAll DEF InOrder
<1>4. Pick(s, I) = [p \in 1 .. n |-> s[at[p]]]
  BY DEF Pick
<1> HIDE DEF n, at
<1>5. \A p, q \in 1 .. n : p < q => at[p] < at[q]
  BY <1>3 DEF Ascending
<1>6. Pick(s, I) \in [1 .. n -> T]
  BY <1>1, <1>3, <1>4
<1>7. Pick(s, I) \in Seq(T) /\ Len(Pick(s, I)) = n /\ DOMAIN Pick(s, I) = 1 .. n
  BY <1>3, <1>6
<1>8. \A p \in 1 .. n : Pick(s, I)[p] = s[at[p]]
  BY <1>4
<1> QED BY <1>2, <1>3, <1>5, <1>7, <1>8 DEF n, at

(* And so are they from the last to the first.                               *)
LEMMA DescendingTotal ==
  ASSUME NEW I \in SUBSET Nat
  PROVE  TotalOn(I, Descending(I))
BY DEF TotalOn, Descending

(* PickBack returns the same from the last to the first.                     *)
LEMMA PickBackAll ==
  ASSUME NEW T, NEW s \in Seq(T), NEW I \in SUBSET (DOMAIN s)
  PROVE  /\ IsFiniteSet(I) /\ Cardinality(I) \in Nat
         /\ PickBack(s, I) \in Seq(T) /\ Len(PickBack(s, I)) = Cardinality(I)
         /\ DOMAIN PickBack(s, I) = 1 .. Cardinality(I)
         /\ InReverse(I) \in [1 .. Cardinality(I) -> I]
         /\ \A p \in 1 .. Cardinality(I) : PickBack(s, I)[p] = s[InReverse(I)[p]]
         /\ \A p, q \in 1 .. Cardinality(I) : p < q => InReverse(I)[p] > InReverse(I)[q]
         /\ \A i \in I : \E p \in 1 .. Cardinality(I) : InReverse(I)[p] = i
<1> DEFINE n == Cardinality(I)
           at == InReverse(I)
<1>1. DOMAIN s = 1 .. Len(s) /\ Len(s) \in Nat /\ \A i \in DOMAIN s : s[i] \in T
  OBVIOUS
<1>2. IsFiniteSet(I) /\ I \in SUBSET Nat
  <2>1. IsFiniteSet(1 .. Len(s))
    BY <1>1, FS_Interval
  <2> QED BY <1>1, <2>1, FS_Subset
<1>3. /\ n \in Nat /\ at \in [1 .. n -> I]
      /\ \A p, q \in 1 .. n : p < q <=> <<at[p], at[q]>> \in Descending(I)
      /\ \A i \in I : \E p \in 1 .. n : at[p] = i
  BY <1>2, DescendingTotal, ArrangedAll DEF InReverse
<1>4. PickBack(s, I) = [p \in 1 .. n |-> s[at[p]]]
  BY DEF PickBack
<1> HIDE DEF n, at
<1>5. \A p, q \in 1 .. n : p < q => at[p] > at[q]
  BY <1>3 DEF Descending
<1>6. PickBack(s, I) \in [1 .. n -> T]
  BY <1>1, <1>3, <1>4
<1>7. PickBack(s, I) \in Seq(T) /\ Len(PickBack(s, I)) = n /\ DOMAIN PickBack(s, I) = 1 .. n
  BY <1>3, <1>6
<1>8. \A p \in 1 .. n : PickBack(s, I)[p] = s[at[p]]
  BY <1>4
<1> QED BY <1>2, <1>3, <1>5, <1>7, <1>8 DEF n, at

(* `before` orders the positions I up to ties.                               *)
WeakOn(I, before) ==
  /\ \A i, j \in I : <<i, j>> \in before => <<j, i>> \notin before
  /\ \A i, j, k \in I : <<i, k>> \in before => <<i, j>> \in before \/ <<j, k>> \in before

(* Leaving ties as they stand decides between every two positions.           *)
LEMMA StablyTotal ==
  ASSUME NEW I \in SUBSET Nat, NEW before, WeakOn(I, before)
  PROVE  TotalOn(I, Stably(I, before))
<1> DEFINE R == Stably(I, before)
<1>1. ASSUME NEW i \in I, NEW j \in I
      PROVE  <<i, j>> \in R <=> \/ <<i, j>> \in before
                                \/ <<j, i>> \notin before /\ i < j
  <2> DEFINE q == <<i, j>>
  <2>1. q \in I \X I /\ q[1] = i /\ q[2] = j
    OBVIOUS
  <2>2. q \in R <=> \/ q \in before
                    \/ <<q[2], q[1]>> \notin before /\ q[1] < q[2]
    <3> HIDE DEF q
    <3> QED BY <2>1 DEF Stably
  <2> HIDE DEF R
  <2> QED BY <2>1, <2>2
<1> HIDE DEF R
<1>2. ASSUME NEW i \in I, NEW j \in I, NEW k \in I, <<i, j>> \in R, <<j, k>> \in R
      PROVE  <<i, k>> \in R
  <2>1. <<i, j>> \in before \/ (<<j, i>> \notin before /\ i < j)
    BY <1>1, <1>2
  <2>2. <<j, k>> \in before \/ (<<k, j>> \notin before /\ j < k)
    BY <1>1, <1>2
  <2>3. /\ <<k, i>> \in before => <<k, j>> \in before \/ <<j, i>> \in before
        /\ <<i, j>> \in before => <<i, k>> \in before \/ <<k, j>> \in before
        /\ <<j, k>> \in before => <<j, i>> \in before \/ <<i, k>> \in before
        /\ <<i, j>> \in before => <<j, i>> \notin before
        /\ <<j, k>> \in before => <<k, j>> \notin before
    BY DEF WeakOn
  <2>4. <<i, k>> \in before => <<i, k>> \in R
    BY <1>1
  <2>5. <<k, i>> \notin before /\ i < k => <<i, k>> \in R
    BY <1>1
  <2>6. i < j /\ j < k => i < k
    OBVIOUS
  <2> QED BY <2>1, <2>2, <2>3, <2>4, <2>5, <2>6, Zenon
<1>3. ASSUME NEW i \in I, NEW j \in I, i # j
      PROVE  <<i, j>> \in R \/ <<j, i>> \in R
  <2>1. i < j \/ j < i
    BY <1>3
  <2>2. i < j => <<i, j>> \in R \/ <<j, i>> \in R
    BY <1>1
  <2>3. j < i => <<i, j>> \in R \/ <<j, i>> \in R
    BY <1>1
  <2> QED BY <2>1, <2>2, <2>3
<1>4. ASSUME NEW i \in I PROVE <<i, i>> \notin R
  BY <1>1 DEF WeakOn
<1> QED BY <1>2, <1>3, <1>4, Zenon DEF TotalOn, R

(* A stable sort permutes the sequence, brings what `before` orders in order *)
(* and leaves ties as they were.                                             *)
LEMMA StableSortAll ==
  ASSUME NEW T, NEW s \in Seq(T), NEW I, I = DOMAIN s, NEW before, WeakOn(I, before)
  PROVE  /\ StableSort(s, before) \in Seq(T) /\ Len(StableSort(s, before)) = Len(s)
         /\ DOMAIN StableSort(s, before) = I
         /\ Origin(s, before) \in [I -> I]
         /\ \A p \in I : StableSort(s, before)[p] = s[Origin(s, before)[p]]
         /\ \A p, q \in I : p < q => <<Origin(s, before)[q], Origin(s, before)[p]>> \notin before
         /\ \A p, q \in I : p # q => Origin(s, before)[p] # Origin(s, before)[q]
         /\ \A i \in I : \E p \in I : Origin(s, before)[p] = i
<1> DEFINE R == Stably(I, before)
           at == Origin(s, before)
<1>1. I = 1 .. Len(s) /\ Len(s) \in Nat /\ I \in SUBSET Nat /\ \A i \in I : s[i] \in T
  OBVIOUS
<1>2. IsFiniteSet(I) /\ Cardinality(I) = Len(s)
  <2> DEFINE n == Len(s)
  <2>1. n \in Nat
    OBVIOUS
  <2> HIDE DEF n
  <2>2. IsFiniteSet(1 .. n) /\ Cardinality(1 .. n) = IF 1 > n THEN 0 ELSE n - 1 + 1
    BY <2>1, FS_Interval
  <2>3. Cardinality(1 .. n) = n
    BY <2>1, <2>2
  <2> QED BY <1>1, <2>2, <2>3 DEF n
<1>3. StableSort(s, before) = [p \in I |-> s[at[p]]]
  BY DEF StableSort
<1>4. TotalOn(I, R)
  BY <1>1, StablyTotal
<1> HIDE DEF R
<1>5. /\ at \in [1 .. Cardinality(I) -> I]
      /\ \A p, q \in 1 .. Cardinality(I) : p < q <=> <<at[p], at[q]>> \in R
      /\ \A i \in I : \E p \in 1 .. Cardinality(I) : at[p] = i
  <2>1. at = Arranged(I, R)
    BY DEF Origin, R
  <2> HIDE DEF at
  <2> QED BY <1>2, <1>4, <2>1, ArrangedAll
<1>6. /\ at \in [I -> I] /\ \A p, q \in I : p < q <=> <<at[p], at[q]>> \in R
      /\ \A i \in I : \E p \in I : at[p] = i
  BY <1>1, <1>2, <1>5
<1> HIDE DEF at
<1>7. StableSort(s, before) \in [I -> T]
  BY <1>1, <1>3, <1>6
<1>8. /\ StableSort(s, before) \in Seq(T) /\ Len(StableSort(s, before)) = Len(s)
      /\ DOMAIN StableSort(s, before) = I
  BY <1>1, <1>7
<1>9. \A p, q \in I : p < q => <<at[q], at[p]>> \notin before
  BY <1>6 DEF R, Stably, WeakOn
<1>10. \A p, q \in I : p # q => at[p] # at[q]
  <2> SUFFICES ASSUME NEW p \in I, NEW q \in I, p # q PROVE at[p] # at[q]
    OBVIOUS
  <2>1. p < q \/ q < p
    BY <1>1
  <2>2. <<at[p], at[q]>> \in R \/ <<at[q], at[p]>> \in R
    BY <1>6, <2>1
  <2> QED BY <1>4, <1>6, <2>2 DEF TotalOn
<1>11. \A p \in I : StableSort(s, before)[p] = s[at[p]]
  BY <1>3
<1> QED BY <1>6, <1>8, <1>9, <1>10, <1>11 DEF at

----------------------------------------------------------------------------
(* Sequences one of which has every element of the other at least as often. *)

Embeds(s, t) ==
  \E f \in [DOMAIN s -> DOMAIN t] :
    /\ \A i, j \in DOMAIN s : f[i] = f[j] => i = j
    /\ \A i \in DOMAIN s : t[f[i]] = s[i]

(* A sequence has its own elements, and what it has of another that one has  *)
(* of a third.                                                               *)
LEMMA EmbedsThrough ==
  ASSUME NEW s, NEW t, NEW u
  PROVE  /\ Embeds(s, s)
         /\ Embeds(s, t) /\ Embeds(t, u) => Embeds(s, u)
<1>1. Embeds(s, s)
  <2> DEFINE f == [i \in DOMAIN s |-> i]
  <2>1. f \in [DOMAIN s -> DOMAIN s]
    OBVIOUS
  <2> QED BY <2>1 DEF Embeds
<1>2. ASSUME Embeds(s, t), Embeds(t, u) PROVE Embeds(s, u)
  <2>1. PICK f \in [DOMAIN s -> DOMAIN t] :
          /\ \A i, j \in DOMAIN s : f[i] = f[j] => i = j
          /\ \A i \in DOMAIN s : t[f[i]] = s[i]
    BY <1>2 DEF Embeds
  <2>2. PICK g \in [DOMAIN t -> DOMAIN u] :
          /\ \A i, j \in DOMAIN t : g[i] = g[j] => i = j
          /\ \A i \in DOMAIN t : u[g[i]] = t[i]
    BY <1>2 DEF Embeds
  <2> DEFINE h == [i \in DOMAIN s |-> g[f[i]]]
  <2>3. h \in [DOMAIN s -> DOMAIN u]
    OBVIOUS
  <2>4. /\ \A i, j \in DOMAIN s : h[i] = h[j] => i = j
        /\ \A i \in DOMAIN s : u[h[i]] = s[i]
    BY <2>1, <2>2
  <2> HIDE DEF h
  <2> QED BY <2>3, <2>4 DEF Embeds
<1> QED BY <1>1, <1>2

(* Appending sequences that have more gives one that has more.               *)
LEMMA EmbedsJoined ==
  ASSUME NEW T, NEW s \in Seq(T), NEW t \in Seq(T), NEW u \in Seq(T), NEW v \in Seq(T),
         Embeds(s, t), Embeds(u, v)
  PROVE  Embeds(s \o u, t \o v)
<1>1. PICK m \in Nat, n \in Nat, k \in Nat, l \in Nat :
        DOMAIN s = 1 .. m /\ DOMAIN t = 1 .. n /\ DOMAIN u = 1 .. k /\ DOMAIN v = 1 .. l
        /\ m = Len(s) /\ n = Len(t) /\ k = Len(u) /\ l = Len(v)
  OBVIOUS
<1>2. PICK f \in [1 .. m -> 1 .. n] :
        /\ \A i, j \in 1 .. m : f[i] = f[j] => i = j
        /\ \A i \in 1 .. m : t[f[i]] = s[i]
  <2>1. DOMAIN s = 1 .. m /\ DOMAIN t = 1 .. n
    BY <1>1
  <2> QED BY <2>1, Zenon DEF Embeds
<1>3. PICK g \in [1 .. k -> 1 .. l] :
        /\ \A i, j \in 1 .. k : g[i] = g[j] => i = j
        /\ \A i \in 1 .. k : v[g[i]] = u[i]
  <2>1. DOMAIN u = 1 .. k /\ DOMAIN v = 1 .. l
    BY <1>1
  <2> QED BY <2>1, Zenon DEF Embeds
<1>4. PICK su : su = s \o u
  OBVIOUS
<1>5. PICK tv : tv = t \o v
  OBVIOUS
<1>6. /\ DOMAIN su = 1 .. (m + k)
      /\ \A i \in 1 .. m : su[i] = s[i]
      /\ \A i \in 1 .. (m + k) : i > m => su[i] = u[i - m]
  BY <1>1, <1>4
<1>7. /\ DOMAIN tv = 1 .. (n + l)
      /\ \A i \in 1 .. n : tv[i] = t[i]
      /\ \A i \in 1 .. (n + l) : i > n => tv[i] = v[i - n]
  BY <1>1, <1>5
<1> DEFINE h == [i \in 1 .. (m + k) |-> IF i <= m THEN f[i] ELSE n + g[i - m]]
<1>8. \A i \in 1 .. m : i <= m /\ i \in 1 .. (m + k) /\ f[i] \in 1 .. n /\ h[i] = f[i]
  BY <1>2
<1>9. \A i \in 1 .. (m + k) : i > m => i - m \in 1 .. k /\ g[i - m] \in 1 .. l /\ h[i] = n + g[i - m]
  BY <1>3
<1>10. h \in [1 .. (m + k) -> 1 .. (n + l)]
  <2>1. \A i \in 1 .. (m + k) : h[i] \in 1 .. (n + l)
    <3> SUFFICES ASSUME NEW i \in 1 .. (m + k) PROVE h[i] \in 1 .. (n + l)
      OBVIOUS
    <3> HIDE DEF h
    <3>1. CASE i <= m
      BY <1>8, <3>1
    <3>2. CASE i > m
      BY <1>9, <3>2
    <3> QED BY <3>1, <3>2
  <2> QED BY <2>1
<1> HIDE DEF h
<1>11. \A i \in 1 .. (m + k) : tv[h[i]] = su[i]
  <2> SUFFICES ASSUME NEW i \in 1 .. (m + k) PROVE tv[h[i]] = su[i]
    OBVIOUS
  <2>1. CASE i <= m
    <3>1. i \in 1 .. m
      BY <2>1
    <3>2. f[i] \in 1 .. n /\ h[i] = f[i] /\ t[f[i]] = s[i]
      BY <1>2, <1>8, <3>1
    <3> QED BY <1>6, <1>7, <3>1, <3>2
  <2>2. CASE i > m
    <3>1. /\ i - m \in 1 .. k /\ g[i - m] \in 1 .. l /\ h[i] = n + g[i - m]
          /\ v[g[i - m]] = u[i - m]
      BY <1>3, <1>9, <2>2
    <3>2. h[i] \in 1 .. (n + l) /\ h[i] > n /\ h[i] - n = g[i - m]
      BY <3>1
    <3>3. tv[h[i]] = v[g[i - m]]
      BY <1>7, <3>2
    <3> QED BY <1>6, <2>2, <3>1, <3>3
  <2> QED BY <2>1, <2>2
<1>12. \A i, j \in 1 .. (m + k) : h[i] = h[j] => i = j
  <2> SUFFICES ASSUME NEW i \in 1 .. (m + k), NEW j \in 1 .. (m + k), h[i] = h[j] PROVE i = j
    OBVIOUS
  <2>1. CASE i <= m /\ j <= m
    <3>1. i \in 1 .. m /\ j \in 1 .. m
      BY <2>1
    <3> QED BY <1>2, <1>8, <3>1
  <2>2. CASE i > m /\ j > m
    <3>1. g[i - m] = g[j - m]
      BY <1>9, <2>2
    <3>2. i - m = j - m
      BY <1>3, <1>9, <2>2, <3>1
    <3> QED BY <3>2
  <2>3. CASE i <= m /\ j > m
    <3>1. h[i] \in 1 .. n /\ h[j] > n
      <4>1. i \in 1 .. m
        BY <2>3
      <4>2. h[i] \in 1 .. n
        BY <1>8, <4>1
      <4>3. g[j - m] \in 1 .. l /\ h[j] = n + g[j - m]
        BY <1>9, <2>3
      <4> QED BY <4>2, <4>3
    <3> QED BY <3>1
  <2>4. CASE i > m /\ j <= m
    <3>1. h[j] \in 1 .. n /\ h[i] > n
      <4>1. j \in 1 .. m
        BY <2>4
      <4>2. h[j] \in 1 .. n
        BY <1>8, <4>1
      <4>3. g[i - m] \in 1 .. l /\ h[i] = n + g[i - m]
        BY <1>9, <2>4
      <4> QED BY <4>2, <4>3
    <3> QED BY <3>1
  <2> QED BY <2>1, <2>2, <2>3, <2>4
<1>13. Embeds(su, tv)
  <2>1. DOMAIN su = 1 .. (m + k) /\ DOMAIN tv = 1 .. (n + l)
    BY <1>6, <1>7
  <2>2. h \in [DOMAIN su -> DOMAIN tv]
    BY <1>10, <2>1, Zenon
  <2>3. /\ \A i, j \in DOMAIN su : h[i] = h[j] => i = j
        /\ \A i \in DOMAIN su : tv[h[i]] = su[i]
    BY <1>11, <1>12, <2>1, Zenon
  <2> QED BY <2>2, <2>3, Zenon DEF Embeds
<1> QED BY <1>4, <1>5, <1>13

(* Selecting fewer positions, with the same elements there.                  *)
LEMMA PickEmbeds ==
  ASSUME NEW T, NEW s \in Seq(T), NEW t \in Seq(T),
         NEW I \in SUBSET (DOMAIN s), NEW J \in SUBSET (DOMAIN t),
         \A i \in I : i \in J /\ s[i] = t[i]
  PROVE  Embeds(Pick(s, I), Pick(t, J))
<1> DEFINE p == Pick(s, I)
           q == Pick(t, J)
           m == Cardinality(I)
           n == Cardinality(J)
           a == InOrder(I)
           c == InOrder(J)
<1>1. /\ m \in Nat /\ DOMAIN p = 1 .. m /\ a \in [1 .. m -> I]
      /\ \A x \in 1 .. m : p[x] = s[a[x]]
      /\ \A x, y \in 1 .. m : x < y => a[x] < a[y]
  BY PickAll
<1>2. /\ DOMAIN q = 1 .. n /\ c \in [1 .. n -> J]
      /\ \A x \in 1 .. n : q[x] = t[c[x]]
      /\ \A i \in J : \E x \in 1 .. n : c[x] = i
  BY PickAll
<1> HIDE DEF p, q, m, n, a, c
<1> DEFINE h == [x \in 1 .. m |-> CHOOSE y \in 1 .. n : c[y] = a[x]]
<1>4. \A x \in 1 .. m : h[x] \in 1 .. n /\ c[h[x]] = a[x]
  BY <1>1, <1>2
<1>5. h \in [1 .. m -> 1 .. n]
  BY <1>4
<1> HIDE DEF h
<1>6. \A x \in 1 .. m : q[h[x]] = p[x]
  BY <1>1, <1>2, <1>4
<1>7. \A x, y \in 1 .. m : h[x] = h[y] => x = y
  <2> SUFFICES ASSUME NEW x \in 1 .. m, NEW y \in 1 .. m, h[x] = h[y], x # y PROVE FALSE
    OBVIOUS
  <2>1. a[x] = a[y]
    BY <1>4
  <2> DEFINE z == a[x]
  <2>3. a[x] = z /\ a[y] = z /\ z \in I /\ z \in Nat
    BY <1>1, <2>1
  <2> HIDE DEF z
  <2>2. x < y \/ y < x
    OBVIOUS
  <2> QED BY <1>1, <2>2, <2>3
<1>8. Embeds(p, q)
  <2>1. DOMAIN p = 1 .. m /\ DOMAIN q = 1 .. n
    BY <1>1, <1>2
  <2>2. h \in [DOMAIN p -> DOMAIN q]
    BY <1>5, <2>1, Zenon
  <2>3. /\ \A i, j \in DOMAIN p : h[i] = h[j] => i = j
        /\ \A i \in DOMAIN p : q[h[i]] = p[i]
    BY <1>6, <1>7, <2>1, Zenon
  <2> QED BY <2>2, <2>3, Zenon DEF Embeds
<1> QED BY <1>8 DEF p, q

(* A sorted sequence has the elements of the unsorted one.                   *)
LEMMA SortEmbeds ==
  ASSUME NEW T, NEW s \in Seq(T), NEW before, WeakOn(DOMAIN s, before)
  PROVE  Embeds(s, StableSort(s, before)) /\ Embeds(StableSort(s, before), s)
<1>1. PICK I, r, a : I = DOMAIN s /\ r = StableSort(s, before) /\ a = Origin(s, before)
  OBVIOUS
<1>2. /\ DOMAIN r = I /\ a \in [I -> I]
      /\ \A p \in I : r[p] = s[a[p]]
      /\ \A p, q \in I : p # q => a[p] # a[q]
      /\ \A i \in I : \E p \in I : a[p] = i
  BY <1>1, StableSortAll
<1>3. Embeds(r, s)
  BY <1>1, <1>2 DEF Embeds
<1>4. Embeds(s, r)
  <2> DEFINE h == [i \in I |-> CHOOSE p \in I : a[p] = i]
  <2>1. \A i \in I : h[i] \in I /\ a[h[i]] = i
    BY <1>2
  <2>2. h \in [DOMAIN s -> DOMAIN r]
    BY <1>1, <1>2, <2>1
  <2> HIDE DEF h
  <2> QED BY <1>1, <1>2, <2>1, <2>2 DEF Embeds
<1> QED BY <1>1, <1>3, <1>4

(* s brings what R orders in order.                                          *)
SortedBy(s, R) == \A p, q \in DOMAIN s : p < q => <<s[q], s[p]>> \notin R

(* A sequence that has every element of another is not behind it anywhere.   *)
LEMMA NotBehind ==
  ASSUME NEW T, NEW s \in Seq(T), NEW t \in Seq(T), NEW R, TotalOn(T, R),
         SortedBy(s, R), SortedBy(t, R), Embeds(s, t),
         NEW p \in DOMAIN s, p \in DOMAIN t, <<s[p], t[p]>> \in R
  PROVE  FALSE
<1>1. PICK f \in [DOMAIN s -> DOMAIN t] :
        /\ \A i, j \in DOMAIN s : f[i] = f[j] => i = j
        /\ \A i \in DOMAIN s : t[f[i]] = s[i]
  BY DEF Embeds
<1>2. /\ p \in Nat /\ p > 0 /\ 1 .. p \subseteq DOMAIN s
      /\ \A i \in DOMAIN s : s[i] \in T
      /\ \A i \in DOMAIN t : t[i] \in T /\ i \in Nat /\ i > 0
  OBVIOUS
<1>3. ASSUME NEW i \in 1 .. p PROVE f[i] \in 1 .. (p - 1)
  <2>1. i \in DOMAIN s /\ f[i] \in DOMAIN t /\ t[f[i]] = s[i] /\ i \in Nat
    BY <1>1, <1>2
  <2>2. <<s[i], t[p]>> \in R
    <3>1. CASE s[i] = s[p]
      BY <3>1
    <3>2. CASE s[i] # s[p]
      <4>1. i < p
        BY <1>2, <2>1, <3>2
      <4>2. <<s[p], s[i]>> \notin R
        BY <2>1, <4>1 DEF SortedBy
      <4>3. <<s[i], s[p]>> \in R
        BY <1>2, <2>1, <3>2, <4>2 DEF TotalOn
      <4> QED BY <1>2, <2>1, <4>3 DEF TotalOn
    <3> QED BY <3>1, <3>2
  <2>3. f[i] # p
    BY <1>2, <2>1, <2>2 DEF TotalOn
  <2>4. ~(p < f[i])
    BY <2>1, <2>2 DEF SortedBy
  <2> QED BY <1>2, <2>1, <2>3, <2>4
<1> DEFINE g == [i \in 1 .. p |-> f[i]]
<1>4. g \in [1 .. p -> 1 .. (p - 1)]
  BY <1>3
<1>5. \A i, j \in 1 .. p : g[i] = g[j] => i = j
  BY <1>1, <1>2
<1> HIDE DEF g
<1>6. /\ IsFiniteSet(1 .. p) /\ Cardinality(1 .. p) = p
      /\ IsFiniteSet(1 .. (p - 1)) /\ Cardinality(1 .. (p - 1)) = p - 1
  <2>1. /\ IsFiniteSet(1 .. p) /\ Cardinality(1 .. p) = IF 1 > p THEN 0 ELSE p - 1 + 1
        /\ IsFiniteSet(1 .. (p - 1))
        /\ Cardinality(1 .. (p - 1)) = IF 1 > p - 1 THEN 0 ELSE p - 1 - 1 + 1
    <3>1. p \in Int /\ p - 1 \in Int /\ 1 \in Int
      BY <1>2
    <3> QED BY <3>1, FS_Interval
  <2> QED BY <1>2, <2>1
<1>7. Cardinality(1 .. (p - 1)) < Cardinality(1 .. p)
  BY <1>2, <1>6
<1>8. \E i, j \in 1 .. p : i # j /\ g[i] = g[j]
  BY <1>4, <1>6, <1>7, FS_PigeonHole
<1> QED BY <1>5, <1>8

(* One that has more elements is not shorter.                                *)
LEMMA EmbedsLength ==
  ASSUME NEW T, NEW s \in Seq(T), NEW t \in Seq(T), Embeds(s, t)
  PROVE  Len(s) <= Len(t)
<1>1. PICK m \in Nat, n \in Nat :
        m = Len(s) /\ n = Len(t) /\ DOMAIN s = 1 .. m /\ DOMAIN t = 1 .. n
  OBVIOUS
<1>2. PICK f \in [1 .. m -> 1 .. n] : \A i, j \in 1 .. m : f[i] = f[j] => i = j
  <2>1. DOMAIN s = 1 .. m /\ DOMAIN t = 1 .. n
    BY <1>1
  <2> QED BY <2>1, Zenon DEF Embeds
<1>3. f \in Injection(1 .. m, 1 .. n)
  BY <1>2 DEF Injection, IsInjective
<1>4. /\ IsFiniteSet(1 .. m) /\ Cardinality(1 .. m) = IF 1 > m THEN 0 ELSE m - 1 + 1
      /\ IsFiniteSet(1 .. n) /\ Cardinality(1 .. n) = IF 1 > n THEN 0 ELSE n - 1 + 1
  BY FS_Interval
<1>5. Cardinality(1 .. m) <= Cardinality(1 .. n)
  BY <1>3, <1>4, FS_Injection
<1> QED BY <1>1, <1>4, <1>5

(* There is one way to sort given elements if no two different ones tie.     *)
LEMMA SortedAlike ==
  ASSUME NEW T, NEW s \in Seq(T), NEW t \in Seq(T), NEW R, TotalOn(T, R),
         SortedBy(s, R), SortedBy(t, R), Embeds(s, t), Embeds(t, s)
  PROVE  s = t
<1>1. Len(s) = Len(t)
  <2>1. Len(s) <= Len(t) /\ Len(t) <= Len(s)
    BY EmbedsLength
  <2> QED BY <2>1
<1>2. ASSUME NEW p \in DOMAIN s, s[p] # t[p] PROVE FALSE
  <2>1. p \in DOMAIN t /\ s[p] \in T /\ t[p] \in T
    BY <1>1
  <2>2. <<s[p], t[p]>> \in R \/ <<t[p], s[p]>> \in R
    BY <1>2, <2>1 DEF TotalOn
  <2>3. <<s[p], t[p]>> \notin R
    BY <2>1, NotBehind
  <2>4. <<t[p], s[p]>> \notin R
    BY <2>1, NotBehind
  <2> QED BY <2>2, <2>3, <2>4
<1> QED BY <1>1, <1>2

=============================================================================
