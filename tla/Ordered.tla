------------------------------ MODULE Ordered ------------------------------
(***************************************************************************)
(* Sorting and selection, defined by the place every element gets and not  *)
(* by recursion, so that theorems can be proved about what is sorted and   *)
(* selected: the loops and sort calls of the code are modelled by these.   *)
(***************************************************************************)
EXTENDS Integers, Sequences, FiniteSets

(* The place of every element of S if the pairs of R are in order.           *)
Place(S, R) == [x \in S |-> 1 + Cardinality({y \in S : <<y, x>> \in R})]

(* The elements of the finite set S in that order.                           *)
Arranged(S, R) ==
  LET place == Place(S, R)
  IN  [p \in 1 .. Cardinality(S) |-> CHOOSE x \in S : place[x] = p]

(* The pairs of positions i < j in I, and those of positions i > j.          *)
Ascending(I) == {p \in I \X I : p[1] < p[2]}
Descending(I) == {p \in I \X I : p[1] > p[2]}

(* The positions in I one after the other, and the elements of s there.      *)
InOrder(I) == Arranged(I, Ascending(I))
Pick(s, I) == LET at == InOrder(I) IN [p \in 1 .. Cardinality(I) |-> s[at[p]]]

(* The same from the last to the first.                                      *)
InReverse(I) == Arranged(I, Descending(I))
PickBack(s, I) == LET at == InReverse(I) IN [p \in 1 .. Cardinality(I) |-> s[at[p]]]

(* The order of the positions in I if `before` comes first, and where it     *)
(* does not decide they stay as they are.                                    *)
Stably(I, before) ==
  {p \in I \X I : p \in before \/ (<<p[2], p[1]>> \notin before /\ p[1] < p[2])}

(* s sorted, `before` holding the pairs of positions that have to be in      *)
(* order; and where in s each of its elements comes from.                    *)
Origin(s, before) == Arranged(DOMAIN s, Stably(DOMAIN s, before))
StableSort(s, before) == LET at == Origin(s, before) IN [p \in DOMAIN s |-> s[at[p]]]
=============================================================================
