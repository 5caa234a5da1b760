-------------------------------- MODULE Lists --------------------------------
(***************************************************************************)
(* What the consoles do with lists, without the module of the store or the *)
(* page that has them: cut, filter and sort them, and add up a column.     *)
(* Each is a function of its list that no recursive operator is needed     *)
(* for.                                                                    *)
(***************************************************************************)
EXTENDS Integers, FiniteSets, Sequences

\* The sums of the first numbers of s, and of all.
Sums(s) ==
  LET sum[n \in 0..Len(s)] == IF n = 0 THEN 0 ELSE sum[n - 1] + s[n]
  IN  sum
Sum(s) == Sums(s)[Len(s)]

Least(S) == CHOOSE x \in S : \A y \in S : x <= y
Most(S)  == CHOOSE x \in S : \A y \in S : x >= y

\* slice(0, n)
Prefix(s, n) == SubSeq(s, 1, IF Len(s) < n THEN Len(s) ELSE n)

\* The members of S, each at the place that those before it leave it.
Arranged(S, Before(_, _)) ==
  [k \in 1..Cardinality(S) |->
     CHOOSE i \in S : Cardinality({j \in S : Before(j, i)}) = k - 1]

\* The items of s at the places I, in their order: filter.
Pick(s, I) ==
  LET at == Arranged(I, LAMBDA i, j : i < j) IN [k \in DOMAIN at |-> s[at[k]]]
=============================================================================
