------------------------------ MODULE Ordering ------------------------------
(***************************************************************************)
(* Sorting a set by a total order, as sort.SliceStable does a list whose   *)
(* elements are all different.                                             *)
(***************************************************************************)
EXTENDS Integers, FiniteSets

\* The elements of S in the order of a relation: each comes after those before it.
Ordered(S, before) ==
  [i \in 1..Cardinality(S) |-> CHOOSE r \in S : Cardinality({x \in S : <<x, r>> \in before}) = i - 1]
=============================================================================
