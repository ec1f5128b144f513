-------------------------------- MODULE Lists --------------------------------
(***************************************************************************)
(* Lists in an order: the numbers of a set, ascending, and what a list has *)
(* at some of its positions.                                               *)
(***************************************************************************)
EXTENDS Integers, Sequences, FiniteSets

\* sorted(S) of a finite set of numbers.
Ascending(S) ==
  [k \in 1..Cardinality(S) |->
     CHOOSE x \in S : Cardinality({y \in S : y < x}) = k - 1]

\* [s[i] for i in sorted(P)]
Picked(s, P) ==
  LET order == Ascending(P) IN [k \in DOMAIN order |-> s[order[k]]]
=============================================================================
