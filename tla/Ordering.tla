------------------------------ MODULE Ordering ------------------------------
(***************************************************************************)
(* What sorted() of the standard library makes of a finite set whose       *)
(* members are told apart by a key in the integers.                        *)
(***************************************************************************)
EXTENDS Integers, FiniteSets

\* The place of a member: how many keys there are up to its own.
Place(S, key, x) == Cardinality({y \in S : key[y] <= key[x]})

InOrder(S, key) ==
  [i \in 1..Cardinality(S) |-> CHOOSE x \in S : Place(S, key, x) = i]
=============================================================================
