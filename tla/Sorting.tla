------------------------------ MODULE Sorting ------------------------------
(* A finite set of numbers as the sequence of its elements, smallest first, *)
(* and what a sequence has at such positions.                               *)
EXTENDS Integers, FiniteSets

\* How many elements of S come up to and including x.
Rank(S, x) == Cardinality({y \in S : y <= x})

Ascending(S) == [n \in 1..Cardinality(S) |-> CHOOSE x \in S : Rank(S, x) = n]

\* The elements of s at the positions P.
ElementsAt(s, P) == [n \in 1..Cardinality(P) |-> s[Ascending(P)[n]]]
=============================================================================
