----------------------------- MODULE Filtering -----------------------------
(***************************************************************************)
(* `filter` over a list, by the positions it keeps, in their order.        *)
(***************************************************************************)
EXTENDS Integers, Sequences, FiniteSets

\* The i-th of the positions in `at`.
Nth(at, i) == CHOOSE n \in at : Cardinality({m \in at : m <= n}) = i

Kept(s, at) == [i \in 1..Cardinality(at) |-> s[Nth(at, i)]]
=============================================================================
