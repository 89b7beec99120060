---------------------------- MODULE Subsequences ----------------------------
(* What is left of a sequence when some of its entries are taken out.        *)
EXTENDS Integers, Sequences, FiniteSets

\* The entries of s at the positions in at, in their order.
Picked(s, at) ==
  LET Rank(k) == Cardinality({j \in at : j <= k})
  IN  [n \in 1..Cardinality(at) |-> s[CHOOSE k \in at : Rank(k) = n]]
=============================================================================
