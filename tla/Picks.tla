--------------------------------- MODULE Picks ---------------------------------
(***************************************************************************)
(* A sequence without some of its elements.  It is SelectSeq over indices, *)
(* in a closed form: SelectSeq is defined by recursion, which a proof      *)
(* cannot follow.                                                          *)
(***************************************************************************)
EXTENDS Naturals, Sequences, FiniteSets

\* The elements of s at the indices of K, in order.
Picked(s, K) ==
  LET Before(k) == {j \in K : j < k}
  IN  [i \in 1..Cardinality(K) |-> s[CHOOSE k \in K : Cardinality(Before(k)) = i - 1]]

Without(s, e) == Picked(s, {i \in DOMAIN s : s[i] # e})
================================================================================
