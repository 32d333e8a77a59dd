--------------------------- MODULE StablePartition ---------------------------
(***************************************************************************)
(* std::stable_partition followed by the erase of its second half, which   *)
(* is how the multiplexer drops requests from its queue: what is left are  *)
(* the elements to keep, in the order they had.  Sequences!SelectSeq says  *)
(* the same recursively; the definition by rank is the one the proofs of   *)
(* PartitionLemmas can reason about.                                       *)
(***************************************************************************)
EXTENDS Integers, Sequences, FiniteSets

\* How many positions of K there are up to position i.
Rank(K, i) == Cardinality({j \in K : j <= i})

\* The k-th smallest position of K.
Nth(K, k) == CHOOSE i \in K : Rank(K, i) = k

\* The positions of s that hold an element of S.
Places(s, S) == {i \in 1..Len(s) : s[i] \in S}

\* The elements of s that are in S, in the order of s.
Kept(s, S) ==
  LET K == Places(s, S)
  IN  [k \in 1..Cardinality(K) |-> s[Nth(K, k)]]
==============================================================================
