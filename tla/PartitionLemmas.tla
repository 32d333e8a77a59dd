--------------------------- MODULE PartitionLemmas ---------------------------
(***************************************************************************)
(* What stable_partition and erase leave of a sequence: an order           *)
(* preserving selection of exactly the places to keep.                     *)
(***************************************************************************)
EXTENDS StablePartition, FiniteSetTheorems, TLAPS

(***************************************************************************)
(* Ranks number the places of a finite set from 1 to its size, in their    *)
(* order: the k-th place that Nth chooses exists for each such k.          *)
(***************************************************************************)
LEMMA RankOrder ==
  ASSUME NEW n \in Nat, NEW K \in SUBSET (1..n)
  PROVE  /\ IsFiniteSet(K)
         /\ Cardinality(K) \in 0..n
         /\ \A i \in K : Rank(K, i) \in 1..Cardinality(K)
         /\ \A i, j \in K : i < j => Rank(K, i) < Rank(K, j)
<1>1. IsFiniteSet(K) /\ Cardinality(K) \in 0..n
  <2>1. IsFiniteSet(1..n) /\ Cardinality(1..n) = n
    BY FS_Interval
  <2>2. IsFiniteSet(K) /\ Cardinality(K) <= n
    BY <2>1, FS_Subset, Zenon
  <2>3. QED
    BY <2>2, FS_CardinalityType
<1> \A l \in K : l \in Nat
  OBVIOUS
<1>2. ASSUME NEW i \in K
      PROVE  /\ IsFiniteSet({l \in K : l <= i})
             /\ Rank(K, i) \in 1..Cardinality(K)
  <2>1. IsFiniteSet({l \in K : l <= i}) /\ Rank(K, i) <= Cardinality(K)
    BY <1>1, FS_Subset DEF Rank
  <2>2. Rank(K, i) \in Nat
    BY <2>1, FS_CardinalityType DEF Rank
  <2>3. i \in {l \in K : l <= i}
    OBVIOUS
  <2>4. Rank(K, i) # 0
    BY <2>1, <2>3, FS_EmptySet DEF Rank
  <2>5. QED
    BY <1>1, <2>1, <2>2, <2>4
<1>3. ASSUME NEW i \in K, NEW j \in K, i < j
      PROVE  Rank(K, i) < Rank(K, j)
  <2>1. {l \in K : l <= i} \in SUBSET {l \in K : l <= j}
    <3>1. SUFFICES ASSUME NEW l \in K, l <= i PROVE l <= j
      OBVIOUS
    <3>2. l \in Nat /\ i \in Nat /\ j \in Nat
      OBVIOUS
    <3>3. QED
      BY <1>3, <3>1, <3>2
  <2>2. {l \in K : l <= i} # {l \in K : l <= j}
    <3>1. j \in {l \in K : l <= j} /\ j \notin {l \in K : l <= i}
      BY <1>3
    <3>2. QED
      BY <3>1
  <2>3. Rank(K, i) <= Rank(K, j) /\ Rank(K, i) # Rank(K, j)
    BY <1>2, <2>1, <2>2, FS_Subset DEF Rank
  <2>4. Rank(K, i) \in Nat /\ Rank(K, j) \in Nat
    <3>1. Rank(K, i) \in 1..Cardinality(K) /\ Rank(K, j) \in 1..Cardinality(K)
      BY <1>2, Zenon
    <3>2. QED
      BY <3>1
  <2>5. QED
    BY <2>3, <2>4
<1>4. QED
  BY <1>1, <1>2, <1>3, Zenon

\* Every rank up to the size of K is the rank of a place in K, namely Nth(K, k):
\* the elements a stable partition keeps fill the places without a gap.
LEMMA NthExists ==
  ASSUME NEW n \in Nat, NEW K \in SUBSET (1..n), NEW k \in 1..Cardinality(K)
  PROVE  Nth(K, k) \in K /\ Rank(K, Nth(K, k)) = k
<1> DEFINE c == Cardinality(K)
           f == [i \in K |-> Rank(K, i)]
<1>1. IsFiniteSet(K) /\ c \in Nat
  BY RankOrder
<1>2. f \in [K -> 1..c]
  BY RankOrder
<1>3. \A i, j \in K : f[i] = f[j] => i = j
  <2>1. SUFFICES ASSUME NEW i \in K, NEW j \in K, i # j PROVE f[i] # f[j]
    OBVIOUS
  <2>2. i < j \/ j < i
    BY <2>1
  <2>3. f[i] < f[j] \/ f[j] < f[i]
    BY <2>2, RankOrder
  <2>4. QED
    BY <1>2, <2>3
<1>4. f \in Injection(K, 1..c)
  BY <1>2, <1>3 DEF Injection, IsInjective
<1>5. IsFiniteSet(1..c) /\ Cardinality(1..c) = c
  BY <1>1, FS_Interval
<1>6. f \in Surjection(K, 1..c)
  BY <1>4, <1>5, FS_Injection
<1>7. \E i \in K : Rank(K, i) = k
  BY <1>6, Zenon DEF Surjection
<1>8. QED
  BY <1>7 DEF Nth

\* r is s read at the increasing places g, which are all those that hold an
\* element of S.
ReadAt(r, s, S, g) ==
  /\ g \in [1..Len(r) -> 1..Len(s)]
  /\ \A a, b \in 1..Len(r) : a < b => g[a] < g[b]
  /\ \A a \in 1..Len(r) : r[a] = s[g[a]] /\ s[g[a]] \in S
  /\ \A i \in 1..Len(s) : s[i] \in S => \E a \in 1..Len(r) : g[a] = i

(***************************************************************************)
(* What the erase after a stable_partition leaves: a subsequence with all  *)
(* the elements to keep, in their old order.                               *)
(***************************************************************************)
LEMMA KeptProperties ==
  ASSUME NEW T, NEW s \in Seq(T), NEW S
  PROVE  /\ Kept(s, S) \in Seq(T)
         /\ Len(Kept(s, S)) <= Len(s)
         /\ \E g : ReadAt(Kept(s, S), s, S, g)
<1> DEFINE K == Places(s, S)
           c == Cardinality(K)
           g == [k \in 1..c |-> Nth(K, k)]
<1>1. K \in SUBSET (1..Len(s)) /\ Len(s) \in Nat
  BY DEF Places
<1>2. c \in 0..Len(s)
  BY <1>1, RankOrder
<1>3. \A k \in 1..c : g[k] \in K /\ Rank(K, g[k]) = k
  BY <1>1, NthExists, Zenon
<1>4. Kept(s, S) = [k \in 1..c |-> s[g[k]]]
  BY DEF Kept
<1>5. \A k \in 1..c : s[g[k]] \in T /\ s[g[k]] \in S
  BY <1>3 DEF Places
<1>6. Kept(s, S) \in Seq(T) /\ Len(Kept(s, S)) = c
  BY <1>2, <1>4, <1>5
<1>7. ASSUME NEW a \in 1..c, NEW b \in 1..c, a < b
      PROVE  g[a] < g[b]
  <2>1. g[a] \in Nat /\ g[b] \in Nat
    BY <1>1, <1>3
  <2>2. g[a] # g[b]
    BY <1>3, <1>7
  <2>3. ~(g[b] < g[a])
    BY <1>1, <1>3, <1>7, RankOrder
  <2>4. QED
    BY <2>1, <2>2, <2>3
<1>8. ASSUME NEW i \in 1..Len(s), s[i] \in S
      PROVE  \E a \in 1..c : g[a] = i
  <2>1. i \in K
    BY <1>8 DEF Places
  <2>2. Rank(K, i) \in 1..c
    BY <1>1, <2>1, RankOrder
  <2>3. g[Rank(K, i)] \in K /\ Rank(K, g[Rank(K, i)]) = Rank(K, i)
    BY <1>3, <2>2
  <2>4. \A x, y \in K : x < y => Rank(K, x) < Rank(K, y)
    BY <1>1, RankOrder, Zenon
  <2>5. g[Rank(K, i)] = i
    <3> DEFINE h == g[Rank(K, i)]
    <3>1. h \in K /\ i \in K /\ Rank(K, h) = Rank(K, i) /\ Rank(K, i) \in Nat
      BY <2>1, <2>2, <2>3
    <3>2. h \in Nat /\ i \in Nat
      BY <1>1, <3>1
    <3> HIDE DEF h, K, g
    <3>3. ~(h < i) /\ ~(i < h)
      BY <2>4, <3>1
    <3>4. h = i
      BY <3>2, <3>3
    <3>5. QED
      BY <3>4 DEF h
  <2>6. QED
    BY <2>2, <2>5
<1>9. g \in [1..Len(Kept(s, S)) -> 1..Len(s)]
  BY <1>1, <1>3, <1>6
<1>10. \A a \in 1..c : Kept(s, S)[a] = s[g[a]] /\ s[g[a]] \in S
  BY <1>4, <1>5
<1> HIDE DEF K, c, g
<1>11. /\ \A a, b \in 1..Len(Kept(s, S)) : a < b => g[a] < g[b]
       /\ \A a \in 1..Len(Kept(s, S)) : Kept(s, S)[a] = s[g[a]] /\ s[g[a]] \in S
       /\ \A i \in 1..Len(s) :
            s[i] \in S => \E a \in 1..Len(Kept(s, S)) : g[a] = i
  BY <1>6, <1>7, <1>8, <1>10
<1>12. Len(Kept(s, S)) <= Len(s)
  BY <1>1, <1>2, <1>6
<1>13. ReadAt(Kept(s, S), s, S, g)
  BY <1>9, <1>11 DEF ReadAt
<1>14. QED
  BY <1>6, <1>12, <1>13
==============================================================================
