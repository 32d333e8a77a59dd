-------------------------- MODULE MultiplexerLemmas --------------------------
(***************************************************************************)
(* What each member function of the multiplexer does to a well formed      *)
(* queue, for every set of requests and every configuration.               *)
(***************************************************************************)
EXTENDS Multiplexer, PartitionLemmas

WellFormed(m) == m \in MultiplexerType /\ Ordered(m) /\ Distinct(m)

\* A set of numbers that is not empty has a least one.
LEMMA Least ==
  ASSUME NEW A \in SUBSET Nat, A # {}
  PROVE  \E x \in A : \A y \in A : x <= y
<1> DEFINE R == OpToRel(<, Nat)
<1>1. \E x \in A : \A y \in A : ~(<<y, x>> \in R)
  BY WFMin, NatLessThanWellFounded, Zenon
<1>2. PICK x \in A : \A y \in A : ~(<<y, x>> \in R)
  BY <1>1, Zenon
<1>3. \A y \in A : ~(y < x)
  BY <1>2, Zenon DEF OpToRel
<1>4. QED
  BY <1>3

(***************************************************************************)
(* A set of places that contains every later place starts somewhere.       *)
(***************************************************************************)
LEMMA Threshold ==
  ASSUME NEW n \in Nat, NEW A \in SUBSET (1..n),
         \A a \in A, b \in 1..n : a <= b => b \in A
  PROVE  \E t \in 0..n : \A a \in 1..n : a <= t <=> a \notin A
<1>1. CASE A = {}
  BY <1>1
<1>2. CASE A # {}
  <2>1. A \subseteq Nat
    OBVIOUS
  <2>2. PICK x \in A : \A y \in A : x <= y
    BY <1>2, <2>1, Least
  <2>3. x - 1 \in 0..n /\ \A a \in 1..n : a <= x - 1 <=> a \notin A
    BY <2>1, <2>2
  <2>4. QED
    BY <2>3
<1>3. QED
  BY <1>1, <1>2

\* std::partition_point finds the border between sent and waiting requests.
LEMMA PartitionPoint ==
  ASSUME NEW m, WellFormed(m)
  PROVE  /\ partition_point(m) \in 0..Len(m.reqs)
         /\ \A i \in 1..Len(m.reqs) :
              i <= partition_point(m) <=> ~is_waiting(m, m.reqs[i])
<1> DEFINE A == {i \in 1..Len(m.reqs) : is_waiting(m, m.reqs[i])}
<1>1. m.reqs \in Seq(Elem) /\ Len(m.reqs) \in Nat
  BY DEF WellFormed, MultiplexerType
<1>2. \A a \in A, b \in 1..Len(m.reqs) : a <= b => b \in A
  BY <1>1 DEF WellFormed, Ordered
<1>3. A \in SUBSET (1..Len(m.reqs))
  OBVIOUS
<1>4. \E t \in 0..Len(m.reqs) : \A a \in 1..Len(m.reqs) : a <= t <=> a \notin A
  <2> HIDE DEF A
  <2>1. QED
    BY <1>1, <1>2, <1>3, Threshold, Zenon
<1>5. \E n \in 0..Len(m.reqs) :
         \A i \in 1..Len(m.reqs) : i <= n <=> ~is_waiting(m, m.reqs[i])
  BY <1>4
<1>6. QED
  BY <1>5 DEF partition_point

\* erase drops S from the queue and touches nothing else.
LEMMA Erase ==
  ASSUME NEW m, WellFormed(m), NEW S
  PROVE  /\ WellFormed(erase(m, S))
         /\ Queued(erase(m, S)) = Queued(m) \ S
         /\ erase(m, S) = [m EXCEPT !.reqs = Kept(m.reqs, Elem \ S)]
<1> DEFINE Q == Elem \ S
           r == Kept(m.reqs, Q)
           n == erase(m, S)
<1>1. m.reqs \in Seq(Elem) /\ m \in MultiplexerType
  BY DEF WellFormed, MultiplexerType
<1> HIDE DEF Q
<1>2. r \in Seq(Elem)
  BY <1>1, KeptProperties
<1>3. PICK g : ReadAt(r, m.reqs, Q, g)
  BY <1>1, KeptProperties
<1>4. n = [m EXCEPT !.reqs = r]
  BY DEF erase, Q
<1> HIDE DEF r, n
<1>5. n \in MultiplexerType /\ n.reqs = r /\ n.status = m.status
  BY <1>1, <1>2, <1>4, Zenon DEF MultiplexerType
<1>6. Ordered(n)
  <2>1. SUFFICES ASSUME NEW a \in 1..Len(r), NEW b \in 1..Len(r), a < b
                 PROVE  /\ m.status[r[a]] = "waiting" => m.status[r[b]] = "waiting"
                        /\ m.status[r[a]] = "staged" => m.status[r[b]] # "written"
    BY <1>5 DEF Ordered, is_waiting
  <2>2. g[a] \in 1..Len(m.reqs) /\ g[b] \in 1..Len(m.reqs) /\ g[a] < g[b]
    BY <1>3, <2>1 DEF ReadAt
  <2>3. r[a] = m.reqs[g[a]] /\ r[b] = m.reqs[g[b]]
    BY <1>3 DEF ReadAt
  <2>4. QED
    BY <2>2, <2>3, Zenon DEF WellFormed, Ordered, is_waiting
<1>7. Distinct(n)
  <2>1. SUFFICES ASSUME NEW a \in 1..Len(r), NEW b \in 1..Len(r), r[a] = r[b], a # b
                 PROVE FALSE
    BY <1>5 DEF Distinct
  <2> g[a] \in 1..Len(m.reqs) /\ g[b] \in 1..Len(m.reqs) /\ m.reqs[g[a]] = m.reqs[g[b]]
    BY <1>3, <2>1, Zenon DEF ReadAt
  <2>2. g[a] = g[b]
    BY DEF WellFormed, Distinct
  <2>3. Len(r) \in Nat /\ Len(m.reqs) \in Nat
    BY <1>1, <1>2
  <2>4. a < b \/ b < a
    BY <2>1, <2>3
  <2>5. g[a] < g[b] \/ g[b] < g[a]
    BY <1>3, <2>4 DEF ReadAt
  <2>6. QED
    BY <1>3, <2>2, <2>3, <2>5 DEF ReadAt
<1>8. Queued(n) = Queued(m) \ S
  <2>1. ASSUME NEW e \in Queued(n) PROVE e \in Queued(m) \ S
    BY <1>3, <1>5 DEF Queued, Q, ReadAt
  <2>2. ASSUME NEW e \in Queued(m) \ S PROVE e \in Queued(n)
    BY <1>1, <1>3, <1>5 DEF Queued, Q, ReadAt
  <2>3. QED
    BY <2>1, <2>2
<1>9. QED
  BY <1>4, <1>5, <1>6, <1>7, <1>8 DEF WellFormed, n, r, Q

\* r is s with e after the n-th place.
Inserted(r, s, e, n) ==
  /\ Len(r) = Len(s) + 1
  /\ \A i \in 1..(Len(s) + 1) :
       r[i] = IF i <= n THEN s[i] ELSE IF i = n + 1 THEN e ELSE s[i - 1]

\* Inserting after the n-th place: what add does, with n the partition point
\* for a HELLO and the length of the queue for any other request.
LEMMA Insert ==
  ASSUME NEW T, NEW s \in Seq(T), NEW e \in T, NEW n \in 0..Len(s)
  PROVE  LET r == SubSeq(s, 1, n) \o <<e>> \o SubSeq(s, n + 1, Len(s))
         IN  r \in Seq(T) /\ Inserted(r, s, e, n)
<1> DEFINE a == SubSeq(s, 1, n)
           b == SubSeq(s, n + 1, Len(s))
           c == a \o <<e>>
<1>1. Len(s) \in Nat /\ n \in Nat
  OBVIOUS
<1>2. a \in Seq(T) /\ Len(a) = n /\ \A i \in 1..n : a[i] = s[i]
  BY <1>1
<1>3. b \in Seq(T) /\ Len(b) = Len(s) - n /\ \A i \in 1..Len(b) : b[i] = s[n + i]
  BY <1>1
<1> HIDE DEF a, b
<1>4. /\ c \in Seq(T) /\ Len(c) = n + 1 /\ c[n + 1] = e
      /\ \A i \in 1..n : c[i] = s[i]
  BY <1>1, <1>2
<1> HIDE DEF c
<1>5. /\ c \o b \in Seq(T)
      /\ Len(c \o b) = Len(s) + 1
      /\ \A i \in 1..(n + 1) : (c \o b)[i] = c[i]
      /\ \A i \in (n + 2)..(Len(s) + 1) : (c \o b)[i] = b[i - (n + 1)]
  BY <1>1, <1>3, <1>4
<1>6. ASSUME NEW i \in 1..Len(c \o b)
      PROVE  (c \o b)[i] = IF i <= n THEN s[i] ELSE IF i = n + 1 THEN e ELSE s[i - 1]
  <2>1. CASE i <= n
    BY <1>1, <1>4, <1>5, <2>1
  <2>2. CASE i = n + 1
    BY <1>1, <1>4, <1>5, <2>2
  <2>3. CASE i > n + 1
    <3>1. Len(b) = Len(s) - n /\ Len(c \o b) = Len(s) + 1
      BY <1>3, <1>5
    <3>2. /\ i - (n + 1) \in 1..Len(b) /\ n + (i - (n + 1)) = i - 1
          /\ i \in (n + 2)..(Len(s) + 1)
      BY <1>1, <2>3, <3>1
    <3>3. (c \o b)[i] = b[i - (n + 1)]
      BY <1>5, <3>2
    <3>4. b[i - (n + 1)] = s[i - 1]
      BY <1>3, <3>2
    <3>5. QED
      BY <1>1, <2>3, <3>3, <3>4
  <2>4. QED
    BY <1>1, <1>5, <2>1, <2>2, <2>3
<1>7. QED
  BY <1>5, <1>6, Zenon DEF a, b, c, Inserted

\* add queues a new request behind everything that was handed to the writer.
LEMMA Add ==
  ASSUME NEW m, WellFormed(m), NEW e \in Elem, is_waiting(m, e), e \notin Queued(m)
  PROVE  /\ WellFormed(add(m, e))
         /\ Queued(add(m, e)) = Queued(m) \cup {e}
         /\ add(m, e) = [m EXCEPT !.reqs = add(m, e).reqs]
<1> DEFINE L == Len(m.reqs)
           n == add(m, e)
           k == IF e \in HelloPriority THEN partition_point(m) ELSE L
<1>1. m \in MultiplexerType /\ m.reqs \in Seq(Elem) /\ L \in Nat
  BY DEF WellFormed, MultiplexerType
<1>2. k \in 0..L /\ \A i \in 1..L : i > k => is_waiting(m, m.reqs[i])
  BY <1>1, PartitionPoint
<1>3. n = [m EXCEPT !.reqs = n.reqs]
  BY <1>1 DEF add, MultiplexerType
<1>4. /\ n.reqs \in Seq(Elem)
      /\ Len(n.reqs) = L + 1
      /\ \A i \in 1..(L + 1) :
           n.reqs[i] = IF i <= k THEN m.reqs[i] ELSE IF i = k + 1 THEN e ELSE m.reqs[i - 1]
  <2>1. CASE e \in HelloPriority
    <3> DEFINE r == SubSeq(m.reqs, 1, k) \o <<e>> \o SubSeq(m.reqs, k + 1, L)
    <3>1. n.reqs = r
      BY <1>1, <2>1, Zenon DEF add, MultiplexerType
    <3> HIDE DEF n, k
    <3>2. r \in Seq(Elem) /\ Inserted(r, m.reqs, e, k)
      BY <1>1, <1>2, Insert
    <3> HIDE DEF r
    <3>3. QED
      BY <3>1, <3>2 DEF Inserted
  <2>2. CASE e \notin HelloPriority
    <3>1. n.reqs = Append(m.reqs, e) /\ k = L
      BY <1>1, <2>2 DEF add, MultiplexerType
    <3> HIDE DEF n, k
    <3>2. QED
      BY <1>1, <3>1
  <2>3. QED
    BY <2>1, <2>2
<1> HIDE DEF n, k
<1>5. n \in MultiplexerType /\ n.status = m.status
  BY <1>1, <1>3, <1>4, Zenon DEF MultiplexerType
<1>6. \A i \in 1..L : m.reqs[i] # e
  BY DEF Queued
<1>7. Ordered(n)
  <2>1. SUFFICES ASSUME NEW a \in 1..(L + 1), NEW b \in 1..(L + 1), a < b
                 PROVE  /\ m.status[n.reqs[a]] = "waiting" => m.status[n.reqs[b]] = "waiting"
                        /\ m.status[n.reqs[a]] = "staged" => m.status[n.reqs[b]] # "written"
    BY <1>4, <1>5 DEF Ordered, is_waiting
  <2>2. CASE b > k
    <3>1. m.status[n.reqs[b]] = "waiting"
      <4>1. CASE b = k + 1
        BY <1>1, <1>2, <1>4, <4>1 DEF is_waiting
      <4>2. CASE b # k + 1
        <5>1. k \in 0..L
          BY <1>2
        <5>2. b - 1 \in 1..L /\ b - 1 > k
          BY <1>1, <2>2, <4>2, <5>1
        <5>3. n.reqs[b] = IF b <= k THEN m.reqs[b]
                          ELSE IF b = k + 1 THEN e ELSE m.reqs[b - 1]
          BY <1>4
        <5>4. n.reqs[b] = m.reqs[b - 1]
          BY <1>1, <2>2, <4>2, <5>1, <5>3
        <5>5. is_waiting(m, m.reqs[b - 1])
          BY <1>2, <5>2
        <5>6. QED
          BY <5>4, <5>5 DEF is_waiting
      <4>3. QED
        BY <4>1, <4>2
    <3>2. QED
      BY <3>1
  <2>3. CASE b <= k
    <3>1. a \in 1..L /\ b \in 1..L /\ n.reqs[a] = m.reqs[a] /\ n.reqs[b] = m.reqs[b]
      BY <1>1, <1>2, <1>4, <2>1, <2>3
    <3>2. QED
      BY <2>1, <3>1 DEF WellFormed, Ordered, is_waiting
  <2>4. QED
    BY <1>1, <1>2, <2>2, <2>3
<1>8. Distinct(n)
  <2>1. SUFFICES ASSUME NEW a \in 1..(L + 1), NEW b \in 1..(L + 1), n.reqs[a] = n.reqs[b]
                 PROVE  a = b
    BY <1>4 DEF Distinct
  <2> DEFINE old(i) == IF i <= k THEN i ELSE i - 1
  <2>2. \A i \in 1..(L + 1) : i # k + 1 => old(i) \in 1..L /\ n.reqs[i] = m.reqs[old(i)]
    BY <1>1, <1>2, <1>4
  <2>3. n.reqs[k + 1] = e
    <3>1. k \in 0..L
      BY <1>2
    <3>2. k + 1 \in 1..(L + 1) /\ ~(k + 1 <= k)
      BY <1>1, <3>1
    <3>3. QED
      BY <1>4, <3>2
  <2>4. CASE a = k + 1 \/ b = k + 1
    <3>1. \A i \in 1..(L + 1) : i # k + 1 => n.reqs[i] # e
      BY <1>6, <2>2
    <3>2. CASE a = k + 1
      BY <2>1, <2>3, <3>1, <3>2
    <3>3. CASE b = k + 1
      BY <2>1, <2>3, <3>1, <3>3
    <3>4. QED
      BY <2>4, <3>2, <3>3
  <2>5. CASE a # k + 1 /\ b # k + 1
    <3>1. old(a) = old(b)
      BY <2>1, <2>2, <2>5 DEF WellFormed, Distinct
    <3>2. QED
      BY <1>1, <1>2, <2>5, <3>1
  <2>6. QED
    BY <2>4, <2>5
<1>9. Queued(n) = Queued(m) \cup {e}
  <2>1. ASSUME NEW x \in Queued(n) PROVE x \in Queued(m) \cup {e}
    <3>1. PICK i \in 1..(L + 1) : x = n.reqs[i]
      BY <1>4 DEF Queued
    <3>2. CASE i = k + 1
      BY <1>1, <1>2, <1>4, <3>1, <3>2
    <3>3. CASE i # k + 1
      <4> DEFINE h == IF i <= k THEN i ELSE i - 1
      <4>1. h \in 1..L /\ x = m.reqs[h]
        BY <1>1, <1>2, <1>4, <3>1, <3>3
      <4>2. QED
        BY <4>1 DEF Queued
    <3>4. QED
      BY <3>2, <3>3
  <2>2. ASSUME NEW x \in Queued(m) PROVE x \in Queued(n)
    <3>1. PICK i \in 1..L : x = m.reqs[i]
      BY DEF Queued
    <3> DEFINE h == IF i <= k THEN i ELSE i + 1
    <3>2. h \in 1..(L + 1) /\ n.reqs[h] = m.reqs[i]
      BY <1>1, <1>2, <1>4
    <3>3. QED
      BY <1>4, <3>1, <3>2 DEF Queued
  <2>3. e \in Queued(n)
    <3>1. k + 1 \in 1..(L + 1) /\ n.reqs[k + 1] = e
      BY <1>1, <1>2, <1>4
    <3>2. QED
      BY <1>4, <3>1 DEF Queued
  <2>4. QED
    BY <2>1, <2>2, <2>3
<1>10. QED
  BY <1>3, <1>5, <1>7, <1>8, <1>9 DEF WellFormed, n

\* Only elems are queued.
LEMMA QueuedElem ==
  ASSUME NEW m, WellFormed(m)
  PROVE  Queued(m) \subseteq Elem
<1>1. m.reqs \in Seq(Elem)
  BY DEF WellFormed, MultiplexerType
<1>2. QED
  BY <1>1 DEF Queued

\* Notifying requests leaves the queue alone.
LEMMA Notify ==
  ASSUME NEW m, WellFormed(m), NEW S \in SUBSET Elem, NEW err \in Error
  PROVE  /\ WellFormed(notify_done(m, S))
         /\ WellFormed(notify_error(m, S, err))
         /\ notify_done(m, S) = [m EXCEPT !.done = m.done \cup S]
         /\ notify_error(m, S, err) =
              [m EXCEPT !.done = m.done \cup S, !.ec = notify_error(m, S, err).ec]
<1> DEFINE d == notify_done(m, S)
           n == notify_error(m, S, err)
<1>1. m \in MultiplexerType
  BY DEF WellFormed
<1>2. d = [m EXCEPT !.done = m.done \cup S] /\ d \in MultiplexerType
  BY <1>1, Zenon DEF notify_done, MultiplexerType
<1>3. n.ec \in [Elem -> Error] /\ n = [d EXCEPT !.ec = n.ec]
  BY <1>1, <1>2 DEF notify_error, MultiplexerType, Error
<1> HIDE DEF n, d
<1>4. n = [m EXCEPT !.done = m.done \cup S, !.ec = n.ec] /\ n \in MultiplexerType
  BY <1>1, <1>2, <1>3, Zenon DEF MultiplexerType
<1>5. d.reqs = m.reqs /\ d.status = m.status /\ n.reqs = m.reqs /\ n.status = m.status
  BY <1>1, <1>2, <1>4, Zenon DEF MultiplexerType
<1>6. WellFormed(d)
  <2>1. Ordered(d) /\ Distinct(d)
    BY <1>5 DEF WellFormed, Ordered, Distinct, is_waiting
  <2>2. QED
    BY <1>2, <2>1 DEF WellFormed
<1>7. WellFormed(n)
  <2>1. Ordered(n) /\ Distinct(n)
    BY <1>5 DEF WellFormed, Ordered, Distinct, is_waiting
  <2>2. QED
    BY <1>4, <2>1 DEF WellFormed
<1>8. QED
  BY <1>2, <1>4, <1>6, <1>7 DEF d, n

\* prepare_write stages what waits: nothing in the queue is waiting after it.
LEMMA PrepareWriteLemma ==
  ASSUME NEW m, WellFormed(m)
  PROVE  /\ to_stage(m) \in Seq(Elem)
         /\ WellFormed(prepare_write(m))
         /\ Queued(prepare_write(m)) = Queued(m)
         /\ \A e \in Elem \ Queued(m) : prepare_write(m).status[e] = m.status[e]
         /\ prepare_write(m).done = m.done
         /\ prepare_write(m).cancel_run_called = m.cancel_run_called
<1> DEFINE n == prepare_write(m)
           st == [e \in Elem |->
                    IF e \in Queued(m) /\ is_waiting(m, e) THEN "staged" ELSE m.status[e]]
<1>1. m \in MultiplexerType /\ m.reqs \in Seq(Elem) /\ m.write_buffer \in Seq(Elem)
  BY DEF WellFormed, MultiplexerType
<1>2. to_stage(m) \in Seq(Elem)
  BY <1>1, PartitionPoint DEF to_stage
<1>3. st \in [Elem -> Status]
  BY <1>1 DEF Status, MultiplexerType
<1>4. n = [m EXCEPT !.write_buffer = m.write_buffer \o to_stage(m), !.status = st]
  BY <1>1 DEF prepare_write, MultiplexerType
<1>5. m.write_buffer \o to_stage(m) \in Seq(Elem)
  BY <1>1, <1>2
<1> HIDE DEF n
<1>6. /\ n \in MultiplexerType /\ n.reqs = m.reqs /\ n.status = st /\ n.done = m.done
      /\ n.cancel_run_called = m.cancel_run_called
  <2> HIDE DEF st
  <2>1. QED
    BY <1>1, <1>3, <1>4, <1>5, Zenon DEF MultiplexerType
<1>7. \A i \in 1..Len(m.reqs) :
         n.status[m.reqs[i]] = IF is_waiting(m, m.reqs[i]) THEN "staged" ELSE m.status[m.reqs[i]]
  BY <1>1, <1>6 DEF Queued
<1>8. Ordered(n)
  <2>1. SUFFICES ASSUME NEW i \in 1..Len(m.reqs), NEW k \in 1..Len(m.reqs), i < k
                 PROVE  /\ n.status[m.reqs[i]] = "waiting" => n.status[m.reqs[k]] = "waiting"
                        /\ n.status[m.reqs[i]] = "staged" => n.status[m.reqs[k]] # "written"
    <3> HIDE DEF st
    <3>1. n.reqs = m.reqs
      BY <1>6
    <3>2. QED
      BY <3>1 DEF Ordered, is_waiting
  <2>2. /\ is_waiting(m, m.reqs[i]) => is_waiting(m, m.reqs[k])
        /\ m.status[m.reqs[i]] = "staged" => m.status[m.reqs[k]] # "written"
    BY <2>1 DEF WellFormed, Ordered
  <2>3. QED
    BY <1>7, <2>2 DEF is_waiting
<1>9. WellFormed(n) /\ Queued(n) = Queued(m)
  BY <1>6, <1>8 DEF WellFormed, Distinct, Queued
<1>10. \A e \in Elem \ Queued(m) : n.status[e] = m.status[e]
  BY <1>6
<1>11. QED
  BY <1>2, <1>6, <1>9, <1>10 DEF n

\* commit_write releases only requests that it also notifies.
LEMMA CommitWriteLemma ==
  ASSUME NEW m, WellFormed(m)
  PROVE  /\ WellFormed(commit_write(m))
         /\ Queued(commit_write(m)) \subseteq Queued(m)
         /\ commit_write(m).done = m.done \cup (Queued(m) \ Queued(commit_write(m)))
         /\ \A e \in Elem : is_waiting(m, e) => is_waiting(commit_write(m), e)
         /\ \A e \in Elem \ Queued(m) : commit_write(m).status[e] = m.status[e]
         /\ commit_write(m).cancel_run_called = m.cancel_run_called
<1> DEFINE st == [e \in Elem |->
                    IF e \in Queued(m) /\ m.status[e] = "staged" THEN "written"
                                                               ELSE m.status[e]]
           w == [m EXCEPT !.write_buffer = << >>, !.status = st]
           S == {e \in Queued(w) : w.status[e] = "written" /\ Expected[e] = 0}
           d == notify_done(w, S)
           n == erase(d, S)
<1>1. m \in MultiplexerType /\ m.reqs \in Seq(Elem)
  BY DEF WellFormed, MultiplexerType
<1>2. st \in [Elem -> Status]
  BY <1>1 DEF Status, MultiplexerType
<1>3. commit_write(m) = n
  BY <1>1 DEF commit_write, release_push_requests, MultiplexerType
<1>4. /\ w \in MultiplexerType /\ w.reqs = m.reqs /\ w.status = st /\ w.done = m.done
      /\ w.cancel_run_called = m.cancel_run_called
  <2> HIDE DEF st, S, d, n
  <2>1. << >> \in Seq(Elem)
    OBVIOUS
  <2>2. QED
    BY <1>1, <1>2, <2>1, Zenon DEF MultiplexerType
<1> HIDE DEF w
<1>5. \A i \in 1..Len(m.reqs) :
         w.status[m.reqs[i]] = IF m.status[m.reqs[i]] = "staged" THEN "written"
                                                               ELSE m.status[m.reqs[i]]
  BY <1>1, <1>4 DEF Queued
<1>6. Ordered(w)
  <2> HIDE DEF st, S, d, n
  <2>1. SUFFICES ASSUME NEW i \in 1..Len(m.reqs), NEW k \in 1..Len(m.reqs), i < k
                 PROVE  /\ w.status[m.reqs[i]] = "waiting" => w.status[m.reqs[k]] = "waiting"
                        /\ w.status[m.reqs[i]] = "staged" => w.status[m.reqs[k]] # "written"
    BY <1>4 DEF Ordered, is_waiting
  <2>2. /\ m.status[m.reqs[i]] = "waiting" => m.status[m.reqs[k]] = "waiting"
        /\ m.status[m.reqs[i]] = "staged" => m.status[m.reqs[k]] # "written"
    BY <2>1 DEF WellFormed, Ordered, is_waiting
  <2>3. QED
    BY <1>5, <2>2
<1>7. WellFormed(w) /\ Queued(w) = Queued(m)
  <2> HIDE DEF st, S, d, n
  <2>1. Distinct(w) /\ Queued(w) = Queued(m)
    BY <1>4 DEF WellFormed, Distinct, Queued
  <2>2. QED
    BY <1>4, <1>6, <2>1 DEF WellFormed
<1>8. S \in SUBSET Elem /\ S \subseteq Queued(m)
  BY <1>7, QueuedElem
<1> HIDE DEF S, n, d
<1>9. WellFormed(d) /\ d = [w EXCEPT !.done = w.done \cup S]
  BY <1>7, <1>8, Notify, Zenon DEF d, Error
<1>10. Queued(d) = Queued(m) /\ d.done = m.done \cup S /\ d.status = st
       /\ d.cancel_run_called = m.cancel_run_called
  <2> HIDE DEF st
  <2>1. QED
    BY <1>4, <1>7, <1>9 DEF Queued, MultiplexerType
<1>11. /\ WellFormed(n) /\ Queued(n) = Queued(m) \ S
       /\ n = [d EXCEPT !.reqs = Kept(d.reqs, Elem \ S)]
  <2>1. WellFormed(d)
    BY <1>9
  <2>2. /\ WellFormed(n) /\ Queued(n) = Queued(d) \ S
        /\ n = [d EXCEPT !.reqs = Kept(d.reqs, Elem \ S)]
    BY <2>1, Erase, Zenon DEF n
  <2>3. QED
    BY <1>10, <2>2
<1>12. n.done = m.done \cup S /\ n.status = st
       /\ n.cancel_run_called = m.cancel_run_called
  <2> HIDE DEF st
  <2>1. d \in MultiplexerType
    BY <1>9 DEF WellFormed
  <2>2. QED
    BY <1>10, <1>11, <2>1 DEF MultiplexerType
<1>13. n.done = m.done \cup (Queued(m) \ Queued(n))
  BY <1>8, <1>11, <1>12
<1>14. QED
  BY <1>3, <1>11, <1>12, <1>13 DEF is_waiting

\* What erasing requests that are notified of an error does.
LEMMA Dropped ==
  ASSUME NEW m, WellFormed(m), NEW S \in SUBSET Elem
  PROVE  LET n == erase(notify_error(m, S, "aborted"), S)
         IN  /\ WellFormed(n)
             /\ Queued(n) = Queued(m) \ S
             /\ n.done = m.done \cup S
             /\ n.status = m.status
             /\ n.cancel_run_called = m.cancel_run_called
<1> DEFINE d == notify_error(m, S, "aborted")
           n == erase(d, S)
<1>1. WellFormed(d) /\ d = [m EXCEPT !.done = m.done \cup S, !.ec = d.ec]
  BY Notify, Zenon DEF Error
<1>2. m \in MultiplexerType
  BY DEF WellFormed
<1> HIDE DEF d
<1>3. /\ d.done = m.done \cup S /\ d.status = m.status /\ Queued(d) = Queued(m)
      /\ d.cancel_run_called = m.cancel_run_called
  <2>1. /\ d.done = m.done \cup S /\ d.status = m.status /\ d.reqs = m.reqs
        /\ d.cancel_run_called = m.cancel_run_called
    BY <1>1, <1>2, Zenon DEF MultiplexerType
  <2>2. QED
    BY <2>1 DEF Queued
<1>4. d \in MultiplexerType
  BY <1>1 DEF WellFormed
<1>5. /\ WellFormed(n) /\ Queued(n) = Queued(m) \ S
      /\ n = [d EXCEPT !.reqs = Kept(d.reqs, Elem \ S)]
  <2>1. WellFormed(d)
    BY <1>1
  <2>2. /\ WellFormed(n) /\ Queued(n) = Queued(d) \ S
        /\ n = [d EXCEPT !.reqs = Kept(d.reqs, Elem \ S)]
    BY <2>1, Erase, Zenon
  <2>3. QED
    BY <1>3, <2>2
<1> HIDE DEF n
<1>6. /\ n.done = m.done \cup S /\ n.status = m.status
      /\ n.cancel_run_called = m.cancel_run_called
  BY <1>3, <1>4, <1>5 DEF MultiplexerType
<1>7. QED
  BY <1>5, <1>6 DEF n, d

\* cancel_waiting drops requests that it also notifies.
LEMMA CancelWaitingLemma ==
  ASSUME NEW m, WellFormed(m)
  PROVE  /\ WellFormed(cancel_waiting(m))
         /\ Queued(cancel_waiting(m)) \subseteq Queued(m)
         /\ cancel_waiting(m).done = m.done \cup (Queued(m) \ Queued(cancel_waiting(m)))
         /\ cancel_waiting(m).status = m.status
         /\ cancel_waiting(m).cancel_run_called = m.cancel_run_called
<1> DEFINE S == {e \in Queued(m) : is_waiting(m, e)}
           n == erase(notify_error(m, S, "aborted"), S)
<1>1. S \in SUBSET Elem /\ S \subseteq Queued(m)
  BY QueuedElem
<1>2. cancel_waiting(m) = n
  BY DEF cancel_waiting
<1> HIDE DEF S
<1>3. /\ WellFormed(n) /\ Queued(n) = Queued(m) \ S /\ n.done = m.done \cup S
      /\ n.status = m.status /\ n.cancel_run_called = m.cancel_run_called
  BY <1>1, Dropped
<1> HIDE DEF n
<1>4. QED
  BY <1>1, <1>2, <1>3

\* remove takes out a request that is waiting, and no other.
LEMMA RemoveLemma ==
  ASSUME NEW m, WellFormed(m), NEW e \in Elem, is_waiting(m, e)
  PROVE  /\ WellFormed(remove(m, e))
         /\ Queued(remove(m, e)) = Queued(m) \ {e}
         /\ remove(m, e).done = m.done
         /\ remove(m, e).status = m.status
         /\ remove(m, e).cancel_run_called = m.cancel_run_called
<1> DEFINE n == erase(m, {e})
<1>1. remove(m, e) = n
  BY DEF remove
<1>2. /\ WellFormed(n) /\ Queued(n) = Queued(m) \ {e}
      /\ n = [m EXCEPT !.reqs = Kept(m.reqs, Elem \ {e})]
  BY Erase, Zenon
<1>3. m \in MultiplexerType
  BY DEF WellFormed
<1> HIDE DEF n
<1>4. /\ n.done = m.done /\ n.status = m.status
      /\ n.cancel_run_called = m.cancel_run_called
  BY <1>2, <1>3 DEF MultiplexerType
<1>5. QED
  BY <1>1, <1>2, <1>4

(***************************************************************************)
(* The first cancel_on_conn_lost notifies what it drops and leaves nothing *)
(* in the queue that counts as sent; further calls do nothing.             *)
(***************************************************************************)
LEMMA ConnLostLemma ==
  ASSUME NEW m, WellFormed(m)
  PROVE  LET n == cancel_on_conn_lost(m)
         IN  /\ WellFormed(n)
             /\ Queued(n) \subseteq Queued(m)
             /\ n.done = m.done \cup (Queued(m) \ Queued(n))
             /\ \A e \in Elem : is_waiting(m, e) => is_waiting(n, e)
             /\ ~m.cancel_run_called => \A e \in Queued(n) : is_waiting(n, e)
             /\ n.cancel_run_called
<1>1. CASE m.cancel_run_called
  <2>1. cancel_on_conn_lost(m) = m
    BY <1>1 DEF cancel_on_conn_lost
  <2>2. m.done = m.done \cup (Queued(m) \ Queued(m))
    OBVIOUS
  <2>3. QED
    BY <1>1, <2>1, <2>2
<1>2. CASE ~m.cancel_run_called
  <2> DEFINE S == lost_with_conn(m)
             d == erase(notify_error(m, S, "aborted"), S)
             st == [e \in Elem |-> IF e \in Queued(m) \ S THEN "waiting" ELSE d.status[e]]
             n == cancel_on_conn_lost(m)
  <2>1. S \in SUBSET Elem /\ S \subseteq Queued(m)
    BY QueuedElem DEF lost_with_conn
  <2>2. /\ WellFormed(d) /\ Queued(d) = Queued(m) \ S /\ d.done = m.done \cup S
        /\ d.status = m.status
    <3> HIDE DEF S
    <3>1. QED
      BY <2>1, Dropped
  <2>3. n = [d EXCEPT !.cancel_run_called = TRUE, !.status = st]
    BY <1>2, <2>2 DEF cancel_on_conn_lost, WellFormed, MultiplexerType
  <2> HIDE DEF n, d, S
  <2>4. d \in MultiplexerType
    BY <2>2 DEF WellFormed
  <2>5. st \in [Elem -> Status]
    BY <2>4 DEF Status, MultiplexerType
  <2>6. /\ n \in MultiplexerType /\ n.status = st /\ n.reqs = d.reqs /\ n.done = d.done
        /\ n.cancel_run_called
    <3> HIDE DEF st
    <3>1. QED
      BY <2>3, <2>4, <2>5, Zenon DEF MultiplexerType
  <2>7. Queued(n) = Queued(m) \ S
    <3> HIDE DEF st
    <3>1. Queued(n) = Queued(d)
      BY <2>6, Zenon DEF Queued
    <3>2. QED
      BY <2>2, <3>1
  <2>8. \A e \in Queued(n) : is_waiting(n, e)
    BY <2>6, <2>7, QueuedElem DEF is_waiting
  <2>9. Ordered(n)
    BY <2>8 DEF Ordered, Queued, is_waiting
  <2>10. WellFormed(n)
    BY <2>2, <2>6, <2>9 DEF WellFormed, Distinct
  <2>11. n.done = m.done \cup (Queued(m) \ Queued(n))
    BY <2>1, <2>2, <2>6, <2>7
  <2>12. \A e \in Elem : is_waiting(m, e) => is_waiting(n, e)
    BY <2>2, <2>6 DEF is_waiting
  <2>13. QED
    BY <2>6, <2>7, <2>8, <2>10, <2>11, <2>12 DEF n
<1>3. QED
  BY <1>1, <1>2

\* reset prepares for a new connection and keeps the queue.
LEMMA ResetLemma ==
  ASSUME NEW m, WellFormed(m)
  PROVE  /\ WellFormed(reset(m))
         /\ Queued(reset(m)) = Queued(m)
         /\ reset(m).done = m.done
         /\ reset(m).status = m.status
         /\ ~reset(m).cancel_run_called
<1> DEFINE n == reset(m)
<1>1. m \in MultiplexerType /\ << >> \in Seq(Elem) /\ << >> \in Seq(Part)
  BY DEF WellFormed
<1>2. /\ n \in MultiplexerType /\ n.reqs = m.reqs /\ n.done = m.done
      /\ n.status = m.status /\ ~n.cancel_run_called
  BY <1>1, Zenon DEF reset, MultiplexerType
<1> HIDE DEF n
<1>3. Queued(n) = Queued(m) /\ Distinct(n)
  BY <1>2, Zenon DEF WellFormed, Distinct, Queued
<1>4. Ordered(n)
  BY <1>2, Zenon DEF WellFormed, Ordered, is_waiting
<1>5. QED
  BY <1>2, <1>3, <1>4 DEF n, WellFormed

\* The parser stops at a part that has arrived and that it had not yet seen.
LEMMA ParseEnd ==
  ASSUME NEW m, WellFormed(m), Len(m.read_buffer) > m.parsed
  PROVE  /\ parse_end(m) \in (m.parsed + 1)..Len(m.read_buffer)
         /\ parse_nodes(m) \in Seq(Part)
         /\ parse_outcome(m) \in {"more", "done", "bad"}
<1> DEFINE Ends == {k \in (m.parsed + 1)..Len(m.read_buffer) :
                      m.read_buffer[k].end # "more"}
<1>1. m.read_buffer \in Seq(Part) /\ m.parsed \in Nat /\ Len(m.read_buffer) \in Nat
  BY DEF WellFormed, MultiplexerType
<1>2. parse_end(m) \in (m.parsed + 1)..Len(m.read_buffer)
  <2>1. CASE Ends = {}
    BY <1>1, <2>1 DEF parse_end
  <2>2. CASE Ends # {}
    <3>1. Ends \in SUBSET Nat /\ Ends \subseteq (m.parsed + 1)..Len(m.read_buffer)
      BY <1>1
    <3>2. parse_end(m) = CHOOSE k \in Ends : \A l \in Ends : k <= l
      BY <2>2, Zenon DEF parse_end
    <3> HIDE DEF Ends
    <3>3. \E k \in Ends : \A l \in Ends : k <= l
      BY <2>2, <3>1, Least
    <3>4. parse_end(m) \in Ends
      BY <3>2, <3>3
    <3>5. QED
      BY <3>1, <3>4, Zenon
  <2>3. QED
    BY <2>1, <2>2
<1>3. parse_nodes(m) \in Seq(Part)
  BY <1>1, <1>2 DEF parse_nodes
<1>4. parse_outcome(m) \in {"more", "done", "bad"}
  <2>1. m.read_buffer[parse_end(m)] \in Part
    BY <1>1, <1>2
  <2>2. QED
    BY <2>1 DEF parse_outcome, Part
<1>5. QED
  BY <1>2, <1>3, <1>4

\* pop_front: only the request in front leaves.
LEMMA Pop ==
  ASSUME NEW m, WellFormed(m), m.reqs # << >>
  PROVE  LET n == [m EXCEPT !.reqs = Tail(m.reqs)]
         IN  /\ WellFormed(n)
             /\ Head(m.reqs) \in Queued(m)
             /\ Queued(n) = Queued(m) \ {Head(m.reqs)}
<1> DEFINE n == [m EXCEPT !.reqs = Tail(m.reqs)]
           L == Len(m.reqs)
<1>1. m \in MultiplexerType /\ m.reqs \in Seq(Elem) /\ L \in Nat
  BY DEF WellFormed, MultiplexerType
<1>2. /\ n \in MultiplexerType /\ n.status = m.status /\ L > 0 /\ Len(n.reqs) = L - 1
      /\ \A i \in 1..(L - 1) : n.reqs[i] = m.reqs[i + 1]
  <2> DEFINE t == Tail(m.reqs)
  <2>1. /\ t \in Seq(Elem) /\ L > 0 /\ Len(t) = L - 1
        /\ \A i \in 1..(L - 1) : t[i] = m.reqs[i + 1]
    BY <1>1
  <2> HIDE DEF t
  <2>2. n.reqs = t /\ n \in MultiplexerType /\ n.status = m.status
    BY <1>1, <2>1, Zenon DEF MultiplexerType, t
  <2>3. QED
    BY <2>1, <2>2
<1>3. Head(m.reqs) = m.reqs[1] /\ 1 \in 1..L
  BY <1>1, <1>2
<1> HIDE DEF n
<1>4. Ordered(n)
  <2>0. n.status = m.status /\ Len(n.reqs) = L - 1
    BY <1>2
  <2>1. SUFFICES ASSUME NEW a \in 1..(L - 1), NEW b \in 1..(L - 1), a < b
                 PROVE  /\ m.status[n.reqs[a]] = "waiting" => m.status[n.reqs[b]] = "waiting"
                        /\ m.status[n.reqs[a]] = "staged" => m.status[n.reqs[b]] # "written"
    BY <2>0 DEF Ordered, is_waiting
  <2>2. a + 1 \in 1..L /\ b + 1 \in 1..L /\ a + 1 < b + 1
    BY <1>1, <2>1
  <2>3. n.reqs[a] = m.reqs[a + 1] /\ n.reqs[b] = m.reqs[b + 1]
    BY <1>2
  <2>4. QED
    BY <2>2, <2>3 DEF WellFormed, Ordered, is_waiting
<1>5. Distinct(n)
  <2>1. SUFFICES ASSUME NEW a \in 1..(L - 1), NEW b \in 1..(L - 1), n.reqs[a] = n.reqs[b]
                 PROVE  a = b
    BY <1>2 DEF Distinct
  <2>2. a + 1 \in 1..L /\ b + 1 \in 1..L /\ m.reqs[a + 1] = m.reqs[b + 1]
    BY <1>1, <1>2, <2>1
  <2>3. a + 1 = b + 1
    BY <2>2 DEF WellFormed, Distinct
  <2>4. QED
    BY <1>1, <2>3
<1>6. Queued(n) = Queued(m) \ {Head(m.reqs)}
  <2>1. ASSUME NEW x \in Queued(n) PROVE x \in Queued(m) \ {Head(m.reqs)}
    <3>1. PICK i \in 1..(L - 1) : x = n.reqs[i]
      BY <1>2 DEF Queued
    <3>2. i + 1 \in 1..L /\ i + 1 # 1 /\ x = m.reqs[i + 1]
      BY <1>1, <1>2, <3>1
    <3>3. x # m.reqs[1]
      BY <1>3, <3>2 DEF WellFormed, Distinct
    <3>4. QED
      BY <1>3, <3>2, <3>3 DEF Queued
  <2>2. ASSUME NEW x \in Queued(m) \ {Head(m.reqs)} PROVE x \in Queued(n)
    <3>1. PICK i \in 1..L : x = m.reqs[i] /\ i # 1
      BY <1>3 DEF Queued
    <3>2. i - 1 \in 1..(L - 1) /\ n.reqs[i - 1] = m.reqs[i]
      BY <1>1, <1>2, <3>1
    <3>3. QED
      BY <1>2, <3>1, <3>2, Zenon DEF Queued
  <2>3. QED
    BY <2>1, <2>2
<1>7. Head(m.reqs) \in Queued(m)
  BY <1>3 DEF Queued
<1>8. QED
  BY <1>2, <1>4, <1>5, <1>6, <1>7, Zenon DEF WellFormed, n

\* Fields that the queue does not depend on.
LEMMA SameQueue ==
  ASSUME NEW m, WellFormed(m), NEW n \in MultiplexerType,
         n.reqs = m.reqs, n.status = m.status
  PROVE  WellFormed(n) /\ Queued(n) = Queued(m)
BY DEF WellFormed, Ordered, Distinct, Queued, is_waiting

\* commit_response pops the request in front only together with its notification.
LEMMA CommitResponse ==
  ASSUME NEW m, WellFormed(m), m.reqs # << >>, m.remaining[Head(m.reqs)] # 0
  PROVE  LET n == commit_response(m)
         IN  /\ WellFormed(n)
             /\ Queued(n) \subseteq Queued(m)
             /\ n.done = m.done \cup (Queued(m) \ Queued(n))
             /\ n.status = m.status
             /\ n.cancel_run_called = m.cancel_run_called
<1> DEFINE f == Head(m.reqs)
           c == [m EXCEPT !.remaining[f] = @ - 1]
           d == notify_done(c, {f})
           p == [d EXCEPT !.reqs = Tail(d.reqs)]
           n == commit_response(m)
<1>1. m \in MultiplexerType /\ f \in Queued(m) /\ f \in Elem
  BY Pop, QueuedElem, Zenon DEF WellFormed
<1> HIDE DEF f
<1>2. /\ c \in MultiplexerType /\ c.reqs = m.reqs /\ c.status = m.status
      /\ c.done = m.done /\ c.cancel_run_called = m.cancel_run_called
  <2> DEFINE r == [m.remaining EXCEPT ![f] = @ - 1]
  <2>1. m.remaining \in [Elem -> Nat] /\ m.remaining[f] # 0
    BY <1>1 DEF MultiplexerType, f
  <2>2. r \in [Elem -> Nat]
    BY <1>1, <2>1
  <2>3. c = [m EXCEPT !.remaining = r]
    BY <1>1 DEF MultiplexerType
  <2> HIDE DEF r, c
  <2>4. QED
    BY <1>1, <2>2, <2>3, Zenon DEF MultiplexerType
<1> HIDE DEF c
<1>3. WellFormed(c) /\ Queued(c) = Queued(m)
  BY <1>2, SameQueue
<1>4. CASE n = c
  <2>1. n.done = m.done \cup (Queued(m) \ Queued(n))
    BY <1>2, <1>3, <1>4
  <2>2. QED
    BY <1>2, <1>3, <1>4, <2>1
<1>5. CASE n = p
  <2>1. WellFormed(d) /\ d = [c EXCEPT !.done = c.done \cup {f}]
    <3>1. {f} \in SUBSET Elem /\ "none" \in Error
      BY <1>1 DEF Error
    <3>2. QED
      BY <1>3, <3>1, Notify, Zenon
  <2> HIDE DEF d
  <2>2. /\ d.reqs = m.reqs /\ d.status = m.status /\ d.done = m.done \cup {f}
        /\ d.cancel_run_called = m.cancel_run_called
    BY <1>2, <2>1 DEF MultiplexerType
  <2>3. d \in MultiplexerType /\ Queued(d) = Queued(m)
    BY <2>1, <2>2 DEF WellFormed, Queued
  <2>4. WellFormed(p) /\ Queued(p) = Queued(m) \ {f}
    BY <2>1, <2>2, <2>3, Pop, Zenon DEF f
  <2>5. /\ p.status = m.status /\ p.done = m.done \cup {f}
        /\ p.cancel_run_called = m.cancel_run_called
    BY <2>2, <2>3 DEF MultiplexerType
  <2> HIDE DEF p, n
  <2>6. n.done = m.done \cup (Queued(m) \ Queued(n))
    BY <1>1, <1>5, <2>4, <2>5
  <2>7. QED
    BY <1>5, <2>4, <2>5, <2>6 DEF n
<1>6. n = c \/ n = p
  BY Zenon DEF commit_response, c, d, f
<1>7. QED
  BY <1>4, <1>5, <1>6, Zenon

\* on_finish_parsing touches the read side only.
LEMMA FinishParsing ==
  ASSUME NEW m, WellFormed(m)
  PROVE  LET n == on_finish_parsing(m)
         IN  /\ n \in MultiplexerType /\ n.reqs = m.reqs /\ n.status = m.status
             /\ n.done = m.done /\ n.cancel_run_called = m.cancel_run_called
<1> DEFINE b == SubSeq(m.read_buffer, m.parsed + 1, Len(m.read_buffer))
<1>1. m \in MultiplexerType /\ m.read_buffer \in Seq(Part) /\ m.parsed \in Nat
  BY DEF WellFormed, MultiplexerType
<1>2. b \in Seq(Part)
  BY <1>1
<1> DEFINE n == [m EXCEPT !.on_push = FALSE, !.parsed = 0, !.read_buffer = b]
<1>3. on_finish_parsing(m) = n
  BY <1>1 DEF on_finish_parsing, MultiplexerType
<1> HIDE DEF b
<1>4. /\ n \in MultiplexerType /\ n.reqs = m.reqs /\ n.status = m.status
      /\ n.done = m.done /\ n.cancel_run_called = m.cancel_run_called
  BY <1>1, <1>2, Zenon DEF MultiplexerType
<1> HIDE DEF n
<1>5. QED
  BY <1>3, <1>4

\* commit_read takes a request out of the queue only with its notification.
LEMMA CommitReadLemma ==
  ASSUME NEW m, WellFormed(m), Len(m.read_buffer) > m.parsed
  PROVE  LET n == commit_read(m)
         IN  /\ WellFormed(n)
             /\ Queued(n) \subseteq Queued(m)
             /\ m.done \cup (Queued(m) \ Queued(n)) \subseteq n.done
             /\ n.done \subseteq m.done \cup Queued(m)
             /\ n.status = m.status
             /\ n.cancel_run_called = m.cancel_run_called
<1> DEFINE push == m.on_push \/ is_next_push(m)
           a == [m EXCEPT !.parsed = parse_end(m), !.on_push = push]
           b == IF push THEN a ELSE commit_response(a)
           x == notify_error(a, {Head(a.reqs)}, "bad")
           n == commit_read(m)
           Good(y) == /\ WellFormed(y)
                      /\ Queued(y) \subseteq Queued(m)
                      /\ m.done \cup (Queued(m) \ Queued(y)) \subseteq y.done
                      /\ y.done \subseteq m.done \cup Queued(m)
                      /\ y.status = m.status
                      /\ y.cancel_run_called = m.cancel_run_called
<1>1. m \in MultiplexerType /\ parse_end(m) \in Nat
  <2>1. m \in MultiplexerType /\ m.parsed \in Nat
    BY DEF WellFormed, MultiplexerType
  <2>2. parse_end(m) \in (m.parsed + 1)..Len(m.read_buffer)
    BY ParseEnd
  <2>3. QED
    BY <2>1, <2>2
<1>2. push \in BOOLEAN
  BY <1>1 DEF is_next_push, MultiplexerType
<1>3. ~push => m.reqs # << >> /\ m.remaining[Head(m.reqs)] # 0
  BY DEF is_next_push
<1> HIDE DEF push
<1>4. /\ a \in MultiplexerType /\ a.reqs = m.reqs /\ a.status = m.status
      /\ a.done = m.done /\ a.cancel_run_called = m.cancel_run_called
      /\ a.remaining = m.remaining
  BY <1>1, <1>2, Zenon DEF MultiplexerType
<1> HIDE DEF a
<1>5. WellFormed(a) /\ Queued(a) = Queued(m)
  BY <1>4, SameQueue
<1>6. Good(a)
  BY <1>4, <1>5
<1>7. Good(b)
  <2>1. CASE push
    BY <1>6, <2>1
  <2>2. CASE ~push
    <3> DEFINE c == commit_response(a)
    <3>1. a.reqs # << >> /\ a.remaining[Head(a.reqs)] # 0
      BY <1>3, <1>4, <2>2
    <3>2. /\ WellFormed(c) /\ Queued(c) \subseteq Queued(a)
          /\ c.done = a.done \cup (Queued(a) \ Queued(c))
          /\ c.status = a.status /\ c.cancel_run_called = a.cancel_run_called
      BY <1>5, <3>1, CommitResponse
    <3> HIDE DEF c
    <3>3. Good(c)
      BY <1>4, <1>5, <3>2
    <3>4. b = c
      BY <2>2 DEF c
    <3>5. QED
      BY <3>3, <3>4
  <2>3. QED
    BY <2>1, <2>2
<1> HIDE DEF b
<1>8. Good(on_finish_parsing(b))
  <2> DEFINE c == on_finish_parsing(b)
  <2>1. /\ c \in MultiplexerType /\ c.reqs = b.reqs /\ c.status = b.status
        /\ c.done = b.done /\ c.cancel_run_called = b.cancel_run_called
    BY <1>7, FinishParsing
  <2> HIDE DEF c
  <2>2. WellFormed(c) /\ Queued(c) = Queued(b)
    BY <1>7, <2>1, SameQueue
  <2>3. Good(c)
    BY <1>7, <2>1, <2>2
  <2>4. QED
    BY <2>3 DEF c
<1>9. ~push => Good(x)
  <2>1. SUFFICES ASSUME ~push PROVE Good(x)
    OBVIOUS
  <2> DEFINE f == Head(a.reqs)
  <2>2. f \in Queued(m) /\ {f} \in SUBSET Elem /\ "bad" \in Error
    BY <1>3, <1>4, <1>5, <2>1, Pop, QueuedElem, Zenon DEF Error
  <2> HIDE DEF f
  <2>3. WellFormed(x) /\ x = [a EXCEPT !.done = a.done \cup {f}, !.ec = x.ec]
    BY <1>5, <2>2, Notify, Zenon DEF f
  <2> HIDE DEF x
  <2>4. /\ x.done = m.done \cup {f} /\ x.reqs = m.reqs /\ x.status = m.status
        /\ x.cancel_run_called = m.cancel_run_called
    BY <1>4, <2>3, Zenon DEF MultiplexerType
  <2>5. Queued(x) = Queued(m)
    BY <2>4 DEF Queued
  <2>6. QED
    BY <2>2, <2>3, <2>4, <2>5
<1> HIDE DEF Good, x
<1>10. n = a \/ n = on_finish_parsing(b) \/ (~push /\ n = x)
  BY ParseEnd DEF commit_read, a, b, x, push
<1>11. Good(n)
  BY <1>6, <1>8, <1>9, <1>10
<1>12. QED
  BY <1>11 DEF Good
==============================================================================
