---------------------------- MODULE PipelineProofs ---------------------------
(***************************************************************************)
(* The queue keeps its order and loses no request, for any number of       *)
(* requests, any configuration of them, and any number of connections,     *)
(* pushes and bad messages.                                                *)
(***************************************************************************)
EXTENDS Pipeline, MultiplexerLemmas

\* All variables but the multiplexer and the ones that the queue depends on.
OthersType ==
  /\ canceled \subseteq Elem
  /\ writing \in BOOLEAN
  /\ reading \in BOOLEAN
  /\ sent \in Seq(Elem)
  /\ answered \in Cursor
  /\ left \in [push: Nat, bad: Nat, conn: Nat]
  /\ response \in [Elem -> Seq(Node)]

\* QueueInv, with the facts that the lemmas on the multiplexer are stated in.
LEMMA QueueInvUnfolded ==
  QueueInv <=>
    /\ WellFormed(mpx)
    /\ started \subseteq Elem
    /\ up \in BOOLEAN
    /\ OthersType
    /\ \A e \in started \ (mpx.done \cup canceled) : e \in Queued(mpx)
    /\ ~up => \A e \in Queued(mpx) : is_waiting(mpx, e)
    /\ Queued(mpx) \subseteq started
    /\ \A e \in Elem \ started : is_waiting(mpx, e)
    /\ up => ~mpx.cancel_run_called
BY DEF QueueInv, TypeOK, OthersType, QueueOrdered, PendingQueued, DownAllWaiting, WellFormed

\* A multiplexer that has just been constructed satisfies the invariant.
LEMMA InitQueueInv == Init => QueueInv
<1> SUFFICES ASSUME Init PROVE QueueInv
  OBVIOUS
<1> USE DEF Init
<1>1. mpx = multiplexer /\ mpx.reqs = << >> /\ mpx.status = [e \in Elem |-> "waiting"]
  BY DEF multiplexer
<1>2. /\ << >> \in Seq(Elem) /\ << >> \in Seq(Part) /\ << >> \in Seq(Node)
      /\ Len(<< >>) = 0
  OBVIOUS
<1>3. mpx \in MultiplexerType
  BY <1>2, ExpectedAssumption DEF multiplexer, MultiplexerType, Status, Error
<1>4. WellFormed(mpx)
  BY <1>1, <1>3 DEF WellFormed, Ordered, Distinct
<1>5. Queued(mpx) = {}
  BY <1>1 DEF Queued
<1>6. OthersType
  BY <1>2, BoundsAssumption, Zenon DEF OthersType, Cursor
<1>7. QED
  BY <1>1, <1>4, <1>5, <1>6, QueueInvUnfolded, Zenon DEF is_waiting

(***************************************************************************)
(* A step keeps QueueInv if it drops from the queue only what it notifies  *)
(* or cancels, leaves waiting what was waiting outside the queue, and does *)
(* not take the connection down without marking the queue waiting.         *)
(***************************************************************************)
LEMMA QueueStep ==
  ASSUME QueueInv, WellFormed(mpx'), OthersType', up' \in BOOLEAN,
         started' = started,
         mpx.done \subseteq mpx'.done, canceled \subseteq canceled',
         Queued(mpx') \subseteq Queued(mpx),
         Queued(mpx) \ Queued(mpx') \subseteq mpx'.done \cup canceled',
         \A e \in Elem \ Queued(mpx) : is_waiting(mpx, e) => is_waiting(mpx', e),
         ~up' => \A e \in Queued(mpx') : is_waiting(mpx', e),
         up' => ~mpx'.cancel_run_called
  PROVE  QueueInv'
<1>1. /\ started \subseteq Elem
      /\ \A e \in started \ (mpx.done \cup canceled) : e \in Queued(mpx)
      /\ Queued(mpx) \subseteq started
      /\ \A e \in Elem \ started : is_waiting(mpx, e)
  BY QueueInvUnfolded
<1>2. \A e \in started' \ (mpx'.done \cup canceled') : e \in Queued(mpx')
  BY <1>1
<1>3. \A e \in Elem \ started' : is_waiting(mpx', e)
  BY <1>1
<1>4. /\ WellFormed(mpx')
      /\ started' \subseteq Elem
      /\ up' \in BOOLEAN
      /\ OthersType'
      /\ \A e \in started' \ (mpx'.done \cup canceled') : e \in Queued(mpx')
      /\ ~up' => \A e \in Queued(mpx') : is_waiting(mpx', e)
      /\ Queued(mpx') \subseteq started'
      /\ \A e \in Elem \ started' : is_waiting(mpx', e)
      /\ up' => ~mpx'.cancel_run_called
  BY <1>1, <1>2, <1>3
<1>5. QED
  BY <1>4 DEF QueueInv, TypeOK, OthersType, QueueOrdered, PendingQueued, DownAllWaiting,
              WellFormed

\* Losing the connection, whoever notices it.
LEMMA ConnLostStep ==
  ASSUME QueueInv, OthersType', started' = started, canceled \subseteq canceled',
         mpx' = cancel_on_conn_lost(mpx), up' = FALSE
  PROVE  QueueInv'
<1>1. /\ WellFormed(mpx)
      /\ ~up => \A e \in Queued(mpx) : is_waiting(mpx, e)
      /\ up => ~mpx.cancel_run_called
      /\ up \in BOOLEAN
  BY QueueInvUnfolded
<1>2. /\ WellFormed(mpx')
      /\ Queued(mpx') \subseteq Queued(mpx)
      /\ mpx'.done = mpx.done \cup (Queued(mpx) \ Queued(mpx'))
      /\ \A e \in Elem : is_waiting(mpx, e) => is_waiting(mpx', e)
      /\ ~mpx.cancel_run_called => \A e \in Queued(mpx') : is_waiting(mpx', e)
  BY <1>1, ConnLostLemma
<1>3. \A e \in Queued(mpx') : is_waiting(mpx', e)
  <2>1. CASE up
    BY <1>1, <1>2, <2>1
  <2>2. CASE ~up
    BY <1>1, <1>2, <2>2, QueuedElem
  <2>3. QED
    BY <2>1, <2>2
<1>4. QED
  BY <1>2, <1>3, QueueStep, Zenon

\* multiplexer::add keeps the queue ordered and free of duplicates.
LEMMA ExecStep ==
  ASSUME QueueInv, NEW e \in Elem, Exec(e)
  PROVE  QueueInv'
<1>1. /\ WellFormed(mpx) /\ OthersType /\ up \in BOOLEAN
      /\ started \subseteq Elem
      /\ \A x \in started \ (mpx.done \cup canceled) : x \in Queued(mpx)
      /\ ~up => \A x \in Queued(mpx) : is_waiting(mpx, x)
      /\ Queued(mpx) \subseteq started
      /\ \A x \in Elem \ started : is_waiting(mpx, x)
      /\ up => ~mpx.cancel_run_called
  BY QueueInvUnfolded
<1>2. /\ e \notin started /\ started' = started \cup {e} /\ mpx' = add(mpx, e)
      /\ up' = up /\ canceled' = canceled /\ OthersType'
  BY <1>1 DEF Exec, OthersType
<1>3. is_waiting(mpx, e) /\ e \notin Queued(mpx)
  BY <1>1, <1>2
<1>4. /\ WellFormed(mpx') /\ Queued(mpx') = Queued(mpx) \cup {e}
      /\ mpx' = [mpx EXCEPT !.reqs = mpx'.reqs]
  BY <1>1, <1>2, <1>3, Add
<1>5. /\ mpx'.done = mpx.done /\ mpx'.status = mpx.status
      /\ mpx'.cancel_run_called = mpx.cancel_run_called
  BY <1>1, <1>4 DEF WellFormed, MultiplexerType
<1>6. /\ started' \subseteq Elem
      /\ \A x \in started' \ (mpx'.done \cup canceled') : x \in Queued(mpx')
      /\ Queued(mpx') \subseteq started'
  BY <1>1, <1>2, <1>4, <1>5
<1>7. /\ ~up' => \A x \in Queued(mpx') : is_waiting(mpx', x)
      /\ \A x \in Elem \ started' : is_waiting(mpx', x)
      /\ up' => ~mpx'.cancel_run_called
  BY <1>1, <1>2, <1>3, <1>4, <1>5 DEF is_waiting
<1>8. QED
  BY <1>1, <1>2, <1>4, <1>6, <1>7
     DEF QueueInv, TypeOK, OthersType, QueueOrdered, PendingQueued, DownAllWaiting, WellFormed

\* Cancelling one async_exec removes its waiting elem, or loses the connection.
LEMMA CancelExecStep ==
  ASSUME QueueInv, NEW e \in Elem, CancelExec(e)
  PROVE  QueueInv'
<1>1. /\ WellFormed(mpx) /\ OthersType /\ up \in BOOLEAN
      /\ ~up => \A x \in Queued(mpx) : is_waiting(mpx, x)
      /\ up => ~mpx.cancel_run_called
  BY QueueInvUnfolded
<1>2. /\ started' = started /\ canceled' = canceled \cup {e} /\ OthersType'
      /\ canceled \subseteq canceled'
  BY <1>1 DEF CancelExec, OthersType
<1>3. CASE is_waiting(mpx, e)
  <2>1. mpx' = remove(mpx, e) /\ up' = up
    BY <1>3 DEF CancelExec
  <2>2. /\ WellFormed(mpx') /\ Queued(mpx') = Queued(mpx) \ {e}
        /\ mpx'.done = mpx.done /\ mpx'.status = mpx.status
        /\ mpx'.cancel_run_called = mpx.cancel_run_called
    BY <1>1, <1>3, <2>1, RemoveLemma
  <2>3. /\ mpx.done \subseteq mpx'.done
        /\ Queued(mpx') \subseteq Queued(mpx)
        /\ Queued(mpx) \ Queued(mpx') \subseteq mpx'.done \cup canceled'
    BY <1>2, <2>2
  <2>4. /\ \A x \in Elem \ Queued(mpx) : is_waiting(mpx, x) => is_waiting(mpx', x)
        /\ ~up' => \A x \in Queued(mpx') : is_waiting(mpx', x)
        /\ up' => ~mpx'.cancel_run_called
    BY <1>1, <2>1, <2>2 DEF is_waiting
  <2>5. QED
    BY <1>1, <1>2, <2>1, <2>2, <2>3, <2>4, QueueStep
<1>4. CASE ~is_waiting(mpx, e)
  <2>1. mpx' = cancel_on_conn_lost(mpx) /\ up' = FALSE
    BY <1>4 DEF CancelExec
  <2>2. QED
    BY <1>2, <2>1, ConnLostStep, Zenon
<1>5. QED
  BY <1>3, <1>4

\* prepare_write stages a suffix of the queue, so the order is kept.
LEMMA PrepareWriteStep ==
  ASSUME QueueInv, PrepareWrite
  PROVE  QueueInv'
<1>1. WellFormed(mpx) /\ OthersType /\ (up => ~mpx.cancel_run_called)
  BY QueueInvUnfolded
<1>2. /\ to_stage(mpx) \in Seq(Elem)
      /\ WellFormed(prepare_write(mpx)) /\ Queued(prepare_write(mpx)) = Queued(mpx)
      /\ \A e \in Elem \ Queued(mpx) : prepare_write(mpx).status[e] = mpx.status[e]
      /\ prepare_write(mpx).done = mpx.done
      /\ prepare_write(mpx).cancel_run_called = mpx.cancel_run_called
  BY <1>1, PrepareWriteLemma
<1>3. /\ up /\ up' = up /\ started' = started /\ canceled' = canceled
      /\ mpx' = prepare_write(mpx) /\ OthersType'
  BY <1>1, <1>2 DEF PrepareWrite, OthersType
<1>4. \A e \in Elem \ Queued(mpx) : is_waiting(mpx, e) => is_waiting(mpx', e)
  BY <1>2, <1>3 DEF is_waiting
<1>5. /\ mpx.done \subseteq mpx'.done /\ canceled \subseteq canceled'
      /\ Queued(mpx') \subseteq Queued(mpx)
      /\ Queued(mpx) \ Queued(mpx') \subseteq mpx'.done \cup canceled'
  BY <1>2, <1>3
<1>6. up' \in BOOLEAN /\ up' /\ ~mpx'.cancel_run_called /\ WellFormed(mpx')
  BY <1>1, <1>2, <1>3, QueueInvUnfolded
<1>7. QED
  BY <1>3, <1>4, <1>5, <1>6, QueueStep

\* commit_write turns staged into written and releases what expects no reply.
LEMMA CommitWriteStep ==
  ASSUME QueueInv, CommitWrite
  PROVE  QueueInv'
<1>1. /\ WellFormed(mpx) /\ OthersType /\ up \in BOOLEAN
      /\ ~up => \A e \in Queued(mpx) : is_waiting(mpx, e)
      /\ up => ~mpx.cancel_run_called
  BY QueueInvUnfolded
<1>2. /\ up' = up /\ started' = started /\ canceled' = canceled
      /\ mpx' = commit_write(mpx) /\ OthersType'
  BY <1>1, Zenon DEF CommitWrite, OthersType
<1>3. /\ WellFormed(mpx')
      /\ Queued(mpx') \subseteq Queued(mpx)
      /\ mpx'.done = mpx.done \cup (Queued(mpx) \ Queued(mpx'))
      /\ \A e \in Elem : is_waiting(mpx, e) => is_waiting(mpx', e)
      /\ mpx'.cancel_run_called = mpx.cancel_run_called
  BY <1>1, <1>2, CommitWriteLemma
<1>4. ~up' => \A e \in Queued(mpx') : is_waiting(mpx', e)
  BY <1>1, <1>2, <1>3, QueuedElem
<1>5. QED
  BY <1>1, <1>2, <1>3, <1>4, QueueStep

\* A failed write loses the connection.
LEMMA WriteErrorStep ==
  ASSUME QueueInv, WriteError
  PROVE  QueueInv'
<1>1. OthersType
  BY QueueInvUnfolded
<1>2. /\ OthersType' /\ started' = started /\ canceled' = canceled
      /\ mpx' = cancel_on_conn_lost(mpx) /\ up' = FALSE
  BY <1>1, Zenon DEF WriteError, OthersType
<1>3. QED
  BY <1>2, ConnLostStep, Zenon

\* cancel(operation::run) loses the connection.
LEMMA CancelRunStep ==
  ASSUME QueueInv, CancelRun
  PROVE  QueueInv'
<1>1. OthersType
  BY QueueInvUnfolded
<1>2. /\ OthersType' /\ started' = started /\ canceled' = canceled
      /\ mpx' = cancel_on_conn_lost(mpx) /\ up' = FALSE
  BY <1>1 DEF CancelRun, OthersType
<1>3. QED
  BY <1>2, ConnLostStep, Zenon

\* cancel(operation::exec) notifies and erases exactly the waiting elems.
LEMMA CancelWaitingStep ==
  ASSUME QueueInv, CancelWaiting
  PROVE  QueueInv'
<1>1. /\ WellFormed(mpx) /\ OthersType /\ up \in BOOLEAN
      /\ ~up => \A e \in Queued(mpx) : is_waiting(mpx, e)
      /\ up => ~mpx.cancel_run_called
  BY QueueInvUnfolded
<1>2. /\ up' = up /\ started' = started /\ canceled' = canceled
      /\ mpx' = cancel_waiting(mpx) /\ OthersType'
  BY <1>1 DEF CancelWaiting, OthersType
<1>3. /\ WellFormed(mpx')
      /\ Queued(mpx') \subseteq Queued(mpx)
      /\ mpx'.done = mpx.done \cup (Queued(mpx) \ Queued(mpx'))
      /\ mpx'.status = mpx.status
      /\ mpx'.cancel_run_called = mpx.cancel_run_called
  BY <1>1, <1>2, CancelWaitingLemma
<1>4. /\ ~up' => \A e \in Queued(mpx') : is_waiting(mpx', e)
      /\ \A e \in Elem \ Queued(mpx) : is_waiting(mpx, e) => is_waiting(mpx', e)
  BY <1>1, <1>2, <1>3 DEF is_waiting
<1>5. QED
  BY <1>1, <1>2, <1>3, <1>4, QueueStep

\* reset, on a queue that only waits, opens the guard of cancel_on_conn_lost.
LEMMA ConnectStep ==
  ASSUME QueueInv, Connect
  PROVE  QueueInv'
<1>1. WellFormed(mpx) /\ OthersType
  BY QueueInvUnfolded
<1>2. /\ up' = TRUE /\ started' = started /\ canceled' = canceled /\ mpx' = reset(mpx)
      /\ reading' = TRUE /\ writing' = writing /\ response' = response
      /\ sent' = << >> /\ answered' = [q |-> 1, j |-> 1]
      /\ left.conn > 0 /\ left' = [left EXCEPT !.conn = @ - 1]
  BY DEF Connect
<1>3. OthersType'
  <2>1. left' \in [push: Nat, bad: Nat, conn: Nat]
    BY <1>1, <1>2 DEF OthersType
  <2>2. << >> \in Seq(Elem)
    OBVIOUS
  <2>3. QED
    BY <1>1, <1>2, <2>1, <2>2 DEF OthersType, Cursor
<1>4. /\ WellFormed(mpx') /\ Queued(mpx') = Queued(mpx) /\ mpx'.done = mpx.done
      /\ mpx'.status = mpx.status /\ ~mpx'.cancel_run_called
  BY <1>1, <1>2, ResetLemma
<1>5. \A e \in Elem \ Queued(mpx) : is_waiting(mpx, e) => is_waiting(mpx', e)
  BY <1>4 DEF is_waiting
<1>6. QED
  BY <1>2, <1>3, <1>4, <1>5, QueueStep

\* A part that arrives in the read buffer does not concern the queue.
LEMMA ArrivesStep ==
  ASSUME QueueInv, NEW part \in Part, Arrives(part),
         answered' \in Cursor, left' \in [push: Nat, bad: Nat, conn: Nat]
  PROVE  QueueInv'
<1>1. WellFormed(mpx) /\ OthersType /\ (up => ~mpx.cancel_run_called)
  BY QueueInvUnfolded
<1>2. /\ up /\ up' = up /\ started' = started /\ canceled' = canceled /\ OthersType'
      /\ mpx' = [mpx EXCEPT !.read_buffer = Append(mpx.read_buffer, part)]
  BY <1>1 DEF Arrives, OthersType
<1>3. mpx \in MultiplexerType /\ Append(mpx.read_buffer, part) \in Seq(Part)
  BY <1>1 DEF WellFormed, MultiplexerType
<1>4. /\ mpx' \in MultiplexerType /\ mpx'.reqs = mpx.reqs /\ mpx'.status = mpx.status
      /\ mpx'.done = mpx.done /\ mpx'.cancel_run_called = mpx.cancel_run_called
  BY <1>2, <1>3, Zenon DEF MultiplexerType
<1>5. WellFormed(mpx') /\ Queued(mpx') = Queued(mpx)
  BY <1>1, <1>4, SameQueue
<1>6. \A e \in Elem \ Queued(mpx) : is_waiting(mpx, e) => is_waiting(mpx', e)
  BY <1>4 DEF is_waiting
<1>7. up' \in BOOLEAN /\ up'
  BY <1>2, QueueInvUnfolded
<1>8. QED
  BY <1>1, <1>2, <1>4, <1>5, <1>6, <1>7, QueueStep, Zenon

\* The number of the part that arrives next.
LEMMA NextPartNat ==
  ASSUME QueueInv
  PROVE  NextPart \in Nat
<1>1. mpx.read_buffer \in Seq(Part)
  BY QueueInvUnfolded DEF WellFormed, MultiplexerType
<1>2. CASE Midway
  <2>1. mpx.read_buffer[Len(mpx.read_buffer)] \in Part
    BY <1>1, <1>2 DEF Midway
  <2>2. QED
    BY <1>2, <2>1 DEF NextPart, Part
<1>3. CASE ~Midway
  BY <1>3 DEF NextPart
<1>4. QED
  BY <1>2, <1>3

\* The arrival of a part of a reply leaves the queue alone.
LEMMA ReadReplyStep ==
  ASSUME QueueInv, NEW end \in {"more", "done", "bad"}, ReadReply(end)
  PROVE  QueueInv'
<1>1. WellFormed(mpx) /\ OthersType
  BY QueueInvUnfolded
<1>2. PICK k \in Owed :
        LET j == IF k = answered.q THEN answered.j ELSE 1
        IN  /\ Arrives([type |-> "reply", q |-> k, j |-> j, p |-> NextPart, end |-> end])
            /\ answered' = IF end = "more" THEN [q |-> k, j |-> j]
                           ELSE IF j < Expected[sent[k]] THEN [q |-> k, j |-> j + 1]
                           ELSE [q |-> k + 1, j |-> 1]
  BY DEF ReadReply
<1> DEFINE j == IF k = answered.q THEN answered.j ELSE 1
           part == [type |-> "reply", q |-> k, j |-> j, p |-> NextPart, end |-> end]
<1>3. k \in Nat /\ answered.q \in Nat /\ answered.j \in Nat
  <2>1. answered.q \in Nat /\ answered.j \in Nat
    BY <1>1 DEF OthersType, Cursor
  <2>2. Received \in Int
    <3>1. Len(sent) \in Nat /\ Len(mpx.write_buffer) \in Nat
      BY <1>1 DEF OthersType, WellFormed, MultiplexerType
    <3>2. QED
      BY <3>1 DEF Received
  <2>3. k \in answered.q..Received
    BY DEF Owed
  <2>4. QED
    BY <2>1, <2>2, <2>3
<1>4. j \in Nat
  BY <1>3
<1>5. part \in Part
  BY <1>3, <1>4, NextPartNat DEF Part
<1>6. answered' \in Cursor
  BY <1>2, <1>3, <1>4 DEF Cursor
<1>7. left' \in [push: Nat, bad: Nat, conn: Nat]
  <2>1. end = "bad" => left.bad > 0
    BY <1>2 DEF Arrives
  <2>2. left' = IF end = "bad" THEN [left EXCEPT !.bad = @ - 1] ELSE left
    BY DEF ReadReply
  <2>3. left \in [push: Nat, bad: Nat, conn: Nat]
    BY <1>1 DEF OthersType
  <2>4. CASE end = "bad"
    BY <2>1, <2>2, <2>3, <2>4
  <2>5. CASE end # "bad"
    BY <2>2, <2>3, <2>5
  <2>6. QED
    BY <2>4, <2>5
<1>8. Arrives(part)
  BY <1>2
<1> HIDE DEF part
<1>9. QED
  BY <1>5, <1>6, <1>7, <1>8, ArrivesStep

\* The arrival of a part of a push leaves the queue alone.
LEMMA ReadPushStep ==
  ASSUME QueueInv, NEW end \in {"more", "done", "bad"}, ReadPush(end)
  PROVE  QueueInv'
<1> DEFINE part == [type |-> "push", q |-> answered.q, j |-> answered.j,
                    p |-> NextPart, end |-> end]
<1>1. OthersType
  BY QueueInvUnfolded
<1>2. /\ Arrives(part) /\ answered' = answered /\ (~Midway => left.push > 0)
      /\ left' = [left EXCEPT !.push = IF Midway THEN @ ELSE @ - 1,
                              !.bad  = IF end = "bad" THEN @ - 1 ELSE @]
  BY DEF ReadPush
<1>3. part \in Part /\ answered' \in Cursor
  BY <1>1, <1>2, NextPartNat DEF OthersType, Cursor, Part
<1>4. left' \in [push: Nat, bad: Nat, conn: Nat]
  <2>1. end = "bad" => left.bad > 0
    BY <1>2 DEF Arrives
  <2>2. left \in [push: Nat, bad: Nat, conn: Nat]
    BY <1>1 DEF OthersType
  <2> DEFINE a == IF Midway THEN left.push ELSE left.push - 1
             b == IF end = "bad" THEN left.bad - 1 ELSE left.bad
  <2>3. a \in Nat /\ b \in Nat
    BY <1>2, <2>1, <2>2
  <2>4. left' = [left EXCEPT !.push = a, !.bad = b]
    BY <1>2, <2>2
  <2> HIDE DEF a, b
  <2>5. QED
    BY <2>2, <2>3, <2>4, Zenon
<1> HIDE DEF part
<1>5. QED
  BY <1>2, <1>3, <1>4, ArrivesStep

\* commit_read pops the front of the queue only when it notifies it.
LEMMA CommitReadStep ==
  ASSUME QueueInv, CommitRead
  PROVE  QueueInv'
<1> DEFINE n == commit_read(mpx)
<1>1. /\ WellFormed(mpx) /\ OthersType /\ up \in BOOLEAN
      /\ up => ~mpx.cancel_run_called
  BY QueueInvUnfolded
<1>2. up /\ Len(mpx.read_buffer) > mpx.parsed /\ started' = started /\ canceled' = canceled
  BY Zenon DEF CommitRead
<1>3. /\ WellFormed(n)
      /\ Queued(n) \subseteq Queued(mpx)
      /\ mpx.done \cup (Queued(mpx) \ Queued(n)) \subseteq n.done
      /\ n.status = mpx.status
      /\ n.cancel_run_called = mpx.cancel_run_called
  BY <1>1, <1>2, CommitReadLemma
<1>4. response' \in [Elem -> Seq(Node)]
  <2>1. CASE mpx.on_push \/ is_next_push(mpx)
    BY <1>1, <2>1, Zenon DEF CommitRead, OthersType
  <2>2. CASE ~(mpx.on_push \/ is_next_push(mpx))
    <3> DEFINE f == Head(mpx.reqs)
    <3>1. f \in Elem
      BY <1>1, <2>2, Pop, QueuedElem, Zenon DEF is_next_push
    <3>2. parse_nodes(mpx) \in Seq(Part)
      BY <1>1, <1>2, ParseEnd
    <3>3. mpx.remaining[f] \in Nat /\ Expected[f] \in Nat
      BY <1>1, <3>1, ExpectedAssumption DEF WellFormed, MultiplexerType
    <3> HIDE DEF f
    <3>4. \A k \in 1..Len(parse_nodes(mpx)) :
             [i   |-> Expected[f] - mpx.remaining[f] + 1,
              own |-> parse_nodes(mpx)[k].type = "reply" /\ sent[parse_nodes(mpx)[k].q] = f,
              j   |-> parse_nodes(mpx)[k].j, p |-> parse_nodes(mpx)[k].p,
              end |-> parse_nodes(mpx)[k].end] \in Node
      <4>1. TAKE k \in 1..Len(parse_nodes(mpx))
      <4> DEFINE x == parse_nodes(mpx)[k]
      <4>2. x \in Part
        BY <3>2
      <4> HIDE DEF x
      <4>3. x.j \in Nat /\ x.p \in Nat /\ x.end \in {"more", "done", "bad"}
        BY <4>2 DEF Part
      <4> DEFINE i == Expected[f] - mpx.remaining[f] + 1
                 own == x.type = "reply" /\ sent[x.q] = f
      <4>4. i \in Int /\ own \in BOOLEAN
        BY <3>3
      <4> HIDE DEF i, own
      <4>5. [i |-> i, own |-> own, j |-> x.j, p |-> x.p, end |-> x.end] \in Node
        BY <4>3, <4>4 DEF Node
      <4>6. QED
        BY <4>5, Zenon DEF x, i, own
    <3>5. Adapted(f) \in Seq(Node)
      <4>1. Len(parse_nodes(mpx)) \in Nat
        BY <3>2
      <4>2. Adapted(f) \in [1..Len(parse_nodes(mpx)) -> Node]
        BY <3>4, Zenon DEF Adapted
      <4>3. QED
        BY <4>1, <4>2
    <3>6. response' = [response EXCEPT ![f] = response[f] \o Adapted(f)]
      BY <2>2, Zenon DEF CommitRead, f
    <3>7. response[f] \o Adapted(f) \in Seq(Node)
      BY <1>1, <3>1, <3>5 DEF OthersType
    <3>8. QED
      BY <1>1, <3>1, <3>6, <3>7 DEF OthersType
  <2>3. QED
    BY <2>1, <2>2
<1>5. OthersType'
  BY <1>1, <1>4, Zenon DEF CommitRead, OthersType
<1>6. CASE parse_outcome(mpx) # "bad"
  <2>1. mpx' = n /\ up' = up
    BY <1>6, Zenon DEF CommitRead
  <2>2. \A e \in Elem \ Queued(mpx) : is_waiting(mpx, e) => is_waiting(mpx', e)
    BY <1>3, <2>1 DEF is_waiting
  <2> HIDE DEF n
  <2>3. /\ mpx.done \subseteq mpx'.done /\ canceled \subseteq canceled'
        /\ Queued(mpx') \subseteq Queued(mpx) /\ WellFormed(mpx')
        /\ Queued(mpx) \ Queued(mpx') \subseteq mpx'.done \cup canceled'
        /\ up' /\ up' \in BOOLEAN /\ ~mpx'.cancel_run_called
    BY <1>1, <1>2, <1>3, <2>1
  <2>4. QED
    BY <1>2, <1>5, <2>2, <2>3, QueueStep
<1>7. CASE parse_outcome(mpx) = "bad"
  <2>1. mpx' = cancel_on_conn_lost(n) /\ up' = FALSE
    BY <1>7, Zenon DEF CommitRead
  <2> HIDE DEF n
  <2>2. /\ WellFormed(mpx')
        /\ Queued(mpx') \subseteq Queued(n)
        /\ mpx'.done = n.done \cup (Queued(n) \ Queued(mpx'))
        /\ \A e \in Elem : is_waiting(n, e) => is_waiting(mpx', e)
        /\ ~n.cancel_run_called => \A e \in Queued(mpx') : is_waiting(mpx', e)
    BY <1>3, <2>1, ConnLostLemma, Zenon
  <2>3. \A e \in Elem \ Queued(mpx) : is_waiting(mpx, e) => is_waiting(mpx', e)
    BY <1>3, <2>2, Zenon DEF is_waiting
  <2>4. /\ mpx.done \subseteq mpx'.done /\ canceled \subseteq canceled'
        /\ Queued(mpx') \subseteq Queued(mpx)
        /\ Queued(mpx) \ Queued(mpx') \subseteq mpx'.done \cup canceled'
    BY <1>2, <1>3, <2>2, Zenon
  <2>5. \A e \in Queued(mpx') : is_waiting(mpx', e)
    BY <1>1, <1>2, <1>3, <2>2
  <2>6. QED
    BY <1>2, <1>5, <2>1, <2>2, <2>3, <2>4, <2>5, QueueStep, Zenon
<1>8. QED
  BY <1>6, <1>7

(***************************************************************************)
(* The queue invariant is inductive.                                       *)
(***************************************************************************)
LEMMA NextQueueInv == QueueInv /\ [Next]_vars => QueueInv'
<1> SUFFICES ASSUME QueueInv, [Next]_vars PROVE QueueInv'
  OBVIOUS
<1>1. ASSUME NEW e \in Elem, Exec(e) PROVE QueueInv'
  BY <1>1, ExecStep
<1>2. ASSUME NEW e \in Elem, CancelExec(e) PROVE QueueInv'
  BY <1>2, CancelExecStep
<1>3. CASE PrepareWrite
  BY <1>3, PrepareWriteStep
<1>4. CASE CommitWrite
  BY <1>4, CommitWriteStep
<1>5. CASE WriteError
  BY <1>5, WriteErrorStep
<1>6. ASSUME NEW end \in {"more", "done", "bad"}, ReadReply(end) PROVE QueueInv'
  BY <1>6, ReadReplyStep
<1>7. ASSUME NEW end \in {"more", "done", "bad"}, ReadPush(end) PROVE QueueInv'
  BY <1>7, ReadPushStep
<1>8. CASE CommitRead
  BY <1>8, CommitReadStep
<1>9. CASE CancelRun
  BY <1>9, CancelRunStep
<1>10. CASE CancelWaiting
  BY <1>10, CancelWaitingStep
<1>11. CASE Connect
  BY <1>11, ConnectStep
<1>12. CASE UNCHANGED vars
  <2>1. TypeOK'
    BY <1>12 DEF vars, QueueInv, TypeOK
  <2>2. QueueOrdered' /\ PendingQueued' /\ DownAllWaiting'
    BY <1>12 DEF vars, QueueInv, QueueOrdered, PendingQueued, DownAllWaiting
  <2>3. QED
    BY <1>12, <2>1, <2>2 DEF vars, QueueInv
<1>13. QED
  BY <1>1, <1>2, <1>3, <1>4, <1>5, <1>6, <1>7, <1>8, <1>9, <1>10, <1>11, <1>12 DEF Next

\* The invariant holds in every reachable state.
THEOREM QueueInvHolds == Spec => []QueueInv
<1>1. QED
  BY InitQueueInv, NextQueueInv, PTL DEF Spec

\* Every variable keeps its type, whatever is called and in whatever order.
THEOREM TypeCorrect == Spec => []TypeOK
<1>1. QueueInv => TypeOK
  BY DEF QueueInv
<1>2. QED
  BY <1>1, QueueInvHolds, PTL

(***************************************************************************)
(* Both binary searches of the multiplexer (add and prepare_write) are     *)
(* only ever applied to a queue that is partitioned.                       *)
(***************************************************************************)
THEOREM QueueOrderedHolds == Spec => []QueueOrdered
<1>1. QueueInv => QueueOrdered
  BY DEF QueueInv
<1>2. QED
  BY <1>1, QueueInvHolds, PTL

(***************************************************************************)
(* No async_exec is left waiting without its elem in the queue, through    *)
(* any number of cancellations, errors and reconnections.                  *)
(***************************************************************************)
THEOREM PendingQueuedHolds == Spec => []PendingQueued
<1>1. QueueInv => PendingQueued
  BY DEF QueueInv
<1>2. QED
  BY <1>1, QueueInvHolds, PTL

\* What survives a lost connection waits to be sent on the next one.
THEOREM DownAllWaitingHolds == Spec => []DownAllWaiting
<1>1. QueueInv => DownAllWaiting
  BY DEF QueueInv
<1>2. QED
  BY <1>1, QueueInvHolds, PTL
==============================================================================
