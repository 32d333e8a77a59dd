------------------------------- MODULE Pipeline ------------------------------
(***************************************************************************)
(* The multiplexer at work: async_exec calls, one writer, one reader and a *)
(* server that answers the commands it receives in order, with pushes in   *)
(* between, over connections that are lost and replaced.  The operations   *)
(* of connection.hpp appear here only as the calls they make on the        *)
(* multiplexer; when they run is left open (module Connection schedules    *)
(* them), so what holds here holds for every schedule.                     *)
(***************************************************************************)
EXTENDS Multiplexer

CONSTANTS
  EarlyReply,  \* may the server answer before the write has completed?
  MaxParts,    \* bound: parts a message arrives in
  MaxPush,     \* bound: pushes the server sends
  MaxBad,      \* bound: messages the parser or an adapter rejects
  MaxConn      \* bound: connections

ASSUME BoundsAssumption ==
  /\ EarlyReply \in BOOLEAN
  /\ MaxParts \in Nat \ {0} /\ MaxPush \in Nat /\ MaxBad \in Nat /\ MaxConn \in Nat

VARIABLES
  mpx,       \* basic_connection::mpx_
  started,   \* the elems whose async_exec has been called
  canceled,  \* the async_exec calls that completed because they were cancelled
  up,        \* the socket is open and run_op has started reader and writer
  writing,   \* an async_write is outstanding
  reading,   \* an async_append_some is outstanding
  sent,      \* history: the requests handed to async_write on this connection
  answered,  \* the server's next reply: the j-th to sent[q]
  left,      \* what is left of each bound
  response   \* history: what the adapter of each elem was given

vars == <<mpx, started, canceled, up, writing, reading, sent, answered, left, response>>

Cursor == [q: Nat, j: Nat]

\* An adapter call: its index argument i, and the part that was passed.
Node == [i: Int, own: BOOLEAN, j: Nat, p: Nat, end: {"more", "done", "bad"}]

(***************************************************************************)
(* The types; among them, no request has been answered more often than it  *)
(* expects: remaining_responses_ is unsigned and must not pass below zero. *)
(***************************************************************************)
TypeOK ==
  /\ mpx \in MultiplexerType
  /\ started \subseteq Elem
  /\ canceled \subseteq Elem
  /\ up \in BOOLEAN
  /\ writing \in BOOLEAN
  /\ reading \in BOOLEAN
  /\ sent \in Seq(Elem)
  /\ answered \in Cursor
  /\ left \in [push: Nat, bad: Nat, conn: Nat]
  /\ response \in [Elem -> Seq(Node)]

Init ==
  /\ mpx = multiplexer
  /\ started = {}
  /\ canceled = {}
  /\ up = FALSE
  /\ writing = FALSE
  /\ reading = FALSE
  /\ sent = << >>
  /\ answered = [q |-> 1, j |-> 1]
  /\ left = [push |-> MaxPush, bad |-> MaxBad, conn |-> MaxConn]
  /\ response = [e \in Elem |-> << >>]

------------------------------------------------------------------------------
\* async_exec: the request joins the queue.
Exec(e) ==
  /\ e \notin started
  /\ started' = started \cup {e}
  /\ mpx' = add(mpx, e)
  /\ UNCHANGED <<canceled, up, writing, reading, sent, answered, left, response>>

(***************************************************************************)
(* The completion of one async_exec is cancelled before the multiplexer    *)
(* notified it: a waiting request leaves the queue, any other one takes    *)
(* the connection with it.                                                 *)
(***************************************************************************)
CancelExec(e) ==
  /\ e \in started \ (mpx.done \cup canceled)
  /\ canceled' = canceled \cup {e}
  /\ IF is_waiting(mpx, e)
     THEN /\ mpx' = remove(mpx, e)
          /\ up' = up
     ELSE /\ mpx' = cancel_on_conn_lost(mpx)
          /\ up' = FALSE
  /\ UNCHANGED <<started, writing, reading, sent, answered, left, response>>

\* The writer coalesces what waits and starts an async_write.
PrepareWrite ==
  /\ up
  /\ ~writing
  /\ to_stage(mpx) # << >>
  /\ mpx' = prepare_write(mpx)
  /\ sent' = sent \o to_stage(mpx)
  /\ writing' = TRUE
  /\ UNCHANGED <<started, canceled, up, reading, answered, left, response>>

\* The write succeeded, perhaps before a close that it did not see.
CommitWrite ==
  /\ writing
  /\ mpx' = commit_write(mpx)
  /\ writing' = FALSE
  /\ UNCHANGED <<started, canceled, up, reading, sent, answered, left, response>>

WriteError ==
  /\ writing
  /\ mpx' = cancel_on_conn_lost(mpx)
  /\ writing' = FALSE
  /\ up' = FALSE
  /\ UNCHANGED <<started, canceled, reading, sent, answered, left, response>>

------------------------------------------------------------------------------
\* The requests that have reached the server, and of those the ones that it
\* has still to answer, as places in sent.
Received == Len(sent) - (IF EarlyReply THEN 0 ELSE Len(mpx.write_buffer))

Owed == {k \in answered.q..Received : Expected[sent[k]] > 0}

\* The last message in the buffer has only arrived in part.
Midway ==
  /\ mpx.read_buffer # << >>
  /\ mpx.read_buffer[Len(mpx.read_buffer)].end = "more"

NextPart ==
  IF Midway THEN mpx.read_buffer[Len(mpx.read_buffer)].p + 1 ELSE 1

\* The message that is arriving, if any, is of this type.
Continues(type) ==
  Midway => mpx.read_buffer[Len(mpx.read_buffer)].type = type

(***************************************************************************)
(* The part joins the read buffer.  One read may bring any number of them; *)
(* the next one starts when all that was read is parsed.                   *)
(***************************************************************************)
Arrives(part) ==
  /\ up
  /\ reading
  /\ part.p = MaxParts => part.end # "more"
  /\ part.end = "bad" => left.bad > 0
  /\ mpx' = [mpx EXCEPT !.read_buffer = Append(@, part)]
  /\ UNCHANGED <<started, canceled, up, writing, reading, sent, response>>

\* async_append_some: a part of the server's next reply is read.
ReadReply(end) ==
  /\ Continues("reply")
  /\ \E k \in Owed :
       /\ \A l \in Owed : k <= l
       /\ LET j == IF k = answered.q THEN answered.j ELSE 1
          IN  /\ Arrives([type |-> "reply", q |-> k, j |-> j, p |-> NextPart, end |-> end])
              /\ answered' =
                   IF end = "more" THEN [q |-> k, j |-> j]
                   ELSE IF j < Expected[sent[k]] THEN [q |-> k, j |-> j + 1]
                   ELSE [q |-> k + 1, j |-> 1]
  /\ left' = IF end = "bad" THEN [left EXCEPT !.bad = @ - 1] ELSE left

\* async_append_some: a part of a push is read.
ReadPush(end) ==
  /\ Continues("push")
  /\ ~Midway => left.push > 0
  /\ Arrives([type |-> "push", q |-> answered.q, j |-> answered.j,
              p |-> NextPart, end |-> end])
  /\ left' = [left EXCEPT !.push = IF Midway THEN @ ELSE @ - 1,
                          !.bad  = IF end = "bad" THEN @ - 1 ELSE @]
  /\ UNCHANGED answered

\* The adapter calls that commit_read makes for the request in front.
Adapted(f) ==
  [k \in 1..Len(parse_nodes(mpx)) |->
     LET part == parse_nodes(mpx)[k]
     IN  [i   |-> Expected[f] - mpx.remaining[f] + 1,
          own |-> part.type = "reply" /\ sent[part.q] = f,
          j   |-> part.j, p |-> part.p, end |-> part.end]]

\* reader_op: commit_read, and the end of the connection if it fails.
CommitRead ==
  /\ up
  /\ Len(mpx.read_buffer) > mpx.parsed
  /\ IF parse_outcome(mpx) = "bad"
     THEN /\ mpx' = cancel_on_conn_lost(commit_read(mpx))
          /\ up' = FALSE
     ELSE /\ mpx' = commit_read(mpx)
          /\ up' = up
  /\ reading' = (Len(mpx'.read_buffer) = mpx'.parsed)
  /\ response' =
       IF mpx.on_push \/ is_next_push(mpx) THEN response
       ELSE [response EXCEPT ![Head(mpx.reqs)] = @ \o Adapted(Head(mpx.reqs))]
  /\ UNCHANGED <<started, canceled, writing, sent, answered, left>>

------------------------------------------------------------------------------
\* cancel(operation::run): by the user, a read error, HELLO or a pong timeout.
CancelRun ==
  /\ mpx' = cancel_on_conn_lost(mpx)
  /\ up' = FALSE
  /\ UNCHANGED <<started, canceled, writing, reading, sent, answered, left, response>>

\* cancel(operation::exec).
CancelWaiting ==
  /\ mpx' = cancel_waiting(mpx)
  /\ UNCHANGED <<started, canceled, up, writing, reading, sent, answered, left, response>>

\* run_op has connected (again) and all operations of the old connection ended.
Connect ==
  /\ ~up
  /\ ~writing
  /\ left.conn > 0
  /\ left' = [left EXCEPT !.conn = @ - 1]
  /\ mpx' = reset(mpx)
  /\ up' = TRUE
  /\ reading' = TRUE
  /\ sent' = << >>
  /\ answered' = [q |-> 1, j |-> 1]
  /\ UNCHANGED <<started, canceled, writing, response>>

Next ==
  \/ \E e \in Elem : Exec(e)
  \/ \E e \in Elem : CancelExec(e)
  \/ PrepareWrite
  \/ CommitWrite
  \/ WriteError
  \/ \E end \in {"more", "done", "bad"} : ReadReply(end)
  \/ \E end \in {"more", "done", "bad"} : ReadPush(end)
  \/ CommitRead
  \/ CancelRun
  \/ CancelWaiting
  \/ Connect

Spec == Init /\ [][Next]_vars

------------------------------------------------------------------------------
(***************************************************************************)
(* The queue is written, then staged, then waiting requests.  This is the  *)
(* precondition of both partition_point searches (add and prepare_write):  *)
(* out of order, a request would be written twice or never.                *)
(***************************************************************************)
QueueOrdered == Ordered(mpx)

(***************************************************************************)
(* No request is lost: an async_exec that has neither been notified nor    *)
(* cancelled still has its elem in the queue, exactly once.  remove()      *)
(* relies on it (it erases what std::remove returns without a check), and  *)
(* without it the caller would wait for ever.                              *)
(***************************************************************************)
PendingQueued ==
  /\ \A e \in started \ (mpx.done \cup canceled) : e \in Queued(mpx)
  /\ Distinct(mpx)

(***************************************************************************)
(* While no connection is up nothing counts as sent: what survives in the  *)
(* queue is waiting, so the next connection sends it.                      *)
(***************************************************************************)
DownAllWaiting == ~up => \A e \in Queued(mpx) : is_waiting(mpx, e)

(***************************************************************************)
(* The inductive invariant behind the three above.  add may rely on a new  *)
(* elem being waiting and not queued; and the guard of cancel_on_conn_lost *)
(* against being called twice is open while a connection is up, so that    *)
(* losing the connection does mark its requests waiting again.             *)
(***************************************************************************)
QueueInv ==
  /\ TypeOK
  /\ QueueOrdered
  /\ PendingQueued
  /\ DownAllWaiting
  /\ Queued(mpx) \subseteq started
  /\ \A e \in Elem \ started : is_waiting(mpx, e)
  /\ up => ~mpx.cancel_run_called

(***************************************************************************)
(* Replies reach the request they answer: a reply at the front of the read *)
(* buffer is not taken for a push, and it is the one that the request in   *)
(* front of the queue expects next.  commit_read matches them by position  *)
(* alone.                                                                  *)
(***************************************************************************)
Matching ==
  up /\ mpx.read_buffer # << >> =>
    LET part == mpx.read_buffer[1]
        f    == Head(mpx.reqs)
    IN  part.type = "reply" =>
          /\ ~mpx.on_push
          /\ ~is_next_push(mpx)
          /\ sent[part.q] = f
          /\ part.j = Expected[f] - mpx.remaining[f] + 1

(***************************************************************************)
(* A request that completes without error had each of its replies adapted  *)
(* once, complete, in order and at its own index, and nothing else.        *)
(***************************************************************************)
Follows(a, b) ==
  IF a.end = "done" THEN b.i = a.i + 1 /\ b.p = 1 ELSE b.i = a.i /\ b.p = a.p + 1

AdapterExact ==
  \A e \in mpx.done :
    mpx.ec[e] = "none" =>
      LET r == response[e]
          n == Len(r)
      IN  /\ \A k \in 1..n : r[k].own /\ r[k].i = r[k].j
          /\ \A k \in 1..(n - 1) : Follows(r[k], r[k + 1])
          /\ IF Expected[e] = 0 THEN n = 0
             ELSE /\ n > 0
                  /\ r[1].i = 1 /\ r[1].p = 1
                  /\ r[n].i = Expected[e] /\ r[n].end = "done"

(***************************************************************************)
(* An async_exec that has completed is out of the queue: its request is    *)
(* not sent (again) and its response object is not written to, both of     *)
(* which the caller may have destroyed.                                    *)
(***************************************************************************)
CompletedNotQueued == \A e \in mpx.done \cup canceled : e \notin Queued(mpx)

(***************************************************************************)
(* Notifications are sound: only a call that was made is notified, an      *)
(* error is never stored without its notification (exec_op reads it only   *)
(* then), and an elem that was notified without an error is out of the     *)
(* queue, so nothing can notify it a second time.                          *)
(***************************************************************************)
NotifiedSound ==
  /\ mpx.done \cup canceled \subseteq started
  /\ \A e \in Elem : mpx.ec[e] # "none" => e \in mpx.done
  /\ \A e \in mpx.done : mpx.ec[e] = "none" => e \notin Queued(mpx)

(***************************************************************************)
(* Requests that have been handed to the writer keep their order: no step  *)
(* (a HELLO with priority included) puts a request before one of them.     *)
(***************************************************************************)
Handed(m) == {i \in 1..Len(m.reqs) : ~is_waiting(m, m.reqs[i])}

NoOvertaking ==
  [][ up /\ up' =>
        \A i, k \in Handed(mpx') :
          i < k /\ mpx'.reqs[k] \in {mpx.reqs[l] : l \in Handed(mpx)} =>
            \E a, b \in Handed(mpx) :
              a < b /\ mpx.reqs[a] = mpx'.reqs[i] /\ mpx.reqs[b] = mpx'.reqs[k] ]_mpx

------------------------------------------------------------------------------
\* Where the async_exec of each elem stands, as its caller sees it.
exec_phase ==
  [e \in Elem |->
     IF e \notin started THEN "idle"
     ELSE IF e \in canceled THEN "failed"
     ELSE IF mpx.ec[e] # "none" THEN "failed"
     ELSE IF e \in mpx.done THEN "replied"
     ELSE IF is_waiting(mpx, e) THEN "queued" ELSE "sent"]

Service == INSTANCE ExecService WITH
  Request <- Elem, Retried <- Elem \ CancelIfUnresponded, phase <- exec_phase

(***************************************************************************)
(* The pipeline implements the contract of async_exec: each call completes *)
(* once, with all its replies or an error; whatever sequence of writes,    *)
(* losses, cancellations and reconnections it meets, a request is sent     *)
(* again only if cancel_if_unresponded is off, and nothing counts as sent  *)
(* on a connection that is gone.                                           *)
(***************************************************************************)
ExecContract == Service!Spec
==============================================================================
