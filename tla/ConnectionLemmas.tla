-------------------------- MODULE ConnectionLemmas ---------------------------
(***************************************************************************)
(* What the operators of Connection that handlers are composed of do to    *)
(* the state of a connection, and what the operators of Multiplexer do to  *)
(* its buffers: the facts that the proofs of ConnectionProofs combine.     *)
(***************************************************************************)
EXTENDS Connection, MultiplexerLemmas

\* Cancelling pending operations: none ends, none starts, none succeeds.
Softer(d, n) ==
  /\ n.reader = "off" <=> d.reader = "off"
  /\ n.reader = "read_ok" => d.reader = "read_ok"
  /\ d.reader = "read_err" => n.reader = "read_err"
  /\ n.writer = "off" <=> d.writer = "off"
  /\ n.writer = "timer" => d.writer = "timer"
  /\ n.writer = "woken" => d.writer \in {"timer", "woken"}
  /\ n.ping = "off" <=> d.ping = "off"
  /\ n.ping = "sleep_ok" => d.ping = "sleep_ok"
  /\ d.ping = "exec" => n.ping = "exec"
  /\ n.check = "off" <=> d.check = "off"

\* The requests and the results of the group are the same.
SameBooks(d, n) == n.exec = d.exec /\ n.sent = d.sent /\ n.group = d.group

Same(d, n) == SameBooks(d, n) /\ n.mpx = d.mpx /\ n.open = d.open /\ n.run = d.run

\* Cancellations can be composed.
LEMMA SofterTwice ==
  ASSUME NEW d, NEW n, NEW o, Softer(d, n), Softer(n, o)
  PROVE  Softer(d, o)
BY DEF Softer

\* basic_connection::close.
LEMMA CloseEffect ==
  ASSUME NEW d \in ConnectionType
  PROVE  LET n == close(d)
         IN  /\ n \in ConnectionType /\ SameBooks(d, n) /\ Softer(d, n)
             /\ n.mpx = d.mpx /\ ~n.open
             /\ n.run = d.run \/ (d.run = "connect" /\ n.run = "connect_err")
<1>1. CASE ~d.open
  BY <1>1 DEF close, SameBooks, Softer
<1>2. CASE d.open
  <2> DEFINE u == Abort(d.run, "connect", "connect_err")
             r == Abort(d.reader, "read", "read_err")
             w == Abort(d.writer, "write", "write_err")
             n == [d EXCEPT !.open = FALSE, !.run = u, !.reader = r, !.writer = w]
  <2>1. u \in RunPc /\ r \in ReaderPc /\ w \in WriterPc
    BY DEF Abort, ConnectionType, RunPc, ReaderPc, WriterPc
  <2>2. /\ n \in ConnectionType /\ SameBooks(d, n) /\ n.mpx = d.mpx /\ ~n.open
        /\ n.run = u /\ n.reader = r /\ n.writer = w /\ n.ping = d.ping /\ n.check = d.check
    <3> HIDE DEF u, r, w
    <3>1. QED
      BY <2>1, Zenon DEF ConnectionType, SameBooks
  <2>3. close(d) = n
    BY <1>2 DEF close
  <2> HIDE DEF n
  <2>4. QED
    BY <2>2, <2>3 DEF Abort, Softer
<1>3. QED
  BY <1>1, <1>2

\* writer_timer_.cancel().
LEMMA WriterTimerEffect ==
  ASSUME NEW d \in ConnectionType
  PROVE  LET n == cancel_writer_timer(d)
         IN  n \in ConnectionType /\ Same(d, n) /\ Softer(d, n) /\ n.writer # "timer"
<1> DEFINE w == Abort(d.writer, "timer", "woken")
           n == [d EXCEPT !.writer = w]
<1>1. w \in WriterPc
  BY DEF Abort, ConnectionType, WriterPc
<1>2. n \in ConnectionType /\ Same(d, n) /\ n.writer = w /\ n.reader = d.reader
      /\ n.ping = d.ping /\ n.check = d.check
  <2> HIDE DEF w
  <2>1. QED
    BY <1>1, Zenon DEF ConnectionType, Same, SameBooks
<1>3. cancel_writer_timer(d) = n
  BY DEF cancel_writer_timer
<1> HIDE DEF n
<1>4. QED
  BY <1>2, <1>3 DEF Abort, Softer

\* receive_channel_.cancel().
LEMMA ReceiveChannelEffect ==
  ASSUME NEW d \in ConnectionType
  PROVE  LET n == cancel_receive_channel(d)
         IN  n \in ConnectionType /\ Same(d, n) /\ Softer(d, n)
<1> DEFINE r == Abort(d.reader, "send", "send_err")
           v == Abort(d.receiver, "wait", "err")
           n == [d EXCEPT !.receiver = v, !.reader = r]
<1>1. r \in ReaderPc /\ v \in ReceiverPc
  BY DEF Abort, ConnectionType, ReaderPc, ReceiverPc
<1>2. n \in ConnectionType /\ Same(d, n) /\ n.writer = d.writer /\ n.reader = r
      /\ n.ping = d.ping /\ n.check = d.check
  <2> HIDE DEF r, v
  <2>1. QED
    BY <1>1, Zenon DEF ConnectionType, Same, SameBooks
<1>3. cancel_receive_channel(d) = n
  BY DEF cancel_receive_channel
<1> HIDE DEF n
<1>4. QED
  BY <1>2, <1>3 DEF Abort, Softer

\* health_checker::cancel.
LEMMA HealthCheckerEffect ==
  ASSUME NEW d \in ConnectionType
  PROVE  LET n == cancel_health_checker(d)
         IN  n \in ConnectionType /\ Same(d, n) /\ Softer(d, n)
<1> DEFINE p == Abort(d.ping, "sleep", "sleep_err")
           k == Abort(d.check, "timer", "timer_err")
           n == [d EXCEPT !.ping = p, !.check = k]
<1>1. p \in PingPc /\ k \in CheckPc
  BY DEF Abort, ConnectionType, PingPc, CheckPc
<1>2. n \in ConnectionType /\ Same(d, n) /\ n.writer = d.writer /\ n.reader = d.reader
      /\ n.ping = p /\ n.check = k
  <2> HIDE DEF p, k
  <2>1. QED
    BY <1>1, Zenon DEF ConnectionType, Same, SameBooks
<1>3. cancel_health_checker(d) = n
  BY DEF cancel_health_checker
<1> HIDE DEF n
<1>4. QED
  BY <1>2, <1>3 DEF Abort, Softer

\* operation::run: close, wake the writer, cancel what the connection owes.
LEMMA CancelRunEffect ==
  ASSUME NEW d \in ConnectionType, WellFormed(d.mpx)
  PROVE  LET n == cancel_run(d)
         IN  /\ n \in ConnectionType /\ SameBooks(d, n) /\ Softer(d, n)
             /\ n.mpx = cancel_on_conn_lost(d.mpx) /\ ~n.open
             /\ n.run = d.run \/ (d.run = "connect" /\ n.run = "connect_err")
             /\ n.writer # "timer"
<1> DEFINE k == close(d)
           w == cancel_writer_timer(k)
           r == cancel_receive_channel(w)
           x == cancel_on_conn_lost(d.mpx)
           n == [r EXCEPT !.mpx = x]
<1>1. /\ k \in ConnectionType /\ SameBooks(d, k) /\ Softer(d, k) /\ k.mpx = d.mpx /\ ~k.open
      /\ k.run = d.run \/ (d.run = "connect" /\ k.run = "connect_err")
  BY CloseEffect
<1> HIDE DEF k
<1>2. w \in ConnectionType /\ Same(k, w) /\ Softer(k, w) /\ w.writer # "timer"
  BY <1>1, WriterTimerEffect
<1> HIDE DEF w
<1>3. r \in ConnectionType /\ Same(w, r) /\ Softer(w, r)
  BY <1>2, ReceiveChannelEffect
<1> HIDE DEF r
<1>4. x \in MultiplexerType
  BY ConnLostLemma DEF WellFormed
<1>5. n = cancel_run(d)
  BY <1>1, <1>2, <1>3 DEF k, w, r, cancel_run, Same
<1> HIDE DEF x
<1>6. /\ n \in ConnectionType /\ SameBooks(r, n) /\ n.mpx = x /\ n.open = r.open /\ n.run = r.run
      /\ n.reader = r.reader /\ n.writer = r.writer /\ n.ping = r.ping /\ n.check = r.check
  BY <1>3, <1>4, Zenon DEF ConnectionType, SameBooks
<1> HIDE DEF n
<1>7. SameBooks(d, n)
  BY <1>1, <1>2, <1>3, <1>6 DEF Same, SameBooks
<1>8. ~n.open /\ n.run = k.run /\ n.writer # "timer"
  BY <1>1, <1>2, <1>3, <1>6 DEF Same, Softer
<1>9. Softer(d, n)
  <2>1. Softer(r, n)
    BY <1>6 DEF Softer
  <2>2. QED
    BY <1>1, <1>2, <1>3, <2>1, SofterTwice
<1>10. QED
  BY <1>1, <1>5, <1>6, <1>7, <1>8, <1>9 DEF x

\* The resolver's operation is aborted.
LEMMA ResolverEffect ==
  ASSUME NEW d \in ConnectionType
  PROVE  LET n == cancel_resolver(d)
         IN  /\ n \in ConnectionType /\ SameBooks(d, n) /\ Softer(d, n)
             /\ n.mpx = d.mpx /\ n.open = d.open
             /\ n.run = d.run \/ (d.run = "resolve" /\ n.run = "resolve_err")
<1> DEFINE u == Abort(d.run, "resolve", "resolve_err")
           n == [d EXCEPT !.run = u]
<1>1. u \in RunPc
  BY DEF Abort, ConnectionType, RunPc
<1>2. /\ n \in ConnectionType /\ SameBooks(d, n) /\ n.mpx = d.mpx /\ n.open = d.open
      /\ n.run = u /\ n.reader = d.reader /\ n.writer = d.writer
      /\ n.ping = d.ping /\ n.check = d.check
  <2> HIDE DEF u
  <2>1. QED
    BY <1>1, Zenon DEF ConnectionType, SameBooks
<1>3. cancel_resolver(d) = n
  BY DEF cancel_resolver
<1> HIDE DEF n
<1>4. QED
  BY <1>2, <1>3 DEF Abort, Softer

\* The first error of the group cancels what its operations have pending.
LEMMA CancelGroupEffect ==
  ASSUME NEW d \in ConnectionType
  PROVE  LET n == cancel_group(d)
         IN  n \in ConnectionType /\ Same(d, n) /\ Softer(d, n)
<1> DEFINE t == cancel_writer_timer(d)
           h == cancel_health_checker(t)
           g == h.signal \cup {e \in Hello \cup Ping : d.exec[e] = "wait"}
           r == Abort(Abort(h.reader, "read", "read_err"), "send", "send_err")
           w == Abort(h.writer, "write", "write_err")
           n == [h EXCEPT !.signal = g, !.reader = r, !.writer = w]
<1>1. t \in ConnectionType /\ Same(d, t) /\ Softer(d, t)
  BY WriterTimerEffect
<1> HIDE DEF t
<1>2. h \in ConnectionType /\ Same(t, h) /\ Softer(t, h)
  BY <1>1, HealthCheckerEffect
<1>3. n = cancel_group(d)
  BY DEF cancel_group, t
<1> HIDE DEF h
<1>4. g \in SUBSET Elem
  BY <1>2, ElemAssumption DEF ConnectionType
<1>5. r \in ReaderPc /\ w \in WriterPc
  BY <1>2 DEF Abort, ConnectionType, ReaderPc, WriterPc
<1>6. /\ n \in ConnectionType /\ Same(h, n) /\ n.reader = r /\ n.writer = w
      /\ n.ping = h.ping /\ n.check = h.check
  <2> HIDE DEF g, r, w
  <2>1. QED
    BY <1>2, <1>4, <1>5, Zenon DEF ConnectionType, Same, SameBooks
<1> HIDE DEF n
<1>7. Softer(h, n)
  BY <1>6 DEF Abort, Softer
<1>8. Same(d, n)
  BY <1>1, <1>2, <1>6 DEF Same, SameBooks
<1>9. Softer(d, n)
  BY <1>1, <1>2, <1>7, SofterTwice
<1>10. QED
  BY <1>3, <1>6, <1>8, <1>9

\* The same but for the result r of the operation o.
OneResult(d, n, o, r) ==
  /\ n.mpx = d.mpx /\ n.open = d.open /\ n.run = d.run /\ n.exec = d.exec /\ n.sent = d.sent
  /\ n.group = [d.group EXCEPT ![o] = r]

\* An operation of the group completes.
LEMMA CompleteEffect ==
  ASSUME NEW d \in ConnectionType, NEW o \in Op, NEW r \in OpResult
  PROVE  LET n == complete(d, o, r)
         IN  n \in ConnectionType /\ Softer(d, n) /\ OneResult(d, n, o, r)
<1> DEFINE f == IF d.first = "none" THEN o ELSE d.first
           g == [d.group EXCEPT ![o] = r]
           k == [d EXCEPT !.group = g, !.first = f]
           n == complete(d, o, r)
<1>1. f \in Op \cup {"none"} /\ g \in [Op -> OpResult]
  BY DEF ConnectionType
<1>2. /\ k \in ConnectionType /\ k.mpx = d.mpx /\ k.open = d.open /\ k.run = d.run
      /\ k.exec = d.exec /\ k.sent = d.sent /\ k.group = g
      /\ k.reader = d.reader /\ k.writer = d.writer /\ k.ping = d.ping /\ k.check = d.check
  <2> HIDE DEF f, g
  <2>1. QED
    BY <1>1, Zenon DEF ConnectionType
<1>3. n = k \/ n = cancel_group(k)
  BY DEF complete
<1> HIDE DEF k, n, g
<1>4. Softer(d, k)
  BY <1>2 DEF Softer
<1>5. cancel_group(k) \in ConnectionType /\ Same(k, cancel_group(k)) /\ Softer(k, cancel_group(k))
  BY <1>2, CancelGroupEffect
<1>6. Softer(d, cancel_group(k))
  BY <1>4, <1>5, SofterTwice
<1>7. n \in ConnectionType /\ Softer(d, n)
  BY <1>2, <1>3, <1>4, <1>5, <1>6
<1>8. /\ n.mpx = d.mpx /\ n.open = d.open /\ n.run = d.run
      /\ n.exec = d.exec /\ n.sent = d.sent /\ n.group = g
  BY <1>2, <1>3, <1>5 DEF Same, SameBooks
<1>9. QED
  BY <1>7, <1>8 DEF n, g, OneResult

------------------------------------------------------------------------------
\* The buffers of the multiplexer are the same.
SameBuffers(m, n) ==
  n.write_buffer = m.write_buffer /\ n.read_buffer = m.read_buffer /\ n.parsed = m.parsed

\* Requests come and go without touching the buffers.
LEMMA QueueBuffers ==
  ASSUME NEW m \in MultiplexerType, NEW e, NEW S, NEW err
  PROVE  /\ SameBuffers(m, add(m, e))
         /\ SameBuffers(m, erase(m, S))
         /\ SameBuffers(m, remove(m, e))
         /\ SameBuffers(m, notify_done(m, S))
         /\ SameBuffers(m, notify_error(m, S, err))
         /\ SameBuffers(m, erase(notify_error(m, S, err), S))
<1>1. SameBuffers(m, add(m, e))
  BY DEF add, SameBuffers, MultiplexerType
<1>2. SameBuffers(m, erase(m, S)) /\ SameBuffers(m, remove(m, e))
  BY DEF erase, remove, SameBuffers, MultiplexerType
<1>3. SameBuffers(m, notify_done(m, S)) /\ DOMAIN notify_done(m, S) = DOMAIN m
  BY DEF notify_done, SameBuffers, MultiplexerType
<1>4. /\ SameBuffers(m, notify_error(m, S, err))
      /\ DOMAIN notify_error(m, S, err) = DOMAIN m
  BY <1>3 DEF notify_error, SameBuffers, MultiplexerType
<1>5. SameBuffers(m, erase(notify_error(m, S, err), S))
  BY <1>4 DEF erase, SameBuffers, MultiplexerType
<1>6. QED
  BY <1>1, <1>2, <1>3, <1>4, <1>5

\* Neither do the two ways to cancel requests.
LEMMA CancelBuffers ==
  ASSUME NEW m \in MultiplexerType
  PROVE  SameBuffers(m, cancel_waiting(m)) /\ SameBuffers(m, cancel_on_conn_lost(m))
<1>1. SameBuffers(m, cancel_waiting(m))
  BY QueueBuffers DEF cancel_waiting
<1>2. CASE m.cancel_run_called
  BY <1>1, <1>2 DEF cancel_on_conn_lost, SameBuffers
<1>3. CASE ~m.cancel_run_called
  <2> DEFINE S == lost_with_conn(m)
             k == notify_error(m, S, "aborted")
             d == erase(k, S)
  <2>1. SameBuffers(m, d)
    BY QueueBuffers
  <2>2. DOMAIN d = DOMAIN m
    <3>1. DOMAIN k = DOMAIN m
      BY DEF notify_error, notify_done
    <3>2. QED
      BY <3>1 DEF erase
  <2>3. cancel_on_conn_lost(m) =
          [d EXCEPT !.cancel_run_called = TRUE,
                    !.status = [e \in Elem |->
                                  IF e \in Queued(m) \ S THEN "waiting" ELSE @[e]]]
    BY <1>3 DEF cancel_on_conn_lost
  <2> HIDE DEF d
  <2>4. SameBuffers(d, cancel_on_conn_lost(m))
    BY <2>2, <2>3 DEF SameBuffers, MultiplexerType
  <2>5. QED
    BY <1>1, <2>1, <2>4 DEF SameBuffers
<1>4. QED
  BY <1>2, <1>3

\* What writing does to the buffers.
LEMMA WriteBuffers ==
  ASSUME NEW m \in MultiplexerType
  PROVE  /\ reset(m).write_buffer = << >> /\ reset(m).read_buffer = << >> /\ reset(m).parsed = 0
         /\ prepare_write(m).read_buffer = m.read_buffer /\ prepare_write(m).parsed = m.parsed
         /\ commit_write(m).write_buffer = << >>
         /\ commit_write(m).read_buffer = m.read_buffer /\ commit_write(m).parsed = m.parsed
<1>1. reset(m).write_buffer = << >> /\ reset(m).read_buffer = << >> /\ reset(m).parsed = 0
  BY DEF reset, MultiplexerType
<1>2. prepare_write(m).read_buffer = m.read_buffer /\ prepare_write(m).parsed = m.parsed
  BY DEF prepare_write, MultiplexerType
<1> DEFINE st == [e \in Elem |->
                    IF e \in Queued(m) /\ m.status[e] = "staged" THEN "written" ELSE m.status[e]]
           k == [m EXCEPT !.write_buffer = << >>, !.status = st]
           S == {e \in Queued(k) : k.status[e] = "written" /\ Expected[e] = 0}
           d == notify_done(k, S)
<1>3. commit_write(m) = erase(d, S)
  BY DEF commit_write, release_push_requests
<1>4. /\ k.write_buffer = << >> /\ k.read_buffer = m.read_buffer /\ k.parsed = m.parsed
      /\ DOMAIN k = DOMAIN m
  <2> HIDE DEF st
  <2>1. QED
    BY DEF MultiplexerType
<1> HIDE DEF k, S
<1>5. SameBuffers(k, d) /\ DOMAIN d = DOMAIN k
  BY <1>4 DEF notify_done, SameBuffers, MultiplexerType
<1> HIDE DEF d
<1>6. SameBuffers(d, erase(d, S))
  BY <1>4, <1>5 DEF erase, SameBuffers, MultiplexerType
<1>7. QED
  BY <1>1, <1>2, <1>3, <1>4, <1>5, <1>6 DEF SameBuffers

\* What reading does to the buffers.
LEMMA ReadBuffers ==
  ASSUME NEW m, WellFormed(m), m.parsed < Len(m.read_buffer)
  PROVE  /\ commit_read(m).write_buffer = m.write_buffer
         /\ commit_read(m).parsed <= Len(commit_read(m).read_buffer)
<1> DEFINE push == m.on_push \/ is_next_push(m)
           a == [m EXCEPT !.parsed = parse_end(m), !.on_push = push]
           k == commit_response(a)
           x == notify_error(a, {Head(a.reqs)}, "bad")
           n == commit_read(m)
           Good(y) == y.write_buffer = m.write_buffer /\ y.parsed <= Len(y.read_buffer)
           Fields == DOMAIN m
<1>1. /\ m \in MultiplexerType /\ m.read_buffer \in Seq(Part) /\ m.parsed \in Nat
      /\ Len(m.read_buffer) \in Nat
  BY DEF WellFormed, MultiplexerType
<1>2. parse_end(m) \in (m.parsed + 1)..Len(m.read_buffer) /\ parse_end(m) \in Nat
  <2>1. parse_end(m) \in (m.parsed + 1)..Len(m.read_buffer)
    BY <1>1, ParseEnd
  <2>2. QED
    BY <1>1, <2>1
<1>3. push \in BOOLEAN
  BY <1>1 DEF is_next_push, MultiplexerType
<1> HIDE DEF push
<1>4. /\ a \in MultiplexerType /\ a.write_buffer = m.write_buffer /\ a.read_buffer = m.read_buffer
      /\ a.parsed = parse_end(m)
  BY <1>1, <1>2, <1>3, Zenon DEF MultiplexerType
<1> HIDE DEF a
<1>5. Good(a)
  BY <1>1, <1>2, <1>4
<1>6. Good(x)
  <2>1. SameBuffers(a, x)
    BY <1>4, QueueBuffers
  <2> HIDE DEF x
  <2>2. QED
    BY <1>5, <2>1 DEF SameBuffers
<1>7. SameBuffers(a, k) /\ DOMAIN k = DOMAIN a
  <2> DEFINE f == Head(a.reqs)
             y == [a EXCEPT !.remaining[f] = @ - 1]
             z == notify_done(y, {f})
  <2>1. SameBuffers(a, y) /\ DOMAIN y = DOMAIN a
    BY <1>4 DEF SameBuffers, MultiplexerType
  <2>2. k = y \/ k = [z EXCEPT !.reqs = Tail(@)]
    BY Zenon DEF commit_response
  <2> HIDE DEF y
  <2>3. SameBuffers(y, z) /\ DOMAIN z = DOMAIN a
    BY <1>4, <2>1 DEF notify_done, SameBuffers, MultiplexerType
  <2> HIDE DEF z, k
  <2>4. QED
    BY <1>4, <2>1, <2>2, <2>3 DEF SameBuffers, MultiplexerType
<1>8. ASSUME NEW y, SameBuffers(a, y), DOMAIN y = DOMAIN a
      PROVE  Good(on_finish_parsing(y))
  <2> DEFINE b == SubSeq(y.read_buffer, y.parsed + 1, Len(y.read_buffer))
             z == [y EXCEPT !.on_push = FALSE, !.parsed = 0, !.read_buffer = b]
  <2>1. on_finish_parsing(y) = z
    BY DEF on_finish_parsing
  <2>2. y.read_buffer = m.read_buffer /\ y.parsed = parse_end(m) /\ y.write_buffer = m.write_buffer
    BY <1>4, <1>8 DEF SameBuffers
  <2>3. b \in Seq(Part)
    BY <1>1, <1>2, <2>2
  <2>4. 0 <= Len(b)
    BY <2>3
  <2> HIDE DEF b
  <2>5. z.write_buffer = y.write_buffer /\ z.parsed = 0 /\ z.read_buffer = b
    BY <1>4, <1>8 DEF MultiplexerType
  <2>6. QED
    BY <2>1, <2>2, <2>4, <2>5
<1>9. Good(on_finish_parsing(a)) /\ Good(on_finish_parsing(k))
  BY <1>7, <1>8 DEF SameBuffers
<1>10. n \in {a, x, on_finish_parsing(a), on_finish_parsing(k)}
  BY <1>1, ParseEnd DEF commit_read, a, x, k, push
<1> HIDE DEF n, k, x
<1>11. Good(n)
  BY <1>5, <1>6, <1>9, <1>10
<1>12. QED
  BY <1>11 DEF n

\* to_stage is empty exactly if nothing in the queue waits.
LEMMA StageEmpty ==
  ASSUME NEW m, WellFormed(m)
  PROVE  to_stage(m) = << >> <=> \A e \in Queued(m) : ~is_waiting(m, e)
<1> DEFINE L == Len(m.reqs)
           p == partition_point(m)
<1>1. m.reqs \in Seq(Elem) /\ L \in Nat
  BY DEF WellFormed, MultiplexerType
<1>2. p \in 0..L /\ \A i \in 1..L : i <= p <=> ~is_waiting(m, m.reqs[i])
  BY PartitionPoint
<1> HIDE DEF p
<1>3. to_stage(m) = SubSeq(m.reqs, p + 1, L)
  BY DEF to_stage, p
<1>4. to_stage(m) = << >> <=> p = L
  <2>1. CASE p = L
    BY <1>1, <1>3, <2>1
  <2>2. CASE p < L
    <3>1. Len(to_stage(m)) = L - p
      BY <1>1, <1>2, <1>3, <2>2
    <3>2. QED
      BY <1>1, <1>2, <2>2, <3>1
  <2>3. QED
    BY <1>1, <1>2, <2>1, <2>2
<1>5. p = L => \A e \in Queued(m) : ~is_waiting(m, e)
  BY <1>1, <1>2 DEF Queued
<1>6. p # L => \E e \in Queued(m) : is_waiting(m, e)
  <2>1. SUFFICES ASSUME p # L PROVE \E e \in Queued(m) : is_waiting(m, e)
    OBVIOUS
  <2>2. L \in 1..L /\ ~(L <= p)
    BY <1>1, <1>2, <2>1
  <2>3. is_waiting(m, m.reqs[L]) /\ m.reqs[L] \in Queued(m)
    BY <1>2, <2>2 DEF Queued
  <2>4. QED
    BY <2>3
<1>7. QED
  BY <1>4, <1>5, <1>6

\* If all requests wait, all of them are staged, in the order of the queue.
LEMMA StageAll ==
  ASSUME NEW m, WellFormed(m), AllWaiting(m)
  PROVE  partition_point(m) = 0 /\ to_stage(m) = m.reqs
<1> DEFINE L == Len(m.reqs)
           p == partition_point(m)
<1>1. m.reqs \in Seq(Elem) /\ L \in Nat
  BY DEF WellFormed, MultiplexerType
<1>2. p \in 0..L /\ \A i \in 1..L : i <= p <=> ~is_waiting(m, m.reqs[i])
  BY PartitionPoint
<1>3. \A i \in 1..L : is_waiting(m, m.reqs[i])
  BY DEF AllWaiting, Queued
<1> HIDE DEF p
<1>4. p = 0
  BY <1>1, <1>2, <1>3
<1>5. to_stage(m) = SubSeq(m.reqs, 1, L)
  BY <1>4 DEF to_stage, p
<1>6. QED
  BY <1>1, <1>4, <1>5 DEF p

\* HELLO becomes the first request of a queue in which all wait, and stays so.
LEMMA AddFirst ==
  ASSUME NEW m, WellFormed(m), AllWaiting(m), NEW e \in Elem
  PROVE  /\ add(m, e).reqs # << >>
         /\ e \in HelloPriority => Head(add(m, e).reqs) = e
         /\ e \notin HelloPriority /\ m.reqs # << >> => Head(add(m, e).reqs) = Head(m.reqs)
<1> DEFINE s == m.reqs
           r == SubSeq(s, 1, 0) \o <<e>> \o SubSeq(s, 0 + 1, Len(s))
<1>1. m \in MultiplexerType /\ s \in Seq(Elem) /\ Len(s) \in Nat
  BY DEF WellFormed, MultiplexerType
<1>2. partition_point(m) = 0
  BY StageAll
<1>3. add(m, e).reqs = IF e \in HelloPriority THEN r ELSE Append(s, e)
  BY <1>1, <1>2 DEF add, MultiplexerType
<1>4. r \in Seq(Elem) /\ Inserted(r, s, e, 0)
  BY <1>1, Insert
<1> HIDE DEF r
<1>5. r # << >> /\ Head(r) = e
  BY <1>1, <1>4 DEF Inserted
<1>6. Append(s, e) # << >> /\ (s # << >> => Head(Append(s, e)) = Head(s))
  <2>1. /\ Append(s, e) \in Seq(Elem) /\ Len(Append(s, e)) = Len(s) + 1
        /\ \A i \in 1..Len(s) : Append(s, e)[i] = s[i]
    BY <1>1
  <2>2. Append(s, e) # << >>
    BY <1>1, <2>1
  <2>3. ASSUME s # << >> PROVE Head(Append(s, e)) = Head(s)
    <3>1. 1 \in 1..Len(s)
      BY <1>1, <2>3
    <3>2. Append(s, e)[1] = s[1]
      BY <2>1, <3>1
    <3>3. QED
      BY <1>1, <2>1, <2>2, <2>3, <3>2
  <2>4. QED
    BY <2>2, <2>3
<1>7. QED
  BY <1>3, <1>5, <1>6

\* exec_op up to its wait.
LEMMA StartExecEffect ==
  ASSUME NEW d \in ConnectionType, WellFormed(d.mpx), NEW e \in Elem,
         is_waiting(d.mpx, e), e \notin Queued(d.mpx)
  PROVE  LET n == start_exec(d, e)
         IN  /\ n \in ConnectionType /\ Softer(d, n)
             /\ n.mpx = add(d.mpx, e) /\ n.exec = [d.exec EXCEPT ![e] = "wait"]
             /\ n.open = d.open /\ n.run = d.run /\ n.sent = d.sent /\ n.group = d.group
             /\ n.open /\ ~is_writing(d.mpx) => n.writer # "timer"
<1> DEFINE x == add(d.mpx, e)
           v == [d.exec EXCEPT ![e] = "wait"]
           k == [d EXCEPT !.mpx = x, !.exec = v]
           w == cancel_writer_timer(k)
           n == start_exec(d, e)
<1>1. x \in MultiplexerType /\ is_writing(x) = is_writing(d.mpx)
  <2>1. d.mpx \in MultiplexerType /\ WellFormed(x)
    BY Add DEF WellFormed
  <2>2. SameBuffers(d.mpx, x)
    BY <2>1, QueueBuffers
  <2>3. QED
    BY <2>1, <2>2 DEF WellFormed, SameBuffers, is_writing
<1>2. v \in [Elem -> ExecResult]
  BY DEF ConnectionType, ExecResult
<1>3. /\ k \in ConnectionType /\ k.mpx = x /\ k.exec = v
      /\ k.open = d.open /\ k.run = d.run /\ k.sent = d.sent /\ k.group = d.group
      /\ k.reader = d.reader /\ k.writer = d.writer /\ k.ping = d.ping /\ k.check = d.check
  <2> HIDE DEF x, v
  <2>1. QED
    BY <1>1, <1>2, Zenon DEF ConnectionType
<1>4. n = IF k.open /\ ~is_writing(k.mpx) THEN w ELSE k
  BY DEF start_exec, trigger_write
<1> HIDE DEF x, v, k, n
<1>5. w \in ConnectionType /\ Same(k, w) /\ Softer(k, w) /\ w.writer # "timer"
  BY <1>3, WriterTimerEffect
<1>6. Softer(d, k)
  BY <1>3 DEF Softer
<1> HIDE DEF w
<1>7. Softer(d, w)
  BY <1>5, <1>6, SofterTwice
<1>8. /\ n \in ConnectionType /\ Softer(d, n) /\ n.mpx = x /\ n.exec = v
      /\ n.open = d.open /\ n.run = d.run /\ n.sent = d.sent /\ n.group = d.group
      /\ n.open /\ ~is_writing(x) => n.writer # "timer"
  BY <1>3, <1>4, <1>5, <1>6, <1>7 DEF Same, SameBooks
<1>9. QED
  BY <1>1, <1>8, Zenon DEF n, x, v
==============================================================================
