--------------------------- MODULE ConnectionSound ---------------------------
(***************************************************************************)
(* ConnInv split by what it is about, and stated of a value d of the       *)
(* connection instead of the variable c: a handler is a composition of     *)
(* operators, and each lemma follows one of them.  In the middle of a      *)
(* handler some operations have left one state and not yet entered the     *)
(* next; SoundBut(d, X) says nothing of the operations in X.  Each part    *)
(* has the fields it is about as parameters, so that it is not looked into *)
(* where they stay the same.                                               *)
(***************************************************************************)
EXTENDS ConnectionLemmas

\* Every async_exec that waits has its elem queued or notified.
Requests(x, m) ==
  \A e \in Elem :
    /\ x[e] = "wait" => e \in Queued(m) \cup m.done
    /\ x[e] = "idle" => is_waiting(m, e) /\ e \notin Queued(m)

HelloWaits(x) == \E e \in Hello : x[e] = "wait"
PingWaits(x) == \E e \in Ping : x[e] = "wait"
HelloLeft(x) == \E e \in Hello : x[e] = "idle"
PingLeft(x) == \E e \in Ping : x[e] = "idle"

\* hello_op and ping_op have one request at a time.
SingleHello(x) == \A e, f \in Hello : x[e] = "wait" /\ x[f] = "wait" => e = f
SinglePing(x) == \A e, f \in Ping : x[e] = "wait" /\ x[f] = "wait" => e = f
PingExec(x, ping) == PingWaits(x) => ping = "exec"

\* There is an elem for the next HELLO and the next PING.
FreshHello(x, run) == run = "connect_ok" => HelloLeft(x) /\ (HealthCheck => PingLeft(x))
FreshPing(x, ping) == ping = "sleep_ok" => PingLeft(x)

\* The books of the group.
HelloBook(X, run, r, x) == "hello" \notin X => (HelloWaits(x) <=> run = "group" /\ r = "on")
Book(X, o, run, r, pc) == o \notin X => (pc # "off" <=> run = "group" /\ r = "on")

\* What the reader has to parse, and what the writer has outstanding.
ReadSide(X, m, reader) ==
  /\ m.parsed <= Len(m.read_buffer)
  /\ "reader" \notin X /\ reader = "read_ok" => m.parsed < Len(m.read_buffer)
WriteSide(m, writer) == writer \in {"timer", "woken"} => ~is_writing(m)

NothingWaits(m) == \A e \in Queued(m) : ~is_waiting(m, e)
Awake(m, run, open, writer) == run = "group" /\ open /\ writer = "timer" => NothingWaits(m)

Sending(X, run, sent) ==
  /\ "sent" \notin X /\ run = "group" => sent # << >>
  /\ sent # << >> => Head(sent) \in Hello

\* What is true of a connection that is, or is being, torn down.
Down(m, run, open) ==
  /\ run # "group" => AllWaiting(m)
  /\ run = "group" /\ m.cancel_run_called => ~open /\ AllWaiting(m)
ReaderCancels(X, m, run, open, reader) ==
  "reader" \notin X /\ run = "group" /\ ~m.cancel_run_called =>
    reader # "off" /\ (open \/ reader = "read_err")

SoundBut(d, X) ==
  /\ d \in ConnectionType /\ WellFormed(d.mpx)
  /\ Requests(d.exec, d.mpx)
  /\ SingleHello(d.exec) /\ SinglePing(d.exec) /\ PingExec(d.exec, d.ping)
  /\ FreshHello(d.exec, d.run) /\ FreshPing(d.exec, d.ping)
  /\ HelloBook(X, d.run, d.group["hello"], d.exec)
  /\ Book(X, "ping", d.run, d.group["ping"], d.ping)
  /\ Book(X, "check", d.run, d.group["check"], d.check)
  /\ Book(X, "reader", d.run, d.group["reader"], d.reader)
  /\ Book(X, "writer", d.run, d.group["writer"], d.writer)
  /\ ReadSide(X, d.mpx, d.reader) /\ WriteSide(d.mpx, d.writer)
  /\ Awake(d.mpx, d.run, d.open, d.writer)
  /\ Sending(X, d.run, d.sent)
  /\ Down(d.mpx, d.run, d.open) /\ ReaderCancels(X, d.mpx, d.run, d.open, d.reader)

\* Between two handlers, and within one that concerns a single operation.
None == {}
Only(o) == {o}

\* Y is what is left of X when o is settled.
Settled(X, o, Y) == X \subseteq Y \cup {o}
SettledWriter(X, Y) == X \subseteq Y \cup {"writer", "sent"}

Sound(d) == SoundBut(d, None)

\* ConnInv in these terms, in one state and in the next.
LEMMA ConnInvUnfolded ==
  /\ ConnInv <=> Sound(c) /\ answered \in [q: Nat, j: Nat]
  /\ ConnInv' <=> Sound(c') /\ answered' \in [q: Nat, j: Nat]
<1> DEFINE A == answered \in [q: Nat, j: Nat]
           B == answered' \in [q: Nat, j: Nat]
<1>1. /\ QueueSound /\ (\A e \in Elem : c.exec[e] = "idle" =>
                          is_waiting(c.mpx, e) /\ e \notin Queued(c.mpx))
         <=> Ordered(c.mpx) /\ Distinct(c.mpx) /\ Requests(c.exec, c.mpx)
      /\ QueueSound' /\ (\A e \in Elem : c'.exec[e] = "idle" =>
                          is_waiting(c'.mpx, e) /\ e \notin Queued(c'.mpx))
         <=> Ordered(c'.mpx) /\ Distinct(c'.mpx) /\ Requests(c'.exec, c'.mpx)
  BY DEF QueueSound, Requests
<1>2. /\ GroupSound <=>
           /\ HelloBook(None, c.run, c.group["hello"], c.exec)
           /\ Book(None, "ping", c.run, c.group["ping"], c.ping)
           /\ Book(None, "check", c.run, c.group["check"], c.check)
           /\ Book(None, "reader", c.run, c.group["reader"], c.reader)
           /\ Book(None, "writer", c.run, c.group["writer"], c.writer)
      /\ GroupSound' <=>
           /\ HelloBook(None, c'.run, c'.group["hello"], c'.exec)
           /\ Book(None, "ping", c'.run, c'.group["ping"], c'.ping)
           /\ Book(None, "check", c'.run, c'.group["check"], c'.check)
           /\ Book(None, "reader", c'.run, c'.group["reader"], c'.reader)
           /\ Book(None, "writer", c'.run, c'.group["writer"], c'.writer)
  BY DEF GroupSound, Pending, Op, HelloBook, HelloWaits, Book, None
<1>3. /\ (\A e, f \in Hello : c.exec[e] = "wait" /\ c.exec[f] = "wait" => e = f)
         <=> SingleHello(c.exec)
      /\ (\A e, f \in Ping : c.exec[e] = "wait" /\ c.exec[f] = "wait" => e = f)
         <=> SinglePing(c.exec)
      /\ (\A e \in Ping : c.exec[e] = "wait" => c.ping = "exec") <=> PingExec(c.exec, c.ping)
      /\ (c.run = "connect_ok" => MayConnect) <=> FreshHello(c.exec, c.run)
      /\ (c.ping = "sleep_ok" => Fresh(c, Ping) # {}) <=> FreshPing(c.exec, c.ping)
  BY DEF SingleHello, SinglePing, PingExec, PingWaits, FreshHello, FreshPing, HelloLeft,
         PingLeft, MayConnect, Fresh
<1>4. /\ (\A e, f \in Hello : c'.exec[e] = "wait" /\ c'.exec[f] = "wait" => e = f)
         <=> SingleHello(c'.exec)
      /\ (\A e, f \in Ping : c'.exec[e] = "wait" /\ c'.exec[f] = "wait" => e = f)
         <=> SinglePing(c'.exec)
      /\ (\A e \in Ping : c'.exec[e] = "wait" => c'.ping = "exec")
         <=> PingExec(c'.exec, c'.ping)
      /\ (c'.run = "connect_ok" => MayConnect') <=> FreshHello(c'.exec, c'.run)
      /\ (c'.ping = "sleep_ok" => Fresh(c', Ping) # {}) <=> FreshPing(c'.exec, c'.ping)
  BY DEF SingleHello, SinglePing, PingExec, PingWaits, FreshHello, FreshPing, HelloLeft,
         PingLeft, MayConnect, Fresh
<1>5. /\ WellFormed(c.mpx) => (NoLostWakeup <=> Awake(c.mpx, c.run, c.open, c.writer))
      /\ WellFormed(c'.mpx) => (NoLostWakeup' <=> Awake(c'.mpx, c'.run, c'.open, c'.writer))
  BY StageEmpty DEF NoLostWakeup, Awake, NothingWaits
<1>6. /\ c \in ConnectionType => c.mpx \in MultiplexerType
      /\ c' \in ConnectionType => c'.mpx \in MultiplexerType
  BY DEF ConnectionType
<1>7. ConnInv <=> Sound(c) /\ A
  BY <1>1, <1>2, <1>3, <1>5, <1>6, Zenon
  DEF ConnInv, Sound, SoundBut, TypeOK, WellFormed, ReadSide, WriteSide, Sending, HelloFirst,
      Down, ReaderCancels, None
<1>8. ConnInv' <=> Sound(c') /\ B
  BY <1>1, <1>2, <1>4, <1>5, <1>6, Zenon
  DEF ConnInv, Sound, SoundBut, TypeOK, WellFormed, ReadSide, WriteSide, Sending, HelloFirst,
      Down, ReaderCancels, None
<1>9. QED
  BY <1>7, <1>8

(***************************************************************************)
(* Taking up more.                                                         *)
(***************************************************************************)
LEMMA Weaken ==
  ASSUME NEW d, NEW X, NEW Y, SoundBut(d, X), X \subseteq Y
  PROVE  SoundBut(d, Y)
BY Zenon DEF SoundBut, HelloBook, Book, ReadSide, Sending, ReaderCancels

(***************************************************************************)
(* Cancelling pending operations keeps all of it.                          *)
(***************************************************************************)
LEMMA SoftFields ==
  ASSUME NEW d, NEW X, SoundBut(d, X), NEW n, Softer(d, n)
  PROVE  /\ PingExec(d.exec, n.ping) /\ FreshPing(d.exec, n.ping)
         /\ Book(X, "ping", d.run, d.group["ping"], n.ping)
         /\ Book(X, "check", d.run, d.group["check"], n.check)
         /\ Book(X, "reader", d.run, d.group["reader"], n.reader)
         /\ Book(X, "writer", d.run, d.group["writer"], n.writer)
         /\ ReadSide(X, d.mpx, n.reader) /\ WriteSide(d.mpx, n.writer)
         /\ Awake(d.mpx, d.run, d.open, n.writer)
         /\ ReaderCancels(X, d.mpx, d.run, d.open, n.reader)
<1>1. PingExec(d.exec, n.ping) /\ FreshPing(d.exec, n.ping)
  BY Zenon DEF SoundBut, Softer, PingExec, FreshPing
<1>2. /\ Book(X, "ping", d.run, d.group["ping"], n.ping)
      /\ Book(X, "check", d.run, d.group["check"], n.check)
      /\ Book(X, "reader", d.run, d.group["reader"], n.reader)
      /\ Book(X, "writer", d.run, d.group["writer"], n.writer)
  BY Zenon DEF SoundBut, Softer, Book
<1>3. ReadSide(X, d.mpx, n.reader) /\ WriteSide(d.mpx, n.writer)
  BY Zenon DEF SoundBut, Softer, ReadSide, WriteSide
<1>4. /\ Awake(d.mpx, d.run, d.open, n.writer)
      /\ ReaderCancels(X, d.mpx, d.run, d.open, n.reader)
  BY Zenon DEF SoundBut, Softer, Awake, ReaderCancels
<1>5. QED
  BY <1>1, <1>2, <1>3, <1>4

\* A cancellation that changes nothing but where operations wait keeps the invariant.
LEMMA SoftStep ==
  ASSUME NEW d, NEW X, SoundBut(d, X), NEW n \in ConnectionType, Same(d, n), Softer(d, n)
  PROVE  SoundBut(n, X)
BY SoftFields, Zenon DEF SoundBut, Same, SameBooks

(***************************************************************************)
(* cancel(operation::run) keeps it, and takes the connection down.         *)
(***************************************************************************)
LEMMA CancelRunSound ==
  ASSUME NEW d, NEW X, SoundBut(d, X)
  PROVE  LET n == cancel_run(d)
         IN  /\ SoundBut(n, X) /\ SameBooks(d, n) /\ Softer(d, n)
             /\ ~n.open /\ n.mpx.cancel_run_called
             /\ n.run = "group" <=> d.run = "group"
<1> DEFINE n == cancel_run(d)
           k == cancel_on_conn_lost(d.mpx)
<1>1. /\ n \in ConnectionType /\ SameBooks(d, n) /\ Softer(d, n) /\ n.mpx = k /\ ~n.open
      /\ n.run = d.run \/ (d.run = "connect" /\ n.run = "connect_err")
  BY CancelRunEffect, Zenon DEF SoundBut
<1>2. d.mpx \in MultiplexerType /\ Queued(d.mpx) \subseteq Elem
  BY QueuedElem, Zenon DEF SoundBut, WellFormed
<1>3. /\ WellFormed(k) /\ Queued(k) \subseteq Queued(d.mpx)
      /\ k.done = d.mpx.done \cup (Queued(d.mpx) \ Queued(k))
      /\ \A e \in Elem : is_waiting(d.mpx, e) => is_waiting(k, e)
      /\ ~d.mpx.cancel_run_called => \A e \in Queued(k) : is_waiting(k, e)
      /\ k.cancel_run_called
  BY ConnLostLemma, Zenon DEF SoundBut
<1>4. SameBuffers(d.mpx, k)
  BY <1>2, CancelBuffers
<1> HIDE DEF n, k
<1>5. Requests(n.exec, k)
  <2>1. Requests(d.exec, d.mpx) /\ n.exec = d.exec
    BY <1>1, Zenon DEF SoundBut, SameBooks
  <2>2. QED
    BY <1>3, <2>1 DEF Requests
<1>6. /\ n.run = "group" <=> d.run = "group"
      /\ n.run = "connect_ok" => d.run = "connect_ok"
  BY <1>1
<1>7. /\ SingleHello(n.exec) /\ SinglePing(n.exec)
      /\ PingExec(n.exec, n.ping) /\ FreshPing(n.exec, n.ping)
  BY <1>1, SoftFields, Zenon DEF SoundBut, SameBooks
<1>8. FreshHello(n.exec, n.run) /\ HelloBook(X, n.run, n.group["hello"], n.exec)
  BY <1>1, <1>6, Zenon DEF SoundBut, SameBooks, FreshHello, HelloBook
<1>9. /\ Book(X, "ping", n.run, n.group["ping"], n.ping)
      /\ Book(X, "check", n.run, n.group["check"], n.check)
      /\ Book(X, "reader", n.run, n.group["reader"], n.reader)
      /\ Book(X, "writer", n.run, n.group["writer"], n.writer)
  BY <1>1, <1>6, Zenon DEF SoundBut, SameBooks, Softer, Book
<1>10. ReadSide(X, k, n.reader) /\ WriteSide(k, n.writer)
  <2>1. ReadSide(X, d.mpx, n.reader) /\ WriteSide(d.mpx, n.writer)
    BY <1>1, SoftFields
  <2>2. QED
    BY <1>4, <2>1 DEF ReadSide, WriteSide, SameBuffers, is_writing
<1>11. /\ Awake(k, n.run, n.open, n.writer) /\ Sending(X, n.run, n.sent)
       /\ ReaderCancels(X, k, n.run, n.open, n.reader)
  BY <1>1, <1>3, <1>6, Zenon DEF SoundBut, SameBooks, Awake, Sending, ReaderCancels
<1>12. Down(k, n.run, n.open)
  <2>1. AllWaiting(d.mpx) \/ ~d.mpx.cancel_run_called
    BY Zenon DEF SoundBut, Down
  <2>2. AllWaiting(k)
    BY <1>2, <1>3, <2>1 DEF AllWaiting
  <2>3. QED
    BY <1>1, <2>2 DEF Down
<1>13. SoundBut(n, X)
  BY <1>1, <1>3, <1>5, <1>7, <1>8, <1>9, <1>10, <1>11, <1>12, Zenon DEF SoundBut
<1>14. QED
  BY <1>1, <1>3, <1>6, <1>13, Zenon DEF n

(***************************************************************************)
(* A step of the multiplexer that takes requests out of the queue only if  *)
(* they are notified or nobody waits for them.                             *)
(***************************************************************************)
LEMMA MpxStep ==
  ASSUME NEW d, NEW X, SoundBut(d, X), NEW k, WellFormed(k),
         Queued(k) \subseteq Queued(d.mpx), d.mpx.done \subseteq k.done,
         \A e \in Queued(d.mpx) \ Queued(k) : e \in k.done \/ d.exec[e] # "wait",
         \A e \in Elem : is_waiting(d.mpx, e) => is_waiting(k, e),
         d.writer = "timer" => \A e \in Elem : is_waiting(k, e) => is_waiting(d.mpx, e),
         k.cancel_run_called = d.mpx.cancel_run_called,
         ReadSide(X, k, d.reader), WriteSide(k, d.writer)
  PROVE  SoundBut([d EXCEPT !.mpx = k], X)
<1> DEFINE n == [d EXCEPT !.mpx = k]
<1>1. d \in ConnectionType /\ k \in MultiplexerType
  BY Zenon DEF SoundBut, WellFormed
<1>2. /\ n \in ConnectionType /\ n.mpx = k /\ SameBooks(d, n)
      /\ n.open = d.open /\ n.run = d.run /\ n.reader = d.reader /\ n.writer = d.writer
      /\ n.ping = d.ping /\ n.check = d.check
  BY <1>1 DEF ConnectionType, SameBooks
<1>3. Queued(d.mpx) \subseteq Elem /\ Queued(k) \subseteq Elem
  BY QueuedElem, Zenon DEF SoundBut
<1>4. Requests(d.exec, k)
  <2>1. Requests(d.exec, d.mpx)
    BY Zenon DEF SoundBut
  <2>2. QED
    BY <2>1, Zenon DEF Requests
<1>5. Awake(k, d.run, d.open, d.writer)
  <2>1. Awake(d.mpx, d.run, d.open, d.writer)
    BY Zenon DEF SoundBut
  <2>2. QED
    BY <1>3, <2>1, Zenon DEF Awake, NothingWaits
<1>6. Down(k, d.run, d.open)
  <2>1. Down(d.mpx, d.run, d.open)
    BY Zenon DEF SoundBut
  <2>2. AllWaiting(d.mpx) => AllWaiting(k)
    BY <1>3, Zenon DEF AllWaiting
  <2>3. QED
    BY <2>1, <2>2, Zenon DEF Down
<1>7. ReaderCancels(X, k, d.run, d.open, d.reader)
  BY Zenon DEF SoundBut, ReaderCancels
<1> HIDE DEF n
<1>8. SoundBut(n, X)
  BY <1>2, <1>4, <1>5, <1>6, <1>7, Zenon DEF SoundBut, SameBooks
<1>9. QED
  BY <1>8 DEF n

(***************************************************************************)
(* The program counters of the operations.                                 *)
(***************************************************************************)
LEMMA ReaderPcStep ==
  ASSUME NEW d, NEW X, NEW Y, SoundBut(d, X), NEW p \in ReaderPc, Settled(X, "reader", Y),
         Book(Y, "reader", d.run, d.group["reader"], p), ReadSide(Y, d.mpx, p),
         ReaderCancels(Y, d.mpx, d.run, d.open, p)
  PROVE  LET n == [d EXCEPT !.reader = p]
         IN  /\ SoundBut(n, Y) /\ Same(d, n) /\ n.reader = p
             /\ n.writer = d.writer /\ n.ping = d.ping /\ n.check = d.check
<1> DEFINE n == [d EXCEPT !.reader = p]
<1>1. /\ n \in ConnectionType /\ Same(d, n) /\ n.reader = p
      /\ n.writer = d.writer /\ n.ping = d.ping /\ n.check = d.check
  BY DEF SoundBut, ConnectionType, Same, SameBooks
<1> HIDE DEF n
<1>2. /\ HelloBook(Y, d.run, d.group["hello"], d.exec)
      /\ Book(Y, "ping", d.run, d.group["ping"], d.ping)
      /\ Book(Y, "check", d.run, d.group["check"], d.check)
      /\ Book(Y, "writer", d.run, d.group["writer"], d.writer)
      /\ Sending(Y, d.run, d.sent)
  BY Zenon DEF SoundBut, HelloBook, Book, Sending, Settled
<1>3. SoundBut(n, Y)
  BY <1>1, <1>2, Zenon DEF SoundBut, Same, SameBooks
<1>4. QED
  BY <1>1, <1>3 DEF n

\* writer_op moves on, to a place that its books and the write buffer allow.
LEMMA WriterPcStep ==
  ASSUME NEW d, NEW X, NEW Y, SoundBut(d, X), NEW p \in WriterPc, Settled(X, "writer", Y),
         Book(Y, "writer", d.run, d.group["writer"], p), WriteSide(d.mpx, p),
         Awake(d.mpx, d.run, d.open, p)
  PROVE  LET n == [d EXCEPT !.writer = p]
         IN  /\ SoundBut(n, Y) /\ Same(d, n) /\ n.writer = p
             /\ n.reader = d.reader /\ n.ping = d.ping /\ n.check = d.check
<1> DEFINE n == [d EXCEPT !.writer = p]
<1>1. /\ n \in ConnectionType /\ Same(d, n) /\ n.writer = p
      /\ n.reader = d.reader /\ n.ping = d.ping /\ n.check = d.check
  BY DEF SoundBut, ConnectionType, Same, SameBooks
<1> HIDE DEF n
<1>2. /\ HelloBook(Y, d.run, d.group["hello"], d.exec)
      /\ Book(Y, "ping", d.run, d.group["ping"], d.ping)
      /\ Book(Y, "check", d.run, d.group["check"], d.check)
      /\ Book(Y, "reader", d.run, d.group["reader"], d.reader)
  BY Zenon DEF SoundBut, HelloBook, Book, Settled
<1>3. /\ ReadSide(Y, d.mpx, d.reader) /\ Sending(Y, d.run, d.sent)
      /\ ReaderCancels(Y, d.mpx, d.run, d.open, d.reader)
  BY Zenon DEF SoundBut, ReadSide, Sending, ReaderCancels, Settled
<1>4. SoundBut(n, Y)
  BY <1>1, <1>2, <1>3, Zenon DEF SoundBut, Same, SameBooks
<1>5. QED
  BY <1>1, <1>4 DEF n

\* ping_op moves on, to a place that its books and its PING allow.
LEMMA PingPcStep ==
  ASSUME NEW d, NEW X, NEW Y, SoundBut(d, X), NEW p \in PingPc, Settled(X, "ping", Y),
         Book(Y, "ping", d.run, d.group["ping"], p),
         PingExec(d.exec, p), FreshPing(d.exec, p)
  PROVE  LET n == [d EXCEPT !.ping = p]
         IN  /\ SoundBut(n, Y) /\ Same(d, n) /\ n.ping = p
             /\ n.reader = d.reader /\ n.writer = d.writer /\ n.check = d.check
<1> DEFINE n == [d EXCEPT !.ping = p]
<1>1. /\ n \in ConnectionType /\ Same(d, n) /\ n.ping = p
      /\ n.reader = d.reader /\ n.writer = d.writer /\ n.check = d.check
  BY DEF SoundBut, ConnectionType, Same, SameBooks
<1> HIDE DEF n
<1>2. /\ HelloBook(Y, d.run, d.group["hello"], d.exec)
      /\ Book(Y, "check", d.run, d.group["check"], d.check)
      /\ Book(Y, "reader", d.run, d.group["reader"], d.reader)
      /\ Book(Y, "writer", d.run, d.group["writer"], d.writer)
  BY Zenon DEF SoundBut, HelloBook, Book, Settled
<1>3. /\ ReadSide(Y, d.mpx, d.reader) /\ Sending(Y, d.run, d.sent)
      /\ ReaderCancels(Y, d.mpx, d.run, d.open, d.reader)
  BY Zenon DEF SoundBut, ReadSide, Sending, ReaderCancels, Settled
<1>4. SoundBut(n, Y)
  BY <1>1, <1>2, <1>3, Zenon DEF SoundBut, Same, SameBooks
<1>5. QED
  BY <1>1, <1>4 DEF n

\* check_timeout_op moves on, to a place that its books allow.
LEMMA CheckPcStep ==
  ASSUME NEW d, NEW X, NEW Y, SoundBut(d, X), NEW p \in CheckPc, Settled(X, "check", Y),
         Book(Y, "check", d.run, d.group["check"], p)
  PROVE  LET n == [d EXCEPT !.check = p]
         IN  /\ SoundBut(n, Y) /\ Same(d, n) /\ n.check = p
             /\ n.reader = d.reader /\ n.writer = d.writer /\ n.ping = d.ping
<1> DEFINE n == [d EXCEPT !.check = p]
<1>1. /\ n \in ConnectionType /\ Same(d, n) /\ n.check = p
      /\ n.reader = d.reader /\ n.writer = d.writer /\ n.ping = d.ping
  BY DEF SoundBut, ConnectionType, Same, SameBooks
<1> HIDE DEF n
<1>2. /\ HelloBook(Y, d.run, d.group["hello"], d.exec)
      /\ Book(Y, "ping", d.run, d.group["ping"], d.ping)
      /\ Book(Y, "reader", d.run, d.group["reader"], d.reader)
      /\ Book(Y, "writer", d.run, d.group["writer"], d.writer)
  BY Zenon DEF SoundBut, HelloBook, Book, Settled
<1>3. /\ ReadSide(Y, d.mpx, d.reader) /\ Sending(Y, d.run, d.sent)
      /\ ReaderCancels(Y, d.mpx, d.run, d.open, d.reader)
  BY Zenon DEF SoundBut, ReadSide, Sending, ReaderCancels, Settled
<1>4. SoundBut(n, Y)
  BY <1>1, <1>2, <1>3, Zenon DEF SoundBut, Same, SameBooks
<1>5. QED
  BY <1>1, <1>4 DEF n

(***************************************************************************)
(* An operation that has nothing pending completes.                        *)
(***************************************************************************)
Ended(d, o) ==
  /\ d.run = "group" /\ o \in Op
  /\ o = "hello" => ~HelloWaits(d.exec)
  /\ o = "ping" => d.ping = "off"
  /\ o = "check" => d.check = "off"
  /\ o = "reader" => d.reader = "off" /\ d.mpx.cancel_run_called
  /\ o = "writer" => d.writer = "off"

Outcome == OpResult \ {"on"}

\* An operation that has ended is entered in the books of the group (complete).
LEMMA CompleteSound ==
  ASSUME NEW d, NEW X, NEW Y, NEW o, SoundBut(d, X), Ended(d, o), Settled(X, o, Y),
         NEW r \in Outcome
  PROVE  LET n == complete(d, o, r)
         IN  SoundBut(n, Y) /\ Softer(d, n) /\ OneResult(d, n, o, r)
<1> DEFINE n == complete(d, o, r)
<1>1. d \in ConnectionType /\ o \in Op /\ d.run = "group" /\ r \in OpResult /\ r # "on"
  BY Zenon DEF SoundBut, Ended, Outcome
<1>2. n \in ConnectionType /\ Softer(d, n) /\ OneResult(d, n, o, r)
  BY <1>1, CompleteEffect
<1> HIDE DEF n
<1>3. /\ n.mpx = d.mpx /\ n.open = d.open /\ n.run = d.run
      /\ n.exec = d.exec /\ n.sent = d.sent /\ n.group[o] = r
      /\ \A x \in Op \ {o} : n.group[x] = d.group[x]
  <2>1. d.group \in [Op -> OpResult]
    BY <1>1 DEF ConnectionType
  <2>2. QED
    BY <1>1, <1>2, <2>1 DEF OneResult
<1>4. /\ PingExec(d.exec, n.ping) /\ FreshPing(d.exec, n.ping)
      /\ Book(X, "ping", d.run, d.group["ping"], n.ping)
      /\ Book(X, "check", d.run, d.group["check"], n.check)
      /\ Book(X, "reader", d.run, d.group["reader"], n.reader)
      /\ Book(X, "writer", d.run, d.group["writer"], n.writer)
      /\ ReadSide(X, d.mpx, n.reader) /\ WriteSide(d.mpx, n.writer)
      /\ Awake(d.mpx, d.run, d.open, n.writer)
      /\ ReaderCancels(X, d.mpx, d.run, d.open, n.reader)
  BY <1>2, SoftFields, Zenon
<1>5. /\ o = "ping" => n.ping = "off"
      /\ o = "check" => n.check = "off"
      /\ o = "reader" => n.reader = "off" /\ d.mpx.cancel_run_called
      /\ o = "writer" => n.writer = "off"
  BY <1>2 DEF Softer, Ended
<1>6. HelloBook(Y, n.run, n.group["hello"], n.exec)
  <2>1. HelloBook(X, d.run, d.group["hello"], d.exec) /\ (o = "hello" => ~HelloWaits(d.exec))
    BY Zenon DEF SoundBut, Ended
  <2>2. QED
    BY <1>1, <1>3, <2>1 DEF HelloBook, Op, Settled
<1>7. ASSUME NEW x \in Op, NEW pc, Book(X, x, d.run, d.group[x], pc), x = o => pc = "off"
      PROVE  Book(Y, x, n.run, n.group[x], pc)
  <2>1. n.run = d.run /\ (x # o => n.group[x] = d.group[x]) /\ (x = o => n.group[x] # "on")
    BY <1>1, <1>3, Zenon
  <2>2. QED
    BY <1>7, <2>1 DEF Book, Settled
<1>8. /\ Book(Y, "ping", n.run, n.group["ping"], n.ping)
      /\ Book(Y, "check", n.run, n.group["check"], n.check)
      /\ Book(Y, "reader", n.run, n.group["reader"], n.reader)
      /\ Book(Y, "writer", n.run, n.group["writer"], n.writer)
  BY <1>4, <1>5, <1>7, Zenon DEF Op
<1>9. ReadSide(Y, d.mpx, n.reader) /\ ReaderCancels(Y, d.mpx, d.run, d.open, n.reader)
  BY <1>4, <1>5, Zenon DEF ReadSide, ReaderCancels, Settled
<1>10. Sending(Y, d.run, d.sent)
  BY <1>1, Zenon DEF SoundBut, Sending, Op, Settled
<1>11. SoundBut(n, Y)
  BY <1>2, <1>3, <1>4, <1>6, <1>8, <1>9, <1>10, Zenon DEF SoundBut
<1>12. QED
  BY <1>2, <1>11 DEF n

(***************************************************************************)
(* A call of async_exec: of a user, or of an operation about to start.     *)
(***************************************************************************)
MayStart(d, X, e) ==
  /\ e \in Elem /\ d.exec[e] = "idle"
  /\ e \in Hello => "hello" \in X /\ d.run = "group" /\ ~HelloWaits(d.exec)
  /\ e \in Ping => d.ping = "exec" /\ d.run = "group" /\ ~PingWaits(d.exec)

\* e is added, and its async_exec waits.
OneExec(d, n, e) ==
  /\ n.mpx = add(d.mpx, e) /\ n.exec[e] = "wait"
  /\ \A f \in Elem \ {e} : n.exec[f] = d.exec[f]
  /\ n.open = d.open /\ n.run = d.run /\ n.sent = d.sent /\ n.group = d.group

\* async_exec starts (start_exec) with an elem that was not used before.
LEMMA StartExecSound ==
  ASSUME NEW d, NEW X, NEW e, SoundBut(d, X), MayStart(d, X, e)
  PROVE  LET n == start_exec(d, e)
         IN  SoundBut(n, X) /\ Softer(d, n) /\ OneExec(d, n, e)
<1> DEFINE n == start_exec(d, e)
           k == add(d.mpx, e)
<1>1. /\ d \in ConnectionType /\ WellFormed(d.mpx) /\ d.mpx \in MultiplexerType
      /\ is_waiting(d.mpx, e) /\ e \notin Queued(d.mpx) /\ e \in Elem
  BY Zenon DEF SoundBut, Requests, WellFormed, MayStart
<1>2. /\ n \in ConnectionType /\ Softer(d, n)
      /\ n.mpx = k /\ n.exec = [d.exec EXCEPT ![e] = "wait"]
      /\ n.open = d.open /\ n.run = d.run /\ n.sent = d.sent /\ n.group = d.group
      /\ n.open /\ ~is_writing(d.mpx) => n.writer # "timer"
  BY <1>1, StartExecEffect, Zenon
<1>3. WellFormed(k) /\ Queued(k) = Queued(d.mpx) \cup {e} /\ SameBuffers(d.mpx, k)
  BY <1>1, Add, QueueBuffers
<1>4. k.status = d.mpx.status /\ k.done = d.mpx.done
      /\ k.cancel_run_called = d.mpx.cancel_run_called
  <2>1. k = [d.mpx EXCEPT !.reqs = k.reqs]
    BY <1>1, Add
  <2> HIDE DEF k
  <2>2. QED
    BY <1>1, <2>1 DEF MultiplexerType
<1> HIDE DEF n, k
<1>5. n.exec[e] = "wait" /\ \A f \in Elem \ {e} : n.exec[f] = d.exec[f]
  <2>1. d.exec \in [Elem -> ExecResult]
    BY <1>1 DEF ConnectionType
  <2>2. QED
    BY <1>1, <1>2, <2>1
<1>6. Hello \subseteq Elem /\ Ping \subseteq Elem /\ Hello \cap Ping = {}
  BY ElemAssumption
<1>7. Requests(n.exec, k)
  <2>1. Requests(d.exec, d.mpx)
    BY Zenon DEF SoundBut
  <2>2. QED
    BY <1>3, <1>4, <1>5, <2>1, Zenon DEF Requests, is_waiting
<1>8. /\ e \notin Hello => (HelloWaits(n.exec) <=> HelloWaits(d.exec))
      /\ e \notin Hello => (HelloLeft(d.exec) => HelloLeft(n.exec))
      /\ e \notin Ping => (PingWaits(n.exec) => PingWaits(d.exec))
      /\ e \notin Ping => (PingLeft(d.exec) => PingLeft(n.exec))
  BY <1>5, <1>6 DEF HelloWaits, PingWaits, HelloLeft, PingLeft
<1>9. SingleHello(n.exec)
  <2>1. SingleHello(d.exec) /\ (e \in Hello => ~HelloWaits(d.exec))
    BY Zenon DEF SoundBut, MayStart
  <2>2. QED
    BY <1>5, <1>6, <2>1 DEF SingleHello, HelloWaits
<1>10. SinglePing(n.exec)
  <2>1. SinglePing(d.exec) /\ (e \in Ping => ~PingWaits(d.exec))
    BY Zenon DEF SoundBut, MayStart
  <2>2. QED
    BY <1>5, <1>6, <2>1 DEF SinglePing, PingWaits
<1>11. PingExec(n.exec, n.ping) /\ FreshPing(n.exec, n.ping)
  <2>1. /\ PingExec(d.exec, n.ping) /\ FreshPing(d.exec, n.ping)
        /\ e \in Ping => n.ping = "exec"
    BY <1>2, SoftFields, Zenon DEF MayStart, Softer
  <2>2. CASE e \in Ping
    BY <2>1, <2>2 DEF PingExec, FreshPing
  <2>3. CASE e \notin Ping
    BY <1>8, <2>1, <2>3 DEF PingExec, FreshPing
  <2>4. QED
    BY <2>2, <2>3
<1>12. FreshHello(n.exec, n.run) /\ HelloBook(X, n.run, n.group["hello"], n.exec)
  <2>1. /\ FreshHello(d.exec, d.run) /\ HelloBook(X, d.run, d.group["hello"], d.exec)
        /\ e \in Hello => "hello" \in X /\ d.run = "group"
        /\ e \in Ping => d.run = "group"
    BY Zenon DEF SoundBut, MayStart
  <2>2. n.run = d.run /\ n.group = d.group
    BY <1>2, Zenon
  <2>3. FreshHello(n.exec, n.run)
    BY <1>8, <2>1, <2>2 DEF FreshHello
  <2>4. HelloBook(X, n.run, n.group["hello"], n.exec)
    BY <1>8, <2>1, <2>2 DEF HelloBook
  <2>5. QED
    BY <2>3, <2>4
<1>13. ReadSide(X, k, n.reader) /\ WriteSide(k, n.writer)
  <2>1. ReadSide(X, d.mpx, n.reader) /\ WriteSide(d.mpx, n.writer)
    BY <1>2, SoftFields, Zenon
  <2>2. QED
    BY <1>3, <2>1 DEF ReadSide, WriteSide, SameBuffers, is_writing
<1>14. Awake(k, n.run, n.open, n.writer)
  <2>1. n.writer = "timer" => ~is_writing(d.mpx)
    BY <1>2, Zenon DEF SoundBut, WriteSide, Softer
  <2>2. QED
    BY <1>2, <2>1 DEF Awake
<1>15. Down(k, n.run, n.open) /\ ReaderCancels(X, k, n.run, n.open, n.reader)
  <2>1. /\ Down(d.mpx, d.run, d.open)
        /\ ReaderCancels(X, d.mpx, d.run, d.open, n.reader)
    BY <1>2, SoftFields, Zenon DEF SoundBut
  <2>2. AllWaiting(d.mpx) => AllWaiting(k)
    BY <1>1, <1>3, <1>4 DEF AllWaiting, is_waiting
  <2>3. QED
    BY <1>2, <1>4, <2>1, <2>2, Zenon DEF Down, ReaderCancels
<1>16. /\ Book(X, "ping", n.run, n.group["ping"], n.ping)
       /\ Book(X, "check", n.run, n.group["check"], n.check)
       /\ Book(X, "reader", n.run, n.group["reader"], n.reader)
       /\ Book(X, "writer", n.run, n.group["writer"], n.writer)
       /\ Sending(X, n.run, n.sent)
  BY <1>2, SoftFields, Zenon DEF SoundBut
<1>17. SoundBut(n, X)
  BY <1>2, <1>3, <1>7, <1>9, <1>10, <1>11, <1>12, <1>13, <1>14, <1>15, <1>16, Zenon DEF SoundBut
<1>18. QED
  BY <1>2, <1>5, <1>17, Zenon DEF n, k, OneExec

(***************************************************************************)
(* async_exec is over for e: somebody else settles the books of hello_op.  *)
(***************************************************************************)
LEMMA ExecEnd ==
  ASSUME NEW d, NEW X, SoundBut(d, X), NEW e \in Elem, d.exec[e] = "wait",
         NEW v \in ExecResult, v \notin {"idle", "wait"}, e \in Hello => "hello" \in X
  PROVE  LET n == [d EXCEPT !.exec[e] = v]
         IN  /\ SoundBut(n, X) /\ n.exec[e] = v
             /\ n.mpx = d.mpx /\ n.open = d.open /\ n.run = d.run /\ n.group = d.group
             /\ n.reader = d.reader /\ n.writer = d.writer
             /\ n.ping = d.ping /\ n.check = d.check
             /\ e \in Hello => ~HelloWaits(n.exec)
             /\ e \in Ping => ~PingWaits(n.exec)
<1> DEFINE x == [d.exec EXCEPT ![e] = v]
           n == [d EXCEPT !.exec[e] = v]
<1>1. d \in ConnectionType /\ d.exec \in [Elem -> ExecResult]
  BY Zenon DEF SoundBut, ConnectionType
<1>2. /\ x \in [Elem -> ExecResult] /\ x[e] = v
      /\ \A f \in Elem \ {e} : x[f] = d.exec[f]
  BY <1>1
<1>3. n = [d EXCEPT !.exec = x]
  BY <1>1 DEF ConnectionType
<1> HIDE DEF x, n
<1>4. /\ n \in ConnectionType /\ n.exec = x /\ n.mpx = d.mpx /\ n.open = d.open
      /\ n.run = d.run /\ n.sent = d.sent /\ n.group = d.group
      /\ n.reader = d.reader /\ n.writer = d.writer /\ n.ping = d.ping /\ n.check = d.check
  BY <1>1, <1>2, <1>3 DEF ConnectionType
<1>5. Hello \subseteq Elem /\ Ping \subseteq Elem
  BY ElemAssumption
<1>6. Requests(x, d.mpx)
  <2>1. Requests(d.exec, d.mpx)
    BY Zenon DEF SoundBut
  <2>2. QED
    BY <1>2, <2>1 DEF Requests
<1>7. /\ SingleHello(x) /\ SinglePing(x)
      /\ e \in Hello => ~HelloWaits(x)
      /\ e \in Ping => ~PingWaits(x)
  <2>1. SingleHello(d.exec) /\ SinglePing(d.exec)
    BY Zenon DEF SoundBut
  <2>2. SingleHello(x) /\ (e \in Hello => ~HelloWaits(x))
    BY <1>2, <1>5, <2>1 DEF SingleHello, HelloWaits
  <2>3. SinglePing(x) /\ (e \in Ping => ~PingWaits(x))
    BY <1>2, <1>5, <2>1 DEF SinglePing, PingWaits
  <2>4. QED
    BY <2>2, <2>3
<1>8. /\ e \notin Hello => (HelloWaits(x) <=> HelloWaits(d.exec))
      /\ PingWaits(x) => PingWaits(d.exec)
      /\ HelloLeft(x) <=> HelloLeft(d.exec)
      /\ PingLeft(x) <=> PingLeft(d.exec)
  BY <1>2, <1>5 DEF HelloWaits, PingWaits, HelloLeft, PingLeft
<1>9. /\ PingExec(x, d.ping) /\ FreshPing(x, d.ping) /\ FreshHello(x, d.run)
      /\ HelloBook(X, d.run, d.group["hello"], x)
  <2>1. /\ PingExec(d.exec, d.ping) /\ FreshPing(d.exec, d.ping) /\ FreshHello(d.exec, d.run)
        /\ HelloBook(X, d.run, d.group["hello"], d.exec)
    BY Zenon DEF SoundBut
  <2>2. QED
    BY <1>8, <2>1 DEF PingExec, FreshPing, FreshHello, HelloBook
<1>10. SoundBut(n, X)
  BY <1>4, <1>6, <1>7, <1>9, Zenon DEF SoundBut
<1>11. QED
  BY <1>2, <1>4, <1>7, <1>10 DEF n

(***************************************************************************)
(* The operations of the group, as they start and as they go on.           *)
(***************************************************************************)
LEMMA StartReadSound ==
  ASSUME NEW d, NEW X, NEW Y, SoundBut(d, X), Settled(X, "reader", Y),
         d.run = "group", d.group["reader"] = "on"
  PROVE  SoundBut(start_read(d), Y) /\ Same(d, start_read(d))
<1> DEFINE p == IF d.open THEN "read" ELSE "read_err"
<1>1. p \in ReaderPc /\ p \notin {"off", "read_ok"} /\ (d.open \/ p = "read_err")
  BY DEF ReaderPc
<1>2. start_read(d) = [d EXCEPT !.reader = p]
  BY DEF start_read
<1> HIDE DEF p
<1>3. /\ Book(Y, "reader", d.run, d.group["reader"], p) /\ ReadSide(Y, d.mpx, p)
      /\ ReaderCancels(Y, d.mpx, d.run, d.open, p)
  BY <1>1, Zenon DEF Book, SoundBut, ReadSide, ReaderCancels
<1>4. QED
  BY <1>1, <1>2, <1>3, ReaderPcStep

\* run_op starts check_timeout_op (async_check_timeout).
LEMMA StartCheckSound ==
  ASSUME NEW d, NEW X, NEW Y, SoundBut(d, X), Settled(X, "check", Y),
         d.run = "group", d.group["check"] = "on"
  PROVE  SoundBut(start_check(d), Y) /\ Same(d, start_check(d))
<1> DEFINE p == IF HealthCheck THEN "timer" ELSE "post"
           k == [d EXCEPT !.check = p]
           n == [k EXCEPT !.exited = FALSE]
<1>1. p \in CheckPc /\ p # "off"
  BY DEF CheckPc
<1>2. n = start_check(d)
  BY Zenon DEF start_check, SoundBut, ConnectionType
<1> HIDE DEF p
<1>3. Book(Y, "check", d.run, d.group["check"], p)
  BY <1>1 DEF Book
<1>4. SoundBut(k, Y) /\ Same(d, k)
  BY <1>1, <1>3, CheckPcStep
<1> HIDE DEF k
<1>5. n \in ConnectionType /\ Same(k, n) /\ Softer(k, n)
  BY <1>4, Zenon DEF SoundBut, ConnectionType, Same, SameBooks, Softer
<1> HIDE DEF n
<1>6. SoundBut(n, Y)
  BY <1>4, <1>5, SoftStep
<1>7. QED
  BY <1>2, <1>4, <1>5, <1>6, Zenon DEF Same, SameBooks

\* What is appended to a sequence that is not empty leaves its head alone.
LEMMA HeadOfConcat ==
  ASSUME NEW a \in Seq(Elem), NEW b \in Seq(Elem), b # << >>
  PROVE  /\ a \o b \in Seq(Elem) /\ a \o b # << >>
         /\ Head(a \o b) = IF a # << >> THEN Head(a) ELSE Head(b)
<1>1. Len(a) \in Nat /\ Len(b) \in Nat /\ Len(b) # 0 /\ (a = << >> <=> Len(a) = 0)
  OBVIOUS
<1>2. Len(a \o b) = Len(a) + Len(b) /\ a \o b \in Seq(Elem)
  OBVIOUS
<1>3. (a \o b)[1] = IF a # << >> THEN a[1] ELSE b[1]
  BY <1>1
<1>4. a \o b # << >>
  BY <1>1, <1>2
<1>5. QED
  BY <1>1, <1>2, <1>3, <1>4

(***************************************************************************)
(* The loop of writer_op on a connection that was not cancelled.  The      *)
(* first thing ever staged is HELLO.                                       *)
(***************************************************************************)
LEMMA WriteLoopSound ==
  ASSUME NEW d, NEW X, NEW Y, SoundBut(d, X), SettledWriter(X, Y),
         d.run = "group", d.group["writer"] = "on",
         ~is_writing(d.mpx), ~d.mpx.cancel_run_called,
         d.sent # << >> \/ (to_stage(d.mpx) # << >> /\ Head(to_stage(d.mpx)) \in Hello)
  PROVE  SoundBut(write_loop(d), Y)
<1> DEFINE t == to_stage(d.mpx)
<1>1. d \in ConnectionType /\ WellFormed(d.mpx) /\ d.sent \in Seq(Elem)
  BY Zenon DEF SoundBut, ConnectionType
<1>2. /\ HelloBook(Y, d.run, d.group["hello"], d.exec)
      /\ Book(Y, "ping", d.run, d.group["ping"], d.ping)
      /\ Book(Y, "check", d.run, d.group["check"], d.check)
      /\ Book(Y, "reader", d.run, d.group["reader"], d.reader)
  BY Zenon DEF SoundBut, HelloBook, Book, SettledWriter
<1>3. ReadSide(Y, d.mpx, d.reader) /\ ReaderCancels(Y, d.mpx, d.run, d.open, d.reader)
  BY Zenon DEF SoundBut, ReadSide, ReaderCancels, SettledWriter
<1>4. CASE t = << >>
  <2> DEFINE n == [d EXCEPT !.writer = "timer"]
  <2>1. NothingWaits(d.mpx)
    BY <1>1, <1>4, StageEmpty, Zenon DEF NothingWaits
  <2>2. /\ n \in ConnectionType /\ Same(d, n) /\ n.writer = "timer"
        /\ n.reader = d.reader /\ n.ping = d.ping /\ n.check = d.check
    BY <1>1 DEF ConnectionType, WriterPc, Same, SameBooks
  <2>3. /\ Book(Y, "writer", d.run, d.group["writer"], "timer") /\ WriteSide(d.mpx, "timer")
        /\ Awake(d.mpx, d.run, d.open, "timer")
    BY <2>1 DEF Book, WriteSide, Awake
  <2>4. Sending(Y, d.run, d.sent)
    BY <1>4, Zenon DEF SoundBut, Sending, SettledWriter
  <2>5. n = write_loop(d)
    BY <1>4 DEF write_loop
  <2> HIDE DEF n
  <2>6. QED
    BY <1>2, <1>3, <2>2, <2>3, <2>4, <2>5, Zenon DEF SoundBut, Same, SameBooks
<1>5. CASE t # << >>
  <2> DEFINE k == prepare_write(d.mpx)
             w == IF d.open THEN "write" ELSE "write_err"
             s == d.sent \o t
             n == [d EXCEPT !.mpx = k, !.sent = s, !.writer = w]
  <2>1. /\ t \in Seq(Elem) /\ WellFormed(k) /\ Queued(k) = Queued(d.mpx)
        /\ \A e \in Elem \ Queued(d.mpx) : k.status[e] = d.mpx.status[e]
        /\ k.done = d.mpx.done /\ k.cancel_run_called = d.mpx.cancel_run_called
    BY <1>1, PrepareWriteLemma, Zenon
  <2>2. k.read_buffer = d.mpx.read_buffer /\ k.parsed = d.mpx.parsed
    BY <1>1, WriteBuffers, Zenon DEF WellFormed
  <2>3. w \in WriterPc /\ w \notin {"off", "timer", "woken"}
    BY DEF WriterPc
  <2>4. n = write_loop(d)
    BY <1>5 DEF write_loop
  <2> HIDE DEF k, w, t
  <2>5. s \in Seq(Elem) /\ s # << >> /\ Head(s) = IF d.sent # << >> THEN Head(d.sent) ELSE Head(t)
    BY <1>1, <1>5, <2>1, HeadOfConcat, Zenon
  <2>6. Head(s) \in Hello
    <3>1. d.sent # << >> => Head(d.sent) \in Hello
      BY Zenon DEF SoundBut, Sending
    <3>2. d.sent = << >> => Head(t) \in Hello
      BY Zenon DEF t
    <3> HIDE DEF s
    <3>3. QED
      BY <2>5, <3>1, <3>2, Zenon
  <2> HIDE DEF s
  <2>7. /\ n \in ConnectionType /\ n.mpx = k /\ n.sent = s /\ n.writer = w
        /\ n.open = d.open /\ n.run = d.run /\ n.exec = d.exec /\ n.group = d.group
        /\ n.reader = d.reader /\ n.ping = d.ping /\ n.check = d.check
    BY <1>1, <2>1, <2>3, <2>5, Zenon DEF ConnectionType, WellFormed
  <2> HIDE DEF n
  <2>8. Requests(d.exec, k)
    <3>1. Requests(d.exec, d.mpx)
      BY Zenon DEF SoundBut
    <3>2. QED
      BY <2>1, <3>1, Zenon DEF Requests, is_waiting
  <2>9. /\ Book(Y, "writer", d.run, d.group["writer"], w) /\ WriteSide(k, w)
        /\ Awake(k, d.run, d.open, w) /\ Sending(Y, d.run, s)
    BY <2>3, <2>5, <2>6, Zenon DEF Book, WriteSide, Awake, Sending
  <2>10. ReadSide(Y, k, d.reader)
    BY <1>3, <2>2 DEF ReadSide
  <2>11. Down(k, d.run, d.open) /\ ReaderCancels(Y, k, d.run, d.open, d.reader)
    BY <1>3, <2>1, Zenon DEF Down, ReaderCancels
  <2>12. SoundBut(n, Y)
    BY <1>2, <2>1, <2>7, <2>8, <2>9, <2>10, <2>11, Zenon DEF SoundBut
  <2>13. QED
    BY <2>4, <2>12
<1>6. QED
  BY <1>4, <1>5

(***************************************************************************)
(* The loop of ping_op, when no PING is outstanding.                       *)
(***************************************************************************)
LEMMA PingLoopSound ==
  ASSUME NEW d, NEW X, NEW Y, SoundBut(d, X), "ping" \in X, Settled(X, "ping", Y),
         d.run = "group", d.group["ping"] = "on", d.ping # "exec",
         HealthCheck => PingLeft(d.exec)
  PROVE  LET n == ping_loop(d)
         IN  /\ SoundBut(n, Y)
             /\ n.run = d.run /\ n.open = d.open /\ n.sent = d.sent
             /\ \A o \in Op \ {"ping"} : n.group[o] = d.group[o]
             /\ \/ n.mpx = d.mpx
                \/ \E e \in Ping : d.exec[e] = "idle" /\ n.mpx = add(d.mpx, e)
<1>1. d \in ConnectionType /\ ~PingWaits(d.exec)
  BY Zenon DEF SoundBut, PingExec
<1>2. HealthCheck \in BOOLEAN /\ Ping \subseteq Elem /\ Hello \cap Ping = {}
  BY ElemAssumption
<1>3. ASSUME NEW p \in PingPc, p # "sleep_ok"
      PROVE  /\ Book(X, "ping", d.run, d.group["ping"], p)
             /\ PingExec(d.exec, p) /\ FreshPing(d.exec, p)
             /\ p # "off" => Book(Y, "ping", d.run, d.group["ping"], p)
  BY <1>1, <1>3 DEF Book, PingExec, FreshPing
<1>4. "post" \in PingPc /\ "off" \in PingPc /\ "exec" \in PingPc /\ Settled(X, "ping", X)
  BY DEF PingPc, Settled
<1>5. CASE ~HealthCheck
  <2> DEFINE n == [d EXCEPT !.ping = "post"]
  <2>1. SoundBut(n, Y) /\ Same(d, n)
    BY <1>3, <1>4, PingPcStep
  <2>2. n = ping_loop(d)
    BY <1>5 DEF ping_loop
  <2> HIDE DEF n
  <2>3. QED
    BY <2>1, <2>2 DEF Same, SameBooks
<1>6. CASE HealthCheck /\ d.exited
  <2> DEFINE k == [d EXCEPT !.ping = "off"]
             n == complete(k, "ping", "ok")
  <2>1. SoundBut(k, X) /\ Same(d, k) /\ k.ping = "off"
    BY <1>3, <1>4, PingPcStep
  <2>2. n = ping_loop(d)
    BY <1>6 DEF ping_loop
  <2> HIDE DEF k
  <2>3. Ended(k, "ping") /\ "ok" \in Outcome
    BY <2>1 DEF Ended, Op, Outcome, OpResult, Same
  <2>4. SoundBut(n, Y) /\ OneResult(k, n, "ping", "ok")
    BY <2>1, <2>3, CompleteSound, Zenon
  <2> HIDE DEF n
  <2>5. d.group \in [Op -> OpResult]
    BY <1>1 DEF ConnectionType
  <2>6. /\ n.run = d.run /\ n.open = d.open /\ n.sent = d.sent /\ n.mpx = d.mpx
        /\ n.group = [d.group EXCEPT !["ping"] = "ok"]
    BY <2>1, <2>4, Zenon DEF Same, SameBooks, OneResult
  <2>7. \A o \in Op \ {"ping"} : n.group[o] = d.group[o]
    BY <2>5, <2>6, Zenon
  <2>8. QED
    BY <2>2, <2>4, <2>6, <2>7, Zenon
<1>7. CASE HealthCheck /\ ~d.exited
  <2> DEFINE k == [d EXCEPT !.ping = "exec"]
             e == Some(d, Ping)
             n == start_exec(k, e)
  <2>1. SoundBut(k, X) /\ Same(d, k) /\ k.ping = "exec"
    BY <1>3, <1>4, PingPcStep
  <2>2. e \in Ping /\ e \in Elem /\ e \notin Hello /\ d.exec[e] = "idle"
    <3>1. Fresh(d, Ping) # {}
      BY <1>7 DEF Fresh, PingLeft
    <3>2. e \in Fresh(d, Ping)
      BY <3>1 DEF Some
    <3>3. QED
      BY <1>2, <3>2 DEF Fresh
  <2>3. n = ping_loop(d)
    BY <1>7 DEF ping_loop
  <2> HIDE DEF k, e
  <2>4. MayStart(k, X, e)
    BY <1>1, <2>1, <2>2, Zenon DEF Same, SameBooks, MayStart
  <2>5. SoundBut(n, X) /\ Softer(k, n) /\ OneExec(k, n, e)
    BY <2>1, <2>4, StartExecSound, Zenon
  <2> HIDE DEF n
  <2>6. /\ n.ping = "exec" /\ n.run = d.run /\ n.group = d.group /\ n.mpx = add(d.mpx, e)
        /\ n.open = d.open /\ n.sent = d.sent
    BY <2>1, <2>5, Zenon DEF Softer, Same, SameBooks, OneExec
  <2>7. /\ HelloBook(Y, n.run, n.group["hello"], n.exec)
        /\ Book(Y, "ping", n.run, n.group["ping"], n.ping)
        /\ Book(Y, "check", n.run, n.group["check"], n.check)
        /\ Book(Y, "reader", n.run, n.group["reader"], n.reader)
        /\ Book(Y, "writer", n.run, n.group["writer"], n.writer)
    BY <2>5, <2>6, Zenon DEF SoundBut, HelloBook, Book, Settled
  <2>8. /\ ReadSide(Y, n.mpx, n.reader) /\ Sending(Y, n.run, n.sent)
        /\ ReaderCancels(Y, n.mpx, n.run, n.open, n.reader)
    BY <2>5, Zenon DEF SoundBut, ReadSide, Sending, ReaderCancels, Settled
  <2>9. SoundBut(n, Y)
    BY <2>5, <2>7, <2>8, Zenon DEF SoundBut
  <2>10. QED
    BY <2>2, <2>3, <2>6, <2>9, Zenon
<1>8. QED
  BY <1>2, <1>5, <1>6, <1>7, Zenon
==============================================================================
