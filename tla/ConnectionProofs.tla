-------------------------- MODULE ConnectionProofs ---------------------------
(***************************************************************************)
(* The concurrent operations of a connection keep the queue sound, wake    *)
(* the writer, write HELLO first and leave nothing behind when they end,   *)
(* for any number of requests, connections, pushes, failures and calls of  *)
(* cancel(), in any order.                                                 *)
(***************************************************************************)
EXTENDS ConnectionSound, TLAPS

\* A queue in which HELLO is first, and nothing has been sent.
HelloHead(m) ==
  /\ WellFormed(m) /\ AllWaiting(m) /\ ~is_writing(m) /\ ~m.cancel_run_called
  /\ m.reqs # << >> /\ Head(m.reqs) \in Hello

(***************************************************************************)
(* A request added to a queue in which all wait.                           *)
(***************************************************************************)
LEMMA AddToWaiting ==
  ASSUME NEW m, WellFormed(m), AllWaiting(m), ~is_writing(m), ~m.cancel_run_called,
         NEW e \in Elem, is_waiting(m, e), e \notin Queued(m),
         e \in Hello \/ (e \in Ping /\ HelloHead(m))
  PROVE  HelloHead(add(m, e))
<1> DEFINE k == add(m, e)
<1>1. WellFormed(k) /\ Queued(k) = Queued(m) \cup {e} /\ k = [m EXCEPT !.reqs = k.reqs]
  BY Add
<1>2. m \in MultiplexerType
  BY DEF WellFormed
<1>3. SameBuffers(m, k)
  BY <1>2, QueueBuffers
<1>4. /\ k.reqs # << >>
      /\ e \in HelloPriority => Head(k.reqs) = e
      /\ e \notin HelloPriority /\ m.reqs # << >> => Head(k.reqs) = Head(m.reqs)
  BY AddFirst
<1>5. Hello \subseteq HelloPriority /\ Ping \cap HelloPriority = {}
  BY ElemAssumption
<1> HIDE DEF k
<1>6. k.status = m.status /\ k.cancel_run_called = m.cancel_run_called
  BY <1>1, <1>2 DEF MultiplexerType
<1>7. AllWaiting(k) /\ ~is_writing(k)
  BY <1>1, <1>3, <1>6 DEF AllWaiting, is_waiting, SameBuffers, is_writing
<1>8. QED
  BY <1>1, <1>4, <1>5, <1>6, <1>7 DEF HelloHead, k

(***************************************************************************)
(* run_op starts the parallel group: the operations start in the order of  *)
(* its arguments, and the writer finds HELLO in front.                     *)
(***************************************************************************)
WriterLeft == {"writer", "sent"}
ReaderLeft == WriterLeft \cup {"reader"}
CheckLeft == ReaderLeft \cup {"check"}
AllButHello == CheckLeft \cup {"ping"}
AllLeft == AllButHello \cup {"hello"}

\* The operations are started, and their books opened, one after the other.
LEMMA Lefts ==
  /\ SettledWriter(WriterLeft, None) /\ Settled(ReaderLeft, "reader", WriterLeft)
  /\ Settled(CheckLeft, "check", ReaderLeft)
  /\ Settled(AllButHello, "ping", CheckLeft) /\ "ping" \in AllButHello
  /\ "hello" \in AllLeft
BY DEF WriterLeft, ReaderLeft, CheckLeft, AllButHello, AllLeft, SettledWriter, Settled

\* What run_op does before it starts the operations.
LEMMA GroupReset ==
  ASSUME NEW d, Sound(d), d.run = "connect_ok"
  PROVE  LET g == [d EXCEPT !.mpx = reset(@), !.run = "group", !.first = "none",
                            !.group = [o \in Op |-> "on"], !.sent = << >>]
         IN  /\ SoundBut(g, AllLeft) /\ g.run = "group" /\ g.sent = << >>
             /\ g.ping = "off" /\ g.exec = d.exec /\ \A o \in Op : g.group[o] = "on"
             /\ AllWaiting(g.mpx) /\ ~is_writing(g.mpx) /\ ~g.mpx.cancel_run_called
             /\ ~HelloWaits(g.exec) /\ HelloLeft(g.exec) /\ (HealthCheck => PingLeft(g.exec))
<1> DEFINE m == reset(d.mpx)
           o == [x \in Op |-> "on"]
           g == [d EXCEPT !.mpx = m, !.run = "group", !.first = "none",
                          !.group = o, !.sent = << >>]
<1>1. d \in ConnectionType /\ WellFormed(d.mpx) /\ d.mpx \in MultiplexerType
  BY DEF Sound, SoundBut, WellFormed
<1>2. /\ WellFormed(m) /\ Queued(m) = Queued(d.mpx) /\ m.done = d.mpx.done
      /\ m.status = d.mpx.status /\ ~m.cancel_run_called
  BY <1>1, ResetLemma
<1>3. m.write_buffer = << >> /\ m.read_buffer = << >> /\ m.parsed = 0
  BY <1>1, WriteBuffers
<1>4. AllWaiting(m) /\ ~is_writing(m)
  <2>1. AllWaiting(d.mpx)
    BY DEF Sound, SoundBut, Down
  <2>2. QED
    BY <1>2, <1>3, <2>1 DEF AllWaiting, is_waiting, is_writing
<1>5. o \in [Op -> OpResult] /\ \A x \in Op : o[x] = "on"
  BY DEF OpResult
<1> HIDE DEF m, o
<1>6. "group" \in RunPc /\ m \in MultiplexerType
  BY <1>2 DEF RunPc, WellFormed
<1>7. /\ g \in ConnectionType /\ g.mpx = m /\ g.run = "group" /\ g.group = o
      /\ g.sent = << >> /\ g.exec = d.exec /\ g.reader = d.reader /\ g.open = d.open
      /\ g.writer = d.writer /\ g.ping = d.ping /\ g.check = d.check
  <2> DEFINE a == [d EXCEPT !.mpx = m, !.run = "group"]
             b == [a EXCEPT !.first = "none", !.group = o, !.sent = << >>]
  <2>1. g = b
    BY <1>1 DEF ConnectionType
  <2>2. /\ a \in ConnectionType /\ a.mpx = m /\ a.run = "group" /\ a.exec = d.exec
        /\ a.reader = d.reader /\ a.open = d.open
        /\ a.writer = d.writer /\ a.ping = d.ping /\ a.check = d.check
    BY <1>1, <1>6, Zenon DEF ConnectionType
  <2> HIDE DEF a, g
  <2>3. /\ b \in ConnectionType /\ b.mpx = a.mpx /\ b.run = a.run /\ b.exec = a.exec
        /\ b.reader = a.reader /\ b.open = a.open
        /\ b.writer = a.writer /\ b.ping = a.ping /\ b.check = a.check
        /\ b.group = o /\ b.sent = << >>
    <3> DEFINE f == "none"
               s == << >>
    <3>1. f \in Op \cup {"none"} /\ s \in Seq(Elem)
      OBVIOUS
    <3> HIDE DEF f, s
    <3>2. [a EXCEPT !.first = f, !.group = o, !.sent = s] \in ConnectionType
      BY <1>5, <2>2, <3>1, Zenon DEF ConnectionType
    <3>3. b \in ConnectionType
      BY <3>2 DEF f, s
    <3>4. QED
      BY <2>2, <3>3 DEF ConnectionType
  <2> HIDE DEF b
  <2>4. QED
    BY <2>1, <2>2, <2>3
<1>8. /\ d.ping = "off" /\ d.writer = "off" /\ ~HelloWaits(d.exec)
      /\ HelloLeft(d.exec) /\ (HealthCheck => PingLeft(d.exec))
  BY DEF Sound, None, SoundBut, Book, HelloBook, FreshHello
<1> HIDE DEF g
<1>9. Requests(d.exec, m)
  <2>1. Requests(d.exec, d.mpx)
    BY DEF Sound, SoundBut
  <2>2. QED
    BY <1>2, <2>1 DEF Requests, is_waiting
<1>10. /\ FreshHello(d.exec, "group") /\ ReadSide(AllLeft, m, d.reader)
       /\ WriteSide(m, d.writer) /\ Awake(m, "group", d.open, d.writer)
       /\ Down(m, "group", d.open) /\ Sending(AllLeft, "group", << >>)
  BY <1>2, <1>3, <1>4, <1>8
  DEF FreshHello, ReadSide, WriteSide, Awake, Down, Sending, AllLeft, AllButHello, CheckLeft,
      ReaderLeft, WriterLeft
<1>11. /\ HelloBook(AllLeft, "group", o["hello"], d.exec)
       /\ Book(AllLeft, "ping", "group", o["ping"], d.ping)
       /\ Book(AllLeft, "check", "group", o["check"], d.check)
       /\ Book(AllLeft, "reader", "group", o["reader"], d.reader)
       /\ Book(AllLeft, "writer", "group", o["writer"], d.writer)
       /\ ReaderCancels(AllLeft, m, "group", d.open, d.reader)
  BY DEF HelloBook, Book, ReaderCancels, AllLeft, AllButHello, CheckLeft, ReaderLeft, WriterLeft
<1>12. SoundBut(g, AllLeft)
  BY <1>2, <1>7, <1>9, <1>10, <1>11, Zenon DEF Sound, SoundBut
<1>13. QED
  BY <1>2, <1>4, <1>5, <1>7, <1>8, <1>12 DEF g, m, o

\* run_op prepares the multiplexer and starts the five operations.
LEMMA StartGroupSound ==
  ASSUME NEW d, Sound(d), d.run = "connect_ok"
  PROVE  Sound(start_group(d))
<1> DEFINE g == [d EXCEPT !.mpx = reset(@), !.run = "group", !.first = "none",
                          !.group = [o \in Op |-> "on"], !.sent = << >>]
           e == Some(g, Hello)
           h == start_exec(g, e)
           p == ping_loop(h)
           k == start_check(p)
           r == start_read(k)
<1>1. start_group(d) = write_loop(r)
  BY DEF start_group
<1>2. /\ SoundBut(g, AllLeft) /\ g.run = "group" /\ g.sent = << >>
      /\ g.ping = "off" /\ \A o \in Op : g.group[o] = "on"
      /\ AllWaiting(g.mpx) /\ ~is_writing(g.mpx) /\ ~g.mpx.cancel_run_called
      /\ ~HelloWaits(g.exec) /\ HelloLeft(g.exec) /\ (HealthCheck => PingLeft(g.exec))
  BY GroupReset, Zenon
<1> HIDE DEF g
<1>3. /\ e \in Hello /\ e \in Elem /\ e \notin Ping /\ g.exec[e] = "idle"
      /\ is_waiting(g.mpx, e) /\ e \notin Queued(g.mpx)
  <2>1. Fresh(g, Hello) # {}
    BY <1>2 DEF Fresh, HelloLeft
  <2>2. e \in Fresh(g, Hello)
    BY <2>1 DEF Some
  <2> HIDE DEF e
  <2>3. e \in Hello /\ g.exec[e] = "idle" /\ e \in Elem /\ e \notin Ping
    BY <2>2, ElemAssumption DEF Fresh
  <2>4. QED
    BY <1>2, <2>3, Zenon DEF SoundBut, Requests
<1> HIDE DEF e
<1>4. MayStart(g, AllLeft, e)
  BY <1>2, <1>3, Lefts DEF MayStart
<1>5. SoundBut(h, AllLeft) /\ Softer(g, h) /\ OneExec(g, h, e)
  BY <1>2, <1>4, StartExecSound
<1> HIDE DEF h
<1>6. /\ h.run = "group" /\ h.ping = "off" /\ h.sent = << >>
      /\ \A o \in Op : h.group[o] = "on"
  BY <1>2, <1>5 DEF Softer, OneExec
<1>7. HelloWaits(h.exec) /\ (HealthCheck => PingLeft(h.exec))
  <2>1. Ping \subseteq Elem
    BY ElemAssumption
  <2>2. QED
    BY <1>2, <1>3, <1>5, <2>1 DEF OneExec, HelloWaits, PingLeft
<1>8. HelloHead(h.mpx)
  <2>1. WellFormed(g.mpx) /\ h.mpx = add(g.mpx, e)
    BY <1>2, <1>5, Zenon DEF SoundBut, OneExec
  <2>2. QED
    BY <1>2, <1>3, <2>1, AddToWaiting
<1>9. SoundBut(h, AllButHello)
  <2>1. h.group["hello"] = "on"
    BY <1>6 DEF Op
  <2>2. HelloBook(AllButHello, h.run, h.group["hello"], h.exec)
    BY <1>6, <1>7, <2>1 DEF HelloBook
  <2>3. /\ Book(AllButHello, "ping", h.run, h.group["ping"], h.ping)
        /\ Book(AllButHello, "check", h.run, h.group["check"], h.check)
        /\ Book(AllButHello, "reader", h.run, h.group["reader"], h.reader)
        /\ Book(AllButHello, "writer", h.run, h.group["writer"], h.writer)
        /\ Sending(AllButHello, h.run, h.sent)
        /\ ReadSide(AllButHello, h.mpx, h.reader)
        /\ ReaderCancels(AllButHello, h.mpx, h.run, h.open, h.reader)
    BY <1>5, Zenon DEF SoundBut, Book, Sending, ReadSide, ReaderCancels, AllLeft
  <2>4. QED
    BY <1>5, <2>2, <2>3, Zenon DEF SoundBut
<1>10. /\ SoundBut(p, CheckLeft) /\ p.run = "group" /\ p.sent = << >>
       /\ \A o \in Op \ {"ping"} : p.group[o] = "on"
       /\ \/ p.mpx = h.mpx
          \/ \E f \in Ping : h.exec[f] = "idle" /\ p.mpx = add(h.mpx, f)
  <2>1. h.group["ping"] = "on" /\ h.ping # "exec"
    BY <1>6 DEF Op
  <2>2. /\ SoundBut(p, CheckLeft) /\ p.run = h.run /\ p.sent = h.sent
        /\ \A o \in Op \ {"ping"} : p.group[o] = h.group[o]
        /\ \/ p.mpx = h.mpx
           \/ \E f \in Ping : h.exec[f] = "idle" /\ p.mpx = add(h.mpx, f)
    BY <1>6, <1>7, <1>9, <2>1, Lefts, PingLoopSound, Zenon
  <2> HIDE DEF p
  <2>3. QED
    BY <1>6, <2>2
<1> HIDE DEF p
<1>11. HelloHead(p.mpx)
  <2>1. ASSUME NEW f \in Ping, h.exec[f] = "idle"
        PROVE  HelloHead(add(h.mpx, f))
    <3>1. f \in Elem
      BY ElemAssumption
    <3>2. is_waiting(h.mpx, f) /\ f \notin Queued(h.mpx)
      BY <1>5, <2>1, <3>1, Zenon DEF SoundBut, Requests
    <3>3. QED
      BY <1>8, <3>1, <3>2, AddToWaiting, Zenon DEF HelloHead
  <2>2. QED
    BY <1>8, <1>10, <2>1
<1>12. SoundBut(k, ReaderLeft) /\ Same(p, k)
  <2>1. p.group["check"] = "on"
    BY <1>10 DEF Op
  <2>2. QED
    BY <1>10, <2>1, Lefts, StartCheckSound
<1> HIDE DEF k
<1>13. SoundBut(r, WriterLeft) /\ Same(k, r)
  <2>1. k.run = "group" /\ k.group["reader"] = "on"
    BY <1>10, <1>12 DEF Same, SameBooks, Op
  <2>2. QED
    BY <1>12, <2>1, Lefts, StartReadSound, Zenon
<1> HIDE DEF r
<1>14. r.run = "group" /\ r.group["writer"] = "on" /\ HelloHead(r.mpx)
  BY <1>10, <1>11, <1>12, <1>13 DEF Same, SameBooks, Op
<1>15. to_stage(r.mpx) # << >> /\ Head(to_stage(r.mpx)) \in Hello
  BY <1>14, StageAll DEF HelloHead
<1>16. SoundBut(write_loop(r), None)
  BY <1>13, <1>14, <1>15, Lefts, WriteLoopSound DEF HelloHead
<1>17. QED
  BY <1>1, <1>16 DEF Sound

------------------------------------------------------------------------------
(* run_op.                                                                 *)

\* The operations of the group are where they were.
SamePcs(d, n) ==
  n.reader = d.reader /\ n.writer = d.writer /\ n.ping = d.ping /\ n.check = d.check

\* Unless a group runs, only a fresh HELLO depends on where run_op is.
LEMMA RunStep ==
  ASSUME NEW d, Sound(d), NEW n \in ConnectionType, SameBooks(d, n), SamePcs(d, n),
         n.mpx = d.mpx, d.run # "group", n.run # "group", FreshHello(d.exec, n.run)
  PROVE  Sound(n)
<1>1. /\ HelloBook(None, n.run, d.group["hello"], d.exec)
      /\ Book(None, "ping", n.run, d.group["ping"], d.ping)
      /\ Book(None, "check", n.run, d.group["check"], d.check)
      /\ Book(None, "reader", n.run, d.group["reader"], d.reader)
      /\ Book(None, "writer", n.run, d.group["writer"], d.writer)
  BY Zenon DEF Sound, SoundBut, HelloBook, Book
<1>2. Awake(d.mpx, n.run, n.open, d.writer) /\ Sending(None, n.run, d.sent)
  BY Zenon DEF Sound, SoundBut, Awake, Sending
<1>3. Down(d.mpx, n.run, n.open) /\ ReaderCancels(None, d.mpx, n.run, n.open, d.reader)
  BY Zenon DEF Sound, SoundBut, Down, ReaderCancels
<1>4. QED
  BY <1>1, <1>2, <1>3, Zenon DEF Sound, SoundBut, SameBooks, SamePcs

(***************************************************************************)
(* run_op goes on when all operations have completed.  The reader cancelled*)
(* the requests of the connection before it ended.                         *)
(***************************************************************************)
LEMMA LeaveGroup ==
  ASSUME NEW d, Sound(d), d.run = "group", \A o \in Op : d.group[o] # "on",
         NEW n \in ConnectionType, SameBooks(d, n), SamePcs(d, n),
         n.mpx = d.mpx, n.open = d.open, n.run \in {"backoff", "done"}
  PROVE  Sound(n)
<1>1. /\ ~HelloWaits(d.exec) /\ d.ping = "off" /\ d.check = "off"
      /\ d.reader = "off" /\ d.writer = "off"
  BY Zenon DEF Sound, SoundBut, HelloBook, Book, None, Op
<1>2. AllWaiting(d.mpx)
  BY <1>1, Zenon DEF Sound, SoundBut, Down, ReaderCancels, None
<1>3. /\ HelloBook(None, n.run, d.group["hello"], d.exec)
      /\ Book(None, "ping", n.run, d.group["ping"], d.ping)
      /\ Book(None, "check", n.run, d.group["check"], d.check)
      /\ Book(None, "reader", n.run, d.group["reader"], d.reader)
      /\ Book(None, "writer", n.run, d.group["writer"], d.writer)
  BY <1>1, Zenon DEF HelloBook, Book
<1>4. Awake(d.mpx, n.run, n.open, d.writer) /\ FreshHello(d.exec, n.run)
  BY Zenon DEF Awake, FreshHello
<1>5. Sending(None, n.run, d.sent)
  BY Zenon DEF Sound, SoundBut, Sending
<1>6. Down(d.mpx, n.run, n.open) /\ ReaderCancels(None, d.mpx, n.run, n.open, d.reader)
  BY <1>2 DEF Down, ReaderCancels
<1>7. QED
  BY <1>3, <1>4, <1>5, <1>6, Zenon DEF Sound, SoundBut, SameBooks, SamePcs

\* async_run is called.
LEMMA RunKeeps ==
  ASSUME Sound(c), Run
  PROVE  Sound(c')
<1>1. c \in ConnectionType /\ "resolve" \in RunPc
  BY Zenon DEF Sound, SoundBut, RunPc
<1>2. /\ c' \in ConnectionType /\ SameBooks(c, c') /\ SamePcs(c, c') /\ c'.mpx = c.mpx
      /\ c'.run = "resolve" /\ c.run # "group"
  BY <1>1, Zenon DEF Run, ConnectionType, SameBooks, SamePcs
<1>3. FreshHello(c.exec, c'.run)
  BY <1>2 DEF FreshHello
<1>4. QED
  BY <1>2, <1>3, RunStep

\* run_op goes on when the addresses are known or resolving has failed.
LEMMA OnResolveKeeps ==
  ASSUME Sound(c), OnResolve
  PROVE  Sound(c')
<1>1. c \in ConnectionType /\ "done" \in RunPc /\ "connect" \in RunPc
  BY Zenon DEF Sound, SoundBut, RunPc
<1>2. /\ c' \in ConnectionType /\ SameBooks(c, c') /\ SamePcs(c, c') /\ c'.mpx = c.mpx
      /\ c'.run \in {"done", "connect"} /\ c.run # "group"
  <2>1. CASE c.run = "resolve_err" /\ c' = [c EXCEPT !.run = "done"]
    BY <1>1, <2>1 DEF ConnectionType, SameBooks, SamePcs
  <2>2. CASE c.run = "resolve_ok" /\ c' = [c EXCEPT !.run = "connect", !.open = TRUE]
    BY <1>1, <2>2, Zenon DEF ConnectionType, SameBooks, SamePcs
  <2>3. QED
    BY <2>1, <2>2 DEF OnResolve
<1>3. FreshHello(c.exec, c'.run)
  BY <1>2 DEF FreshHello
<1>4. QED
  BY <1>2, <1>3, RunStep

\* run_op goes on when the connection is established or has failed.
LEMMA OnConnectKeeps ==
  ASSUME Sound(c), OnConnect
  PROVE  Sound(c')
<1>1. c \in ConnectionType /\ "done" \in RunPc
  BY Zenon DEF Sound, SoundBut, RunPc
<1>2. CASE c.run = "connect_err" /\ c' = [c EXCEPT !.run = "done"]
  <2>1. /\ c' \in ConnectionType /\ SameBooks(c, c') /\ SamePcs(c, c') /\ c'.mpx = c.mpx
        /\ c'.run = "done" /\ c.run # "group"
    BY <1>1, <1>2 DEF ConnectionType, SameBooks, SamePcs
  <2>2. FreshHello(c.exec, c'.run)
    BY <2>1 DEF FreshHello
  <2>3. QED
    BY <2>1, <2>2, RunStep
<1>3. CASE c.run = "connect_ok" /\ c' = start_group(c)
  BY <1>3, StartGroupSound
<1>4. QED
  BY <1>2, <1>3 DEF OnConnect

\* run_op goes on when all five operations have completed.
LEMMA OnGroupKeeps ==
  ASSUME Sound(c), OnGroup
  PROVE  Sound(c')
<1> DEFINE d == cancel_receive_channel(c)
<1>1. c \in ConnectionType /\ "done" \in RunPc /\ "backoff" \in RunPc /\ c.reader = "off"
  BY DEF Sound, SoundBut, RunPc, OnGroup, Op, Book, None
<1>2. d \in ConnectionType /\ Same(c, d) /\ SamePcs(c, d)
  <2>1. d \in ConnectionType /\ Same(c, d) /\ Softer(c, d)
    BY <1>1, ReceiveChannelEffect
  <2>2. SamePcs(c, d)
    BY <1>1 DEF cancel_receive_channel, Abort, ConnectionType, SamePcs
  <2>3. QED
    BY <2>1, <2>2
<1>3. /\ c.run = "group" /\ \A o \in Op : c.group[o] # "on"
      /\ \/ c' = [c EXCEPT !.run = "done"]
         \/ c' = [d EXCEPT !.run = "backoff"]
         \/ c' = [d EXCEPT !.run = "done"]
  BY DEF OnGroup
<1> HIDE DEF d
<1>4. ASSUME NEW k \in ConnectionType, Same(c, k), SamePcs(c, k), NEW p \in {"backoff", "done"}
      PROVE  Sound([k EXCEPT !.run = p])
  <2> DEFINE n == [k EXCEPT !.run = p]
  <2>1. /\ n \in ConnectionType /\ SameBooks(c, n) /\ SamePcs(c, n)
        /\ n.mpx = c.mpx /\ n.open = c.open /\ n.run \in {"backoff", "done"}
    BY <1>1, <1>4 DEF ConnectionType, Same, SameBooks, SamePcs
  <2> HIDE DEF n
  <2>2. Sound(n)
    BY <1>3, <2>1, LeaveGroup
  <2>3. QED
    BY <2>2 DEF n
<1>5. Same(c, c) /\ SamePcs(c, c)
  BY DEF Same, SameBooks, SamePcs
<1>6. Sound([c EXCEPT !.run = "done"])
  BY <1>1, <1>4, <1>5, Zenon
<1>7. Sound([d EXCEPT !.run = "backoff"]) /\ Sound([d EXCEPT !.run = "done"])
  BY <1>2, <1>4
<1>8. QED
  BY <1>3, <1>6, <1>7

\* run_op goes on after the wait between two connections.
LEMMA OnBackoffKeeps ==
  ASSUME Sound(c), OnBackoff
  PROVE  Sound(c')
<1>1. c \in ConnectionType /\ "done" \in RunPc /\ "resolve" \in RunPc
  BY Zenon DEF Sound, SoundBut, RunPc
<1>2. /\ c' \in ConnectionType /\ SameBooks(c, c') /\ SamePcs(c, c') /\ c'.mpx = c.mpx
      /\ c'.run \in {"done", "resolve"}
  <2>1. CASE c' = [c EXCEPT !.open = FALSE, !.run = "resolve"]
    <3>1. c' \in ConnectionType
      BY <1>1, <2>1, Zenon DEF ConnectionType
    <3>2. c'.run = "resolve" /\ c'.mpx = c.mpx
      BY <1>1, <2>1 DEF ConnectionType
    <3>3. SameBooks(c, c') /\ SamePcs(c, c')
      BY <1>1, <2>1 DEF ConnectionType, SameBooks, SamePcs
    <3>4. QED
      BY <3>1, <3>2, <3>3
  <2>2. CASE c' = [c EXCEPT !.run = "done"]
    BY <1>1, <2>2, Zenon DEF ConnectionType, SameBooks, SamePcs
  <2>3. QED
    BY <2>1, <2>2 DEF OnBackoff
<1>0. c.run # "group"
  BY DEF OnBackoff
<1>3. FreshHello(c.exec, c'.run)
  BY <1>2 DEF FreshHello
<1>4. QED
  BY <1>0, <1>2, <1>3, RunStep

------------------------------------------------------------------------------
(* exec_op, hello_op, ping_op and check_timeout_op.                        *)

\* The results with which operations and requests end.
LEMMA Outcomes ==
  /\ "ok" \in Outcome /\ "error" \in Outcome /\ "resp3_hello" \in Outcome
  /\ "pong_timeout" \in Outcome
  /\ "ok" \in ExecResult /\ "error" \in ExecResult /\ "aborted" \in ExecResult
BY DEF Outcome, OpResult, ExecResult

\* The books of a single operation are put aside and settled again.
LEMMA Alone ==
  ASSUME NEW o
  PROVE  /\ Settled(Only(o), o, None) /\ Settled(None, o, None)
         /\ Settled(Only(o), o, Only(o)) /\ Settled(None, o, Only(o))
         /\ o \in Only(o) /\ None \subseteq Only(o)
BY DEF Settled, Only, None

\* Which operation a request belongs to: HELLO's books are settled after it.
Owner(e) == IF e \in Hello THEN Only("hello") ELSE None

(***************************************************************************)
(* exec_op resumes: the request that it cancels is out of the queue, or    *)
(* the connection that still owes it a response is taken down.             *)
(***************************************************************************)
LEMMA ExecResultSound ==
  ASSUME NEW d, Sound(d), NEW e \in Elem, d.exec[e] = "wait"
  PROVE  LET n == exec_result(d, e)
         IN  /\ SoundBut(n, Owner(e)) /\ (n.run = "group" <=> d.run = "group")
             /\ n.group = d.group
             /\ e \in Hello => ~HelloWaits(n.exec)
             /\ e \in Ping => ~PingWaits(n.exec)
<1> DEFINE X == Owner(e)
           n == exec_result(d, e)
<1>1. SoundBut(d, X) /\ (e \in Hello => "hello" \in X) /\ d \in ConnectionType
  <2>1. None \subseteq X /\ (e \in Hello => "hello" \in X)
    BY DEF None, Only, Owner
  <2>2. QED
    BY <2>1, Weaken, Zenon DEF Sound, SoundBut
<1> HIDE DEF X
<1>2. ASSUME NEW v \in ExecResult, v \notin {"idle", "wait"}, n = [d EXCEPT !.exec[e] = v]
      PROVE  /\ SoundBut(n, X) /\ n.run = d.run /\ n.group = d.group
             /\ e \in Hello => ~HelloWaits(n.exec)
             /\ e \in Ping => ~PingWaits(n.exec)
  BY <1>1, <1>2, ExecEnd
<1>3. CASE d.mpx.ec[e] # "none"
  <2>1. n = [d EXCEPT !.exec[e] = "error"]
    BY <1>3 DEF exec_result
  <2> HIDE DEF n
  <2>2. QED
    BY <1>2, <2>1, Outcomes DEF n, X
<1>4. CASE d.mpx.ec[e] = "none" /\ e \notin d.signal
  <2>1. n = [d EXCEPT !.exec[e] = "ok"]
    BY <1>4 DEF exec_result
  <2> HIDE DEF n
  <2>2. QED
    BY <1>2, <2>1, Outcomes DEF n, X
<1>5. CASE d.mpx.ec[e] = "none" /\ e \in d.signal /\ is_waiting(d.mpx, e)
  <2> DEFINE a == [d EXCEPT !.exec[e] = "aborted"]
             k == remove(d.mpx, e)
             b == [a EXCEPT !.mpx = k]
  <2>1. /\ SoundBut(a, X) /\ a.exec[e] = "aborted"
        /\ a.mpx = d.mpx /\ a.run = d.run /\ a.group = d.group
        /\ a.reader = d.reader /\ a.writer = d.writer
        /\ e \in Hello => ~HelloWaits(a.exec)
        /\ e \in Ping => ~PingWaits(a.exec)
    BY <1>1, ExecEnd, Outcomes
  <2>2. b = n
    BY <1>1, <1>5 DEF exec_result, ConnectionType
  <2>3. /\ WellFormed(k) /\ Queued(k) = Queued(d.mpx) \ {e} /\ k.done = d.mpx.done
        /\ k.status = d.mpx.status /\ k.cancel_run_called = d.mpx.cancel_run_called
    BY <1>1, <1>5, RemoveLemma, Zenon DEF SoundBut
  <2>4. SameBuffers(d.mpx, k)
    BY <1>1, QueueBuffers, Zenon DEF SoundBut, WellFormed
  <2> HIDE DEF a, k, n
  <2>5. ReadSide(X, k, a.reader) /\ WriteSide(k, a.writer)
    BY <1>1, <2>1, <2>4, Zenon DEF SoundBut, ReadSide, WriteSide, SameBuffers, is_writing
  <2>6. /\ Queued(k) \subseteq Queued(a.mpx) /\ a.mpx.done \subseteq k.done
        /\ \A f \in Queued(a.mpx) \ Queued(k) : f \in k.done \/ a.exec[f] # "wait"
        /\ \A f \in Elem : is_waiting(a.mpx, f) => is_waiting(k, f)
        /\ \A f \in Elem : is_waiting(k, f) => is_waiting(a.mpx, f)
        /\ k.cancel_run_called = a.mpx.cancel_run_called
    BY <2>1, <2>3, Zenon DEF is_waiting
  <2>7. SoundBut(b, X)
    BY <2>1, <2>3, <2>5, <2>6, MpxStep
  <2>8. b.run = a.run /\ b.group = a.group /\ b.exec = a.exec
    BY <2>1 DEF SoundBut, ConnectionType
  <2> HIDE DEF b
  <2>9. QED
    BY <2>1, <2>2, <2>7, <2>8, Zenon DEF n, X
<1>6. CASE d.mpx.ec[e] = "none" /\ e \in d.signal /\ ~is_waiting(d.mpx, e)
  <2> DEFINE a == cancel_run(d)
             b == [a EXCEPT !.exec[e] = "aborted"]
  <2>1. SoundBut(a, X) /\ SameBooks(d, a) /\ (a.run = "group" <=> d.run = "group")
    BY <1>1, CancelRunSound, Zenon
  <2>2. b = n
    BY <1>6 DEF exec_result
  <2> HIDE DEF a, n
  <2>3. a.exec[e] = "wait"
    BY <2>1 DEF SameBooks
  <2>4. /\ SoundBut(b, X) /\ b.run = a.run /\ b.group = a.group
        /\ e \in Hello => ~HelloWaits(b.exec)
        /\ e \in Ping => ~PingWaits(b.exec)
    BY <1>1, <2>1, <2>3, ExecEnd, Outcomes
  <2> HIDE DEF b
  <2>5. QED
    BY <2>1, <2>2, <2>4 DEF n, X, SameBooks
<1>7. QED
  BY <1>3, <1>4, <1>5, <1>6, Zenon

\* hello_op after its async_exec.
LEMMA AfterHelloSound ==
  ASSUME NEW d, SoundBut(d, Only("hello")), d.run = "group", ~HelloWaits(d.exec), NEW ok
  PROVE  Sound(after_hello(d, ok))
<1> DEFINE k == cancel_run(d)
<1>1. ASSUME NEW n, SoundBut(n, Only("hello")), n.run = "group", ~HelloWaits(n.exec),
             NEW r \in Outcome
      PROVE  Sound(complete(n, "hello", r))
  <2>1. Ended(n, "hello")
    BY <1>1 DEF Ended, Op
  <2>2. QED
    BY <1>1, <2>1, Alone, CompleteSound DEF Sound
<1>2. /\ SoundBut(k, Only("hello")) /\ SameBooks(d, k)
      /\ k.run = "group" <=> d.run = "group"
  BY CancelRunSound
<1>3. \/ after_hello(d, ok) = complete(k, "hello", "error")
      \/ after_hello(d, ok) = complete(k, "hello", "resp3_hello")
      \/ after_hello(d, ok) = complete(d, "hello", "ok")
  BY DEF after_hello
<1> HIDE DEF k
<1>4. k.run = "group" /\ ~HelloWaits(k.exec)
  BY <1>2 DEF SameBooks
<1>5. QED
  BY <1>1, <1>2, <1>3, <1>4, Outcomes

\* ping_op after its async_exec.
LEMMA AfterPingSound ==
  ASSUME NEW d, Sound(d), d.run = "group", d.group["ping"] = "on", ~PingWaits(d.exec), NEW ok
  PROVE  Sound(after_ping(d, ok))
<1>1. d \in ConnectionType /\ "sleep" \in PingPc /\ "off" \in PingPc
  BY Zenon DEF Sound, SoundBut, PingPc
<1>2. CASE after_ping(d, ok) = [d EXCEPT !.ping = "sleep"]
  <2>1. /\ Book(None, "ping", d.run, d.group["ping"], "sleep")
        /\ PingExec(d.exec, "sleep") /\ FreshPing(d.exec, "sleep")
    BY DEF Book, PingExec, FreshPing
  <2>2. SoundBut(d, None) /\ Settled(None, "ping", None)
    BY Alone, Zenon DEF Sound
  <2>3. SoundBut([d EXCEPT !.ping = "sleep"], None)
    BY <1>1, <2>1, <2>2, PingPcStep
  <2>4. QED
    BY <1>2, <2>3 DEF Sound
<1>3. CASE after_ping(d, ok) =
             complete([d EXCEPT !.ping = "off", !.check = Abort(@, "timer", "timer_err")],
                      "ping", "error")
  <2> DEFINE a == [d EXCEPT !.ping = "off"]
             t == Abort(a.check, "timer", "timer_err")
             b == [a EXCEPT !.check = t]
  <2>1. /\ Book(Only("ping"), "ping", d.run, d.group["ping"], "off")
        /\ PingExec(d.exec, "off") /\ FreshPing(d.exec, "off")
    BY Alone DEF Book, PingExec, FreshPing
  <2>2. SoundBut(a, Only("ping")) /\ Same(d, a) /\ a.ping = "off"
    BY <1>1, <2>1, Alone, PingPcStep DEF Sound
  <2>3. b = [d EXCEPT !.ping = "off", !.check = Abort(@, "timer", "timer_err")]
    BY <1>1 DEF ConnectionType
  <2> HIDE DEF a
  <2>4. a \in ConnectionType
    BY <2>2, Zenon DEF SoundBut
  <2>5. t \in CheckPc /\ (t = "off" <=> a.check = "off")
    BY <2>4, Zenon DEF Abort, CheckPc, ConnectionType
  <2> HIDE DEF t
  <2>6. b \in ConnectionType /\ Same(a, b) /\ Softer(a, b)
    BY <2>4, <2>5, Zenon DEF ConnectionType, Same, SameBooks, Softer
  <2> HIDE DEF b
  <2>7. SoundBut(b, Only("ping"))
    BY <2>2, <2>6, SoftStep, Zenon
  <2>8. Ended(b, "ping")
    BY <2>2, <2>6, Zenon DEF Ended, Op, Same, Softer
  <2>9. QED
    BY <1>3, <2>3, <2>7, <2>8, Alone, Outcomes, CompleteSound DEF Sound
<1>4. QED
  BY <1>2, <1>3 DEF after_ping

\* exec_op goes on when it was notified or cancelled.
LEMMA OnExecKeeps ==
  ASSUME Sound(c), NEW e \in Elem, OnExec(e)
  PROVE  Sound(c')
<1> DEFINE x == exec_result(c, e)
           s == x.signal \ {e}
           n == [x EXCEPT !.signal = s]
           ok == n.exec[e] = "ok"
<1>1. c.exec[e] = "wait"
  BY DEF OnExec, ExecResumes
<1>2. /\ SoundBut(x, Owner(e)) /\ (x.run = "group" <=> c.run = "group") /\ x.group = c.group
      /\ e \in Hello => ~HelloWaits(x.exec)
      /\ e \in Ping => ~PingWaits(x.exec)
  BY <1>1, ExecResultSound, Zenon
<1>3. c' = IF e \in Hello THEN after_hello(n, ok)
           ELSE IF e \in Ping THEN after_ping(n, ok) ELSE n
  BY DEF OnExec, resume_exec
<1> HIDE DEF x, ok
<1>4. n \in ConnectionType /\ Same(x, n) /\ Softer(x, n)
  <2>1. x \in ConnectionType /\ s \in SUBSET Elem
    BY <1>2, Zenon DEF SoundBut, ConnectionType
  <2> HIDE DEF s
  <2>2. QED
    BY <2>1, Zenon DEF ConnectionType, Same, SameBooks, Softer
<1> HIDE DEF n
<1>5. SoundBut(n, Owner(e))
  BY <1>2, <1>4, SoftStep, Zenon
<1>6. n.exec = x.exec /\ n.group = c.group /\ (n.run = "group" <=> c.run = "group")
  BY <1>2, <1>4 DEF Same, SameBooks
<1>7. CASE e \in Hello
  <2>1. c.run = "group"
    BY <1>1, <1>7, Zenon DEF Sound, SoundBut, None, HelloBook, HelloWaits
  <2>2. SoundBut(n, Only("hello")) /\ n.run = "group" /\ ~HelloWaits(n.exec)
    BY <1>2, <1>5, <1>6, <1>7, <2>1 DEF Owner
  <2>3. QED
    BY <1>3, <1>7, <2>2, AfterHelloSound
<1>8. CASE e \in Ping
  <2>1. e \notin Hello
    BY <1>8, ElemAssumption
  <2>2. PingWaits(c.exec)
    BY <1>1, <1>8 DEF PingWaits
  <2>3. c.run = "group" /\ c.group["ping"] = "on"
    BY <2>2, Zenon DEF Sound, SoundBut, None, PingExec, Book
  <2>4. Sound(n) /\ n.run = "group" /\ n.group["ping"] = "on" /\ ~PingWaits(n.exec)
    BY <1>2, <1>5, <1>6, <1>8, <2>1, <2>3, Zenon DEF Owner, Sound
  <2>5. QED
    BY <1>3, <1>8, <2>1, <2>4, AfterPingSound
<1>9. CASE e \notin Hello /\ e \notin Ping
  BY <1>3, <1>5, <1>9 DEF Owner, Sound
<1>10. QED
  BY <1>7, <1>8, <1>9

\* The operations that end without a word to the others.
LEMMA PingEnds ==
  ASSUME NEW d, Sound(d), d.ping \notin {"off", "exec"}, NEW r \in Outcome
  PROVE  Sound(complete([d EXCEPT !.ping = "off"], "ping", r))
<1> DEFINE n == [d EXCEPT !.ping = "off"]
<1>1. SoundBut(d, None) /\ d.run = "group" /\ "off" \in PingPc /\ ~PingWaits(d.exec)
  BY Zenon DEF Sound, SoundBut, Book, None, PingPc, PingExec
<1>2. /\ Book(Only("ping"), "ping", d.run, d.group["ping"], "off")
      /\ PingExec(d.exec, "off") /\ FreshPing(d.exec, "off")
  BY <1>1, Alone DEF Book, PingExec, FreshPing
<1>3. SoundBut(n, Only("ping")) /\ Same(d, n) /\ n.ping = "off"
  BY <1>1, <1>2, Alone, PingPcStep
<1> HIDE DEF n
<1>4. Ended(n, "ping")
  BY <1>1, <1>3 DEF Ended, Op, Same
<1>5. SoundBut(complete(n, "ping", r), None)
  BY <1>3, <1>4, Alone, CompleteSound
<1>6. QED
  BY <1>5 DEF n, Sound

\* check_timeout_op ends.
LEMMA CheckEnds ==
  ASSUME NEW d, Sound(d), d.run = "group", NEW r \in Outcome
  PROVE  Sound(complete([d EXCEPT !.check = "off"], "check", r))
<1> DEFINE n == [d EXCEPT !.check = "off"]
<1>1. SoundBut(d, None) /\ "off" \in CheckPc
  BY DEF Sound, CheckPc
<1>2. Book(Only("check"), "check", d.run, d.group["check"], "off")
  BY Alone DEF Book
<1>3. SoundBut(n, Only("check")) /\ Same(d, n) /\ n.check = "off"
  BY <1>1, <1>2, Alone, CheckPcStep
<1> HIDE DEF n
<1>4. Ended(n, "check")
  BY <1>3 DEF Ended, Op, Same
<1>5. SoundBut(complete(n, "check", r), None)
  BY <1>3, <1>4, Alone, CompleteSound
<1>6. QED
  BY <1>5 DEF n, Sound

\* ping_op and check_timeout_op end at once when health checks are off.
LEMMA OnPostKeeps ==
  ASSUME Sound(c), OnPost
  PROVE  Sound(c')
<1>1. CASE c.ping = "post" /\ c' = complete([c EXCEPT !.ping = "off"], "ping", "ok")
  BY <1>1, PingEnds, Outcomes
<1>2. CASE c.check = "post" /\ c' = complete([c EXCEPT !.check = "off"], "check", "ok")
  <2>1. c.run = "group"
    BY <1>2 DEF Sound, SoundBut, Book, None
  <2>2. QED
    BY <1>2, <2>1, CheckEnds, Outcomes
<1>3. QED
  BY <1>1, <1>2 DEF OnPost

\* ping_op goes on when its timer has expired or was cancelled.
LEMMA OnPingKeeps ==
  ASSUME Sound(c), OnPing
  PROVE  Sound(c')
<1>1. CASE c.ping = "sleep_ok" /\ c' = ping_loop(c)
  <2>1. SoundBut(c, Only("ping"))
    BY Weaken, Alone DEF Sound
  <2>2. /\ c.run = "group" /\ c.group["ping"] = "on" /\ c.ping # "exec"
        /\ HealthCheck => PingLeft(c.exec)
    BY <1>1, Zenon DEF Sound, SoundBut, Book, None, FreshPing
  <2>3. SoundBut(ping_loop(c), None)
    BY <2>1, <2>2, Alone, PingLoopSound, Zenon
  <2>4. QED
    BY <1>1, <2>3 DEF Sound
<1>2. CASE c.ping = "sleep_err" /\ c' = complete([c EXCEPT !.ping = "off"], "ping", "error")
  BY <1>2, PingEnds, Outcomes
<1>3. QED
  BY <1>1, <1>2 DEF OnPing

\* check_timeout_op looks for the PONG of the last interval.
LEMMA CheckTimeoutSound ==
  ASSUME NEW d, Sound(d), d.check = "timer_ok"
  PROVE  Sound(check_timeout(d))
<1>1. d \in ConnectionType /\ d.run = "group" /\ d.group["check"] = "on"
  BY Zenon DEF Sound, SoundBut, Book, None
<1>2. CASE d.resp = "error"
  <2>1. check_timeout(d) = complete([d EXCEPT !.check = "off"], "check", "ok")
    BY <1>2 DEF check_timeout
  <2>2. QED
    BY <1>1, <2>1, CheckEnds, Outcomes
<1>3. CASE d.resp = "empty"
  <2> DEFINE a == [d EXCEPT !.check = "off"]
             t == Abort(a.ping, "sleep", "sleep_err")
             b == [a EXCEPT !.ping = t]
             p == cancel_run(b)
             n == [p EXCEPT !.exited = TRUE]
  <2>1. b = [d EXCEPT !.ping = Abort(@, "sleep", "sleep_err"), !.check = "off"]
    BY <1>1, Zenon DEF ConnectionType
  <2>2. check_timeout(d) = complete(n, "check", "pong_timeout")
    BY <1>3, <2>1, Zenon DEF check_timeout
  <2>3. "off" \in CheckPc /\ Book(Only("check"), "check", d.run, d.group["check"], "off")
    BY Alone DEF CheckPc, Book
  <2>4. SoundBut(a, Only("check")) /\ Same(d, a) /\ a.check = "off"
    BY <2>3, Alone, CheckPcStep DEF Sound
  <2> HIDE DEF a
  <2>5. a \in ConnectionType
    BY <2>4, Zenon DEF SoundBut
  <2>6. /\ t \in PingPc /\ t \notin {"sleep"} /\ (t = "off" <=> a.ping = "off")
        /\ t = "sleep_ok" => a.ping = "sleep_ok"
        /\ a.ping = "exec" => t = "exec"
    BY <2>5 DEF Abort, PingPc, ConnectionType
  <2> HIDE DEF t
  <2>7. b \in ConnectionType /\ Same(a, b) /\ Softer(a, b)
    BY <2>5, <2>6, Zenon DEF ConnectionType, Same, SameBooks, Softer
  <2> HIDE DEF b
  <2>8. SoundBut(b, Only("check"))
    BY <2>4, <2>7, SoftStep
  <2>9. SoundBut(p, Only("check")) /\ Softer(b, p) /\ (p.run = "group" <=> b.run = "group")
    BY <2>8, CancelRunSound
  <2> HIDE DEF p
  <2>10. n \in ConnectionType /\ Same(p, n) /\ Softer(p, n)
    <3>1. p \in ConnectionType
      BY <2>9, Zenon DEF SoundBut
    <3>2. QED
      BY <3>1, Zenon DEF ConnectionType, Same, SameBooks, Softer
  <2> HIDE DEF n
  <2>11. SoundBut(n, Only("check"))
    BY <2>9, <2>10, SoftStep
  <2>12. Ended(n, "check")
    BY <1>1, <2>4, <2>7, <2>9, <2>10, Zenon DEF Ended, Op, Same, Softer
  <2>13. SoundBut(complete(n, "check", "pong_timeout"), None)
    BY <2>11, <2>12, Alone, Outcomes, CompleteSound
  <2>14. QED
    BY <2>2, <2>13 DEF Sound
<1>4. CASE d.resp = "pong"
  <2> DEFINE a == [d EXCEPT !.check = "timer"]
             n == [a EXCEPT !.resp = "empty"]
  <2>1. n = check_timeout(d)
    BY <1>1, <1>4, Zenon DEF check_timeout, ConnectionType
  <2>2. "timer" \in CheckPc /\ Book(None, "check", d.run, d.group["check"], "timer")
    BY <1>1 DEF CheckPc, Book
  <2>3. SoundBut(d, None)
    BY DEF Sound
  <2>4. SoundBut(a, None)
    BY <2>2, <2>3, Alone, CheckPcStep
  <2> HIDE DEF a
  <2>5. n \in ConnectionType /\ Same(a, n) /\ Softer(a, n)
    BY <2>4, Zenon DEF SoundBut, ConnectionType, PongResponse, Same, SameBooks, Softer
  <2> HIDE DEF n
  <2>6. QED
    BY <2>1, <2>4, <2>5, SoftStep DEF Sound
<1>5. QED
  BY <1>1, <1>2, <1>3, <1>4 DEF ConnectionType, PongResponse

\* check_timeout_op goes on when its timer has expired or was cancelled.
LEMMA OnCheckKeeps ==
  ASSUME Sound(c), OnCheck
  PROVE  Sound(c')
<1>1. CASE c.check = "timer_ok" /\ c' = check_timeout(c)
  BY <1>1, CheckTimeoutSound
<1>2. CASE c.check = "timer_err" /\ c' = complete([c EXCEPT !.check = "off"], "check", "error")
  <2>1. c.run = "group"
    BY <1>2 DEF Sound, SoundBut, Book, None
  <2>2. QED
    BY <1>2, <2>1, CheckEnds, Outcomes
<1>3. QED
  BY <1>1, <1>2 DEF OnCheck

------------------------------------------------------------------------------
(* writer_op and reader_op.                                                *)

\* writer_op ends.
LEMMA WriterEnds ==
  ASSUME NEW d, Sound(d), d.run = "group", NEW r \in Outcome
  PROVE  Sound(stop_writer(d, r))
<1> DEFINE n == [d EXCEPT !.writer = "off"]
<1>1. SoundBut(d, None) /\ "off" \in WriterPc
  BY DEF Sound, WriterPc
<1>2. /\ Book(Only("writer"), "writer", d.run, d.group["writer"], "off")
      /\ WriteSide(d.mpx, "off") /\ Awake(d.mpx, d.run, d.open, "off")
  BY Alone DEF Book, WriteSide, Awake
<1>3. SoundBut(n, Only("writer")) /\ Same(d, n) /\ n.writer = "off"
  BY <1>1, <1>2, Alone, WriterPcStep
<1> HIDE DEF n
<1>4. Ended(n, "writer")
  BY <1>3 DEF Ended, Op, Same
<1>5. SoundBut(complete(n, "writer", r), None)
  BY <1>3, <1>4, Alone, CompleteSound
<1>6. QED
  BY <1>5 DEF n, Sound, stop_writer

\* The writer goes on, if the connection is open; it was not cancelled then.
LEMMA WriterGoesOn ==
  ASSUME NEW d, Sound(d), d.run = "group", d.group["writer"] = "on", d.open,
         ~is_writing(d.mpx)
  PROVE  Sound(write_loop(d))
<1>1. SoundBut(d, Only("writer")) /\ SettledWriter(Only("writer"), None)
  BY Weaken, Alone, Zenon DEF Sound, SettledWriter, Only
<1>2. ~d.mpx.cancel_run_called /\ d.sent # << >>
  BY Zenon DEF Sound, SoundBut, Down, Sending, None
<1>3. SoundBut(write_loop(d), None)
  BY <1>1, <1>2, WriteLoopSound, Zenon
<1>4. QED
  BY <1>3 DEF Sound

\* writer_op goes on when a write has ended or it was woken.
LEMMA OnWriteKeeps ==
  ASSUME Sound(c), OnWrite
  PROVE  Sound(c')
<1>1. SoundBut(c, None) /\ c \in ConnectionType /\ WellFormed(c.mpx)
  BY Zenon DEF Sound, SoundBut
<1>2. c.writer # "off" => c.run = "group" /\ c.group["writer"] = "on"
  BY <1>1, Zenon DEF SoundBut, Book, None
<1>3. CASE c.writer = "write_err" /\ c' = stop_writer(cancel_run(c), "error")
  <2>1. SoundBut(cancel_run(c), None) /\ (cancel_run(c).run = "group" <=> c.run = "group")
    BY <1>1, CancelRunSound
  <2>2. QED
    BY <1>2, <1>3, <2>1, WriterEnds, Outcomes DEF Sound
<1>4. ASSUME c.writer = "write_ok"
      PROVE  LET d == [c EXCEPT !.mpx = commit_write(@)]
             IN  Sound(d) /\ d.run = c.run /\ d.group = c.group /\ ~is_writing(d.mpx)
  <2> DEFINE k == commit_write(c.mpx)
             d == [c EXCEPT !.mpx = k]
  <2>1. /\ WellFormed(k) /\ Queued(k) \subseteq Queued(c.mpx)
        /\ k.done = c.mpx.done \cup (Queued(c.mpx) \ Queued(k))
        /\ \A e \in Elem : is_waiting(c.mpx, e) => is_waiting(k, e)
        /\ k.cancel_run_called = c.mpx.cancel_run_called
    BY <1>1, CommitWriteLemma, Zenon
  <2>2. /\ k.write_buffer = << >> /\ k.read_buffer = c.mpx.read_buffer
        /\ k.parsed = c.mpx.parsed
    BY <1>1, WriteBuffers, Zenon DEF WellFormed
  <2> HIDE DEF k
  <2>3. /\ c.mpx.done \subseteq k.done
        /\ \A e \in Queued(c.mpx) \ Queued(k) : e \in k.done \/ c.exec[e] # "wait"
    BY <2>1
  <2>4. ReadSide(None, k, c.reader) /\ WriteSide(k, c.writer) /\ c.writer # "timer"
    BY <1>1, <1>4, <2>2, Zenon DEF SoundBut, ReadSide, WriteSide
  <2>5. SoundBut(d, None)
    BY <1>1, <2>1, <2>3, <2>4, MpxStep
  <2>6. d.run = c.run /\ d.group = c.group /\ d.mpx = k
    BY <1>1 DEF ConnectionType
  <2> HIDE DEF d
  <2>7. QED
    BY <2>2, <2>5, <2>6 DEF Sound, is_writing, d, k
<1>5. CASE /\ c.writer = "write_ok"
           /\ LET d == [c EXCEPT !.mpx = commit_write(@)]
              IN  c' = IF d.open THEN write_loop(d) ELSE stop_writer(d, "ok")
  <2> DEFINE d == [c EXCEPT !.mpx = commit_write(@)]
  <2>1. Sound(d) /\ d.run = "group" /\ d.group["writer"] = "on" /\ ~is_writing(d.mpx)
    BY <1>2, <1>4, <1>5
  <2>2. c' = IF d.open THEN write_loop(d) ELSE stop_writer(d, "ok")
    BY <1>5
  <2> HIDE DEF d
  <2>3. CASE d.open
    BY <2>1, <2>2, <2>3, WriterGoesOn
  <2>4. CASE ~d.open
    BY <2>1, <2>2, <2>4, WriterEnds, Outcomes
  <2>5. QED
    BY <2>3, <2>4
<1>6. CASE /\ c.writer = "woken"
           /\ c' = IF c.open THEN write_loop(c) ELSE stop_writer(c, "ok")
  <2>1. ~is_writing(c.mpx)
    BY <1>1, <1>6, Zenon DEF SoundBut, WriteSide
  <2>2. CASE c.open
    BY <1>2, <1>6, <2>1, <2>2, WriterGoesOn
  <2>3. CASE ~c.open
    BY <1>2, <1>6, <2>3, WriterEnds, Outcomes
  <2>4. QED
    BY <2>2, <2>3
<1>7. QED
  BY <1>3, <1>5, <1>6 DEF OnWrite

\* The reader ends, after the requests of the connection were cancelled.
LEMMA ReaderEnds ==
  ASSUME NEW d, SoundBut(d, Only("reader")), d.run = "group", d.mpx.cancel_run_called,
         NEW r \in Outcome
  PROVE  Sound(stop_reader(d, r))
<1> DEFINE n == [d EXCEPT !.reader = "off"]
<1>1. "off" \in ReaderPc
  BY DEF ReaderPc
<1>2. /\ Book(Only("reader"), "reader", d.run, d.group["reader"], "off")
      /\ ReadSide(Only("reader"), d.mpx, "off")
      /\ ReaderCancels(Only("reader"), d.mpx, d.run, d.open, "off")
  BY Alone, Zenon DEF Book, SoundBut, ReadSide, ReaderCancels
<1>3. SoundBut(n, Only("reader")) /\ Same(d, n) /\ n.reader = "off"
  BY <1>1, <1>2, Alone, ReaderPcStep
<1> HIDE DEF n
<1>4. Ended(n, "reader")
  BY <1>3 DEF Ended, Op, Same
<1>5. SoundBut(complete(n, "reader", r), None)
  BY <1>3, <1>4, Alone, CompleteSound
<1>6. QED
  BY <1>5 DEF n, Sound, stop_reader

\* reader_op cancels the connection and ends.
LEMMA ReaderFails ==
  ASSUME NEW d, SoundBut(d, Only("reader")), d.run = "group"
  PROVE  Sound(stop_reader(cancel_run(d), "error"))
<1> DEFINE n == cancel_run(d)
<1>1. /\ SoundBut(n, Only("reader")) /\ n.mpx.cancel_run_called
      /\ n.run = "group" <=> d.run = "group"
  BY CancelRunSound
<1> HIDE DEF n
<1>2. Sound(stop_reader(n, "error"))
  BY <1>1, ReaderEnds, Outcomes
<1>3. QED
  BY <1>2 DEF n

\* The reader after a message: fields of no interest here may have changed.
LEMMA ReaderGoesOn ==
  ASSUME NEW d, SoundBut(d, Only("reader")), d.run = "group", d.group["reader"] = "on",
         NEW n \in ConnectionType, Same(d, n), SamePcs(d, n)
  PROVE  Sound(start_read(n))
<1>1. Softer(d, n)
  BY DEF SamePcs, Softer
<1>2. SoundBut(n, Only("reader")) /\ n.run = "group" /\ n.group["reader"] = "on"
  BY <1>1, SoftStep, Zenon DEF Same, SameBooks
<1>3. SoundBut(start_read(n), None)
  BY <1>2, Alone, StartReadSound, Zenon
<1>4. QED
  BY <1>3 DEF Sound

\* reader_op hands a push to the receive channel, or waits for room there.
LEMMA DeliverSound ==
  ASSUME NEW d, SoundBut(d, Only("reader")), d.run = "group", d.group["reader"] = "on", d.open
  PROVE  Sound(deliver(d))
<1>1. d \in ConnectionType
  BY Zenon DEF SoundBut
<1>2. CASE deliver(d) = start_read([d EXCEPT !.receiver = "got"])
  <2> DEFINE n == [d EXCEPT !.receiver = "got"]
  <2>1. n \in ConnectionType /\ Same(d, n) /\ SamePcs(d, n)
    BY <1>1, Zenon DEF ConnectionType, ReceiverPc, Same, SameBooks, SamePcs
  <2> HIDE DEF n
  <2>2. Sound(start_read(n))
    BY <2>1, ReaderGoesOn, Zenon
  <2>3. QED
    BY <1>2, <2>2 DEF n
<1>3. CASE d.channel < Capacity /\ deliver(d) = start_read([d EXCEPT !.channel = @ + 1])
  <2> DEFINE k == d.channel + 1
             n == [d EXCEPT !.channel = k]
  <2>1. k \in 0..Capacity
    BY <1>1, <1>3, ElemAssumption DEF ConnectionType
  <2> HIDE DEF k
  <2>2. n \in ConnectionType /\ Same(d, n) /\ SamePcs(d, n)
    BY <1>1, <2>1, Zenon DEF ConnectionType, Same, SameBooks, SamePcs
  <2> HIDE DEF n
  <2>3. Sound(start_read(n))
    BY <2>2, ReaderGoesOn, Zenon
  <2>4. QED
    BY <1>3, <2>3 DEF n, k
<1>4. CASE deliver(d) = [d EXCEPT !.reader = "send"]
  <2>1. "send" \in ReaderPc
    BY DEF ReaderPc
  <2>2. /\ Book(None, "reader", d.run, d.group["reader"], "send")
        /\ ReadSide(None, d.mpx, "send")
        /\ ReaderCancels(None, d.mpx, d.run, d.open, "send")
    BY Zenon DEF Book, SoundBut, ReadSide, ReaderCancels
  <2>3. SoundBut([d EXCEPT !.reader = "send"], None)
    BY <2>1, <2>2, Alone, ReaderPcStep, Zenon
  <2>4. QED
    BY <1>4, <2>3 DEF Sound
<1>5. QED
  BY <1>2, <1>3, <1>4 DEF deliver

\* The response objects of hello_op and ping_op.
LEMMA AdaptSound ==
  ASSUME NEW d, SoundBut(d, Only("reader")), d.run = "group", d.group["reader"] = "on",
         NEW f, NEW err
  PROVE  Sound(start_read(adapt(d, f, err)))
<1> DEFINE b == d.hello_resp = "error"
           p == d.resp = "error"
           v == IF p THEN d.resp ELSE "pong"
<1>1. /\ d \in ConnectionType /\ b \in BOOLEAN /\ p \in BOOLEAN /\ v \in PongResponse
      /\ "error" \in PongResponse /\ "error" \in HelloResponse
  BY Zenon DEF SoundBut, ConnectionType, PongResponse, HelloResponse
<1>2. \/ adapt(d, f, err) = [d EXCEPT !.hello_resp = "error"]
      \/ adapt(d, f, err) = [d EXCEPT !.thrown = b]
      \/ adapt(d, f, err) = [d EXCEPT !.resp = "error"]
      \/ adapt(d, f, err) = [d EXCEPT !.thrown = p, !.resp = v]
  BY DEF adapt
<1> HIDE DEF b, p, v
<1>3. ASSUME NEW n, n = [d EXCEPT !.hello_resp = "error"]
      PROVE  Sound(start_read(n))
  <2>1. n \in ConnectionType /\ Same(d, n) /\ SamePcs(d, n)
    BY <1>1, <1>3 DEF ConnectionType, Same, SameBooks, SamePcs
  <2>2. QED
    BY <2>1, ReaderGoesOn, Zenon
<1>4. ASSUME NEW n, n = [d EXCEPT !.thrown = b]
      PROVE  Sound(start_read(n))
  <2>1. n \in ConnectionType /\ Same(d, n) /\ SamePcs(d, n)
    BY <1>1, <1>4 DEF ConnectionType, Same, SameBooks, SamePcs
  <2>2. QED
    BY <2>1, ReaderGoesOn, Zenon
<1>5. ASSUME NEW n, n = [d EXCEPT !.resp = "error"]
      PROVE  Sound(start_read(n))
  <2>1. n \in ConnectionType /\ Same(d, n) /\ SamePcs(d, n)
    BY <1>1, <1>5 DEF ConnectionType, Same, SameBooks, SamePcs
  <2>2. QED
    BY <2>1, ReaderGoesOn, Zenon
<1>6. ASSUME NEW n, n = [d EXCEPT !.thrown = p, !.resp = v]
      PROVE  Sound(start_read(n))
  <2>1. n \in ConnectionType /\ Same(d, n) /\ SamePcs(d, n)
    BY <1>1, <1>6, Zenon DEF ConnectionType, Same, SameBooks, SamePcs
  <2>2. QED
    BY <2>1, ReaderGoesOn
<1>7. QED
  BY <1>2, <1>3, <1>4, <1>5, <1>6

(***************************************************************************)
(* The message that a read brought: an answered or failed request is       *)
(* notified before it leaves the queue.                                    *)
(***************************************************************************)
LEMMA ReadMessageSound ==
  ASSUME NEW d, Sound(d), d.reader = "read_ok", d.open, NEW err
  PROVE  Sound(read_message(d, err))
<1> DEFINE k == commit_read(d.mpx)
           n == [d EXCEPT !.mpx = k]
           X == Only("reader")
<1>1. /\ d \in ConnectionType /\ WellFormed(d.mpx) /\ d.mpx.parsed < Len(d.mpx.read_buffer)
      /\ d.run = "group" /\ d.group["reader"] = "on"
  BY Zenon DEF Sound, SoundBut, ReadSide, Book, None
<1>2. SoundBut(d, X)
  BY Weaken, Alone DEF Sound
<1>3. /\ WellFormed(k) /\ Queued(k) \subseteq Queued(d.mpx)
      /\ d.mpx.done \cup (Queued(d.mpx) \ Queued(k)) \subseteq k.done
      /\ k.status = d.mpx.status /\ k.cancel_run_called = d.mpx.cancel_run_called
  <2>1. d.mpx.parsed \in Nat /\ Len(d.mpx.read_buffer) \in Nat
    BY <1>1 DEF WellFormed, MultiplexerType
  <2>2. Len(d.mpx.read_buffer) > d.mpx.parsed
    BY <1>1, <2>1
  <2>3. QED
    BY <1>1, <2>2, CommitReadLemma, Zenon
<1>4. k.write_buffer = d.mpx.write_buffer /\ k.parsed <= Len(k.read_buffer)
  BY <1>1, ReadBuffers
<1> HIDE DEF k
<1>5. /\ d.mpx.done \subseteq k.done
      /\ \A e \in Queued(d.mpx) \ Queued(k) : e \in k.done \/ d.exec[e] # "wait"
      /\ \A e \in Elem : is_waiting(d.mpx, e) => is_waiting(k, e)
      /\ \A e \in Elem : is_waiting(k, e) => is_waiting(d.mpx, e)
  BY <1>3, Zenon DEF is_waiting
<1>6. ReadSide(X, k, d.reader) /\ WriteSide(k, d.writer)
  BY <1>2, <1>4, Alone, Zenon DEF SoundBut, ReadSide, WriteSide, is_writing
<1> HIDE DEF X
<1>7. SoundBut(n, X)
  BY <1>2, <1>3, <1>5, <1>6, MpxStep
<1>8. n.run = "group" /\ n.group["reader"] = "on" /\ n.open
  BY <1>1 DEF ConnectionType
<1>9. \/ read_message(d, err) = stop_reader(cancel_run(n), "error")
      \/ read_message(d, err) = deliver(n)
      \/ read_message(d, err) = start_read(n)
      \/ \E f : read_message(d, err) = start_read(adapt(n, f, err))
  BY DEF read_message, k
<1> HIDE DEF n
<1>10. n \in ConnectionType /\ Same(n, n) /\ SamePcs(n, n) /\ SoundBut(n, Only("reader"))
  BY <1>7, Zenon DEF SoundBut, Same, SameBooks, SamePcs, X
<1>11. /\ Sound(stop_reader(cancel_run(n), "error")) /\ Sound(deliver(n))
       /\ Sound(start_read(n))
  BY <1>8, <1>10, ReaderFails, DeliverSound, ReaderGoesOn, Zenon
<1>12. \A f : Sound(start_read(adapt(n, f, err)))
  BY <1>8, <1>10, AdaptSound, Zenon
<1>13. QED
  BY <1>9, <1>11, <1>12

\* reader_op goes on when a read has ended.
LEMMA OnReadKeeps ==
  ASSUME Sound(c), OnRead
  PROVE  Sound(c')
<1>1. SoundBut(c, Only("reader"))
  BY Weaken, Alone DEF Sound
<1>2. c.reader # "off" => c.run = "group"
  BY Zenon DEF Sound, SoundBut, Book, None
<1>3. CASE c.reader = "read_err" /\ c' = stop_reader(cancel_run(c), "error")
  BY <1>1, <1>2, <1>3, ReaderFails
<1>4. CASE c.reader = "read_ok" /\ ~c.open /\ c' = stop_reader(c, "ok")
  <2>1. c.mpx.cancel_run_called
    BY <1>2, <1>4, Zenon DEF Sound, SoundBut, ReaderCancels, None
  <2>2. QED
    BY <1>1, <1>2, <1>4, <2>1, ReaderEnds, Outcomes
<1>5. CASE c.reader = "read_ok" /\ c.open
           /\ (c' = read_message(c, FALSE) \/ c' = read_message(c, TRUE))
  BY <1>5, ReadMessageSound, Zenon
<1>6. QED
  BY <1>3, <1>4, <1>5, Zenon DEF OnRead

\* reader_op goes on when the channel has taken its push or was cancelled.
LEMMA OnSendKeeps ==
  ASSUME Sound(c), OnSend
  PROVE  Sound(c')
<1>1. SoundBut(c, Only("reader")) /\ c \in ConnectionType
  BY Weaken, Alone, Zenon DEF Sound, SoundBut
<1>2. c.run = "group" /\ c.group["reader"] = "on"
  BY Zenon DEF Sound, SoundBut, Book, None, OnSend
<1>3. CASE c.reader = "send_err" /\ c' = stop_reader(cancel_run(c), "error")
  BY <1>1, <1>2, <1>3, ReaderFails, Zenon
<1>4. CASE c.reader = "send_ok" /\ c.open /\ c' = start_read(c)
  BY <1>1, <1>2, <1>4, ReaderGoesOn, Zenon DEF Same, SameBooks, SamePcs
<1>5. CASE c.reader = "send_ok" /\ ~c.open /\ c' = stop_reader(c, "error")
  <2>1. c.mpx.cancel_run_called
    BY <1>2, <1>5, Zenon DEF Sound, SoundBut, ReaderCancels, None
  <2>2. QED
    BY <1>1, <1>2, <1>5, <2>1, ReaderEnds, Outcomes
<1>6. QED
  BY <1>3, <1>4, <1>5 DEF OnSend

------------------------------------------------------------------------------
(* The resolver, the network and the server.                               *)

\* The resolver answers, fails or times out.
LEMMA ResolveEndKeeps ==
  ASSUME Sound(c), NEW ok, ResolveEnd(ok)
  PROVE  Sound(c')
<1> DEFINE p == IF ok THEN "resolve_ok" ELSE "resolve_err"
<1>1. c \in ConnectionType /\ p \in RunPc /\ p \notin {"group", "connect_ok"}
  BY Zenon DEF Sound, SoundBut, RunPc
<1>2. c' = [c EXCEPT !.run = p] /\ c.run # "group"
  BY DEF ResolveEnd
<1> HIDE DEF p
<1>3. /\ c' \in ConnectionType /\ SameBooks(c, c') /\ SamePcs(c, c') /\ c'.mpx = c.mpx
      /\ c'.run = p
  BY <1>1, <1>2 DEF ConnectionType, SameBooks, SamePcs
<1>4. FreshHello(c.exec, c'.run)
  BY <1>1, <1>3 DEF FreshHello
<1>5. QED
  BY <1>1, <1>2, <1>3, <1>4, RunStep, Zenon

\* The connection is established, fails or times out.
LEMMA ConnectEndKeeps ==
  ASSUME Sound(c), NEW ok, ConnectEnd(ok)
  PROVE  Sound(c')
<1> DEFINE p == IF ok THEN "connect_ok" ELSE "connect_err"
<1>1. c \in ConnectionType /\ p \in RunPc /\ p # "group" /\ (p = "connect_ok" => MayConnect)
  BY DEF Sound, SoundBut, RunPc, ConnectEnd
<1>2. c' = [c EXCEPT !.run = p] /\ c.run # "group"
  BY DEF ConnectEnd
<1> HIDE DEF p
<1>3. /\ c' \in ConnectionType /\ SameBooks(c, c') /\ SamePcs(c, c') /\ c'.mpx = c.mpx
      /\ c'.run = p
  BY <1>1, <1>2, Zenon DEF ConnectionType, SameBooks, SamePcs
<1>4. MayConnect => HelloLeft(c.exec) /\ (HealthCheck => PingLeft(c.exec))
  BY DEF MayConnect, Fresh, HelloLeft, PingLeft
<1>5. FreshHello(c.exec, c'.run)
  BY <1>1, <1>3, <1>4 DEF FreshHello
<1>6. QED
  BY <1>1, <1>2, <1>3, <1>5, RunStep, Zenon

\* A write succeeds or fails.
LEMMA WriteEndKeeps ==
  ASSUME Sound(c), NEW ok, WriteEnd(ok)
  PROVE  Sound(c')
<1> DEFINE p == IF ok THEN "write_ok" ELSE "write_err"
<1>1. SoundBut(c, None) /\ p \in WriterPc /\ p \notin {"off", "timer", "woken"}
  BY DEF Sound, WriterPc
<1>2. c.writer = "write" /\ c' = [c EXCEPT !.writer = p]
  BY DEF WriteEnd
<1> HIDE DEF p
<1>3. /\ Book(None, "writer", c.run, c.group["writer"], p) /\ WriteSide(c.mpx, p)
      /\ Awake(c.mpx, c.run, c.open, p)
  BY <1>1, <1>2 DEF SoundBut, Book, WriteSide, Awake
<1>4. SoundBut([c EXCEPT !.writer = p], None)
  BY <1>1, <1>3, Alone, WriterPcStep
<1>5. QED
  BY <1>2, <1>4 DEF Sound

\* A read or a blocked send ends while the connection is not cancelled, or late.
LEMMA ReaderQueued ==
  ASSUME NEW d, Sound(d), d.reader \in {"read", "send"},
         NEW p \in {"read_ok", "read_err", "send_ok"},
         p = "read_ok" => d.mpx.parsed < Len(d.mpx.read_buffer)
  PROVE  Sound([d EXCEPT !.reader = p])
<1>1. SoundBut(d, None) /\ p \in ReaderPc
  BY DEF Sound, ReaderPc
<1>2. /\ Book(None, "reader", d.run, d.group["reader"], p)
      /\ ReadSide(None, d.mpx, p)
      /\ ReaderCancels(None, d.mpx, d.run, d.open, p)
  BY <1>1, Zenon DEF SoundBut, Book, ReadSide, ReaderCancels
<1>3. SoundBut([d EXCEPT !.reader = p], None)
  BY <1>1, <1>2, Alone, ReaderPcStep, Zenon
<1>4. QED
  BY <1>3 DEF Sound

\* The connection is lost.
LEMMA ReadEndKeeps ==
  ASSUME Sound(c), ReadEnd
  PROVE  Sound(c')
BY ReaderQueued, Zenon DEF ReadEnd

\* A part of a message arrives.
LEMMA ArrivesKeeps ==
  ASSUME Sound(c), NEW part \in Part, Arrives(part)
  PROVE  Sound(c')
<1> DEFINE b == Append(c.mpx.read_buffer, part)
           k == [c.mpx EXCEPT !.read_buffer = b]
           n == [c EXCEPT !.mpx = k]
<1>1. /\ SoundBut(c, None) /\ c \in ConnectionType /\ WellFormed(c.mpx)
      /\ c.mpx \in MultiplexerType /\ c.reader = "read"
  BY DEF Sound, SoundBut, WellFormed, Arrives
<1>2. /\ b \in Seq(Part) /\ Len(b) = Len(c.mpx.read_buffer) + 1
      /\ Len(c.mpx.read_buffer) \in Nat /\ c.mpx.parsed \in Nat
  BY <1>1 DEF MultiplexerType
<1>3. c.mpx.parsed <= Len(c.mpx.read_buffer)
  BY <1>1, Zenon DEF SoundBut, ReadSide
<1> HIDE DEF b
<1>4. /\ k \in MultiplexerType /\ k.reqs = c.mpx.reqs /\ k.status = c.mpx.status
      /\ k.done = c.mpx.done /\ k.write_buffer = c.mpx.write_buffer /\ k.read_buffer = b
      /\ k.parsed = c.mpx.parsed /\ k.cancel_run_called = c.mpx.cancel_run_called
  BY <1>1, <1>2, Zenon DEF MultiplexerType
<1>5. c' = [n EXCEPT !.reader = "read_ok"]
  BY <1>1, Zenon DEF Arrives, b, ConnectionType
<1> HIDE DEF k
<1>6. /\ WellFormed(k) /\ Queued(k) = Queued(c.mpx)
      /\ \A e \in Elem : is_waiting(k, e) <=> is_waiting(c.mpx, e)
  <2>1. Ordered(k) /\ Distinct(k)
    BY <1>1, <1>4, SameQueue DEF WellFormed
  <2>2. QED
    BY <1>4, <2>1, Zenon DEF WellFormed, Queued, is_waiting
<1>7. ReadSide(None, k, c.reader) /\ WriteSide(k, c.writer)
  <2>1. WriteSide(c.mpx, c.writer)
    BY <1>1, Zenon DEF SoundBut
  <2>2. WriteSide(k, c.writer)
    BY <1>4, <2>1 DEF WriteSide, is_writing
  <2>3. ReadSide(None, k, c.reader)
    BY <1>1, <1>2, <1>3, <1>4 DEF ReadSide
  <2>4. QED
    BY <2>2, <2>3
<1>8. SoundBut(n, None)
  BY <1>1, <1>4, <1>6, <1>7, MpxStep
<1>9. n.mpx = k /\ n.reader = "read"
  BY <1>1 DEF ConnectionType
<1>10. n.mpx.parsed < Len(n.mpx.read_buffer)
  BY <1>2, <1>3, <1>4, <1>9
<1> HIDE DEF n
<1>11. QED
  BY <1>5, <1>8, <1>9, <1>10, ReaderQueued, Zenon DEF Sound

\* The timer of ping_op expires.
LEMMA PingTimerKeeps ==
  ASSUME Sound(c), PingTimer
  PROVE  Sound(c')
<1>1. SoundBut(c, None) /\ "sleep_ok" \in PingPc /\ c.ping = "sleep"
  BY DEF Sound, PingPc, PingTimer
<1>2. PingLeft(c.exec)
  BY DEF PingTimer, Fresh, PingLeft
<1>3. /\ Book(None, "ping", c.run, c.group["ping"], "sleep_ok")
      /\ PingExec(c.exec, "sleep_ok") /\ FreshPing(c.exec, "sleep_ok")
  BY <1>1, <1>2, Zenon DEF SoundBut, Book, PingExec, FreshPing
<1>4. SoundBut([c EXCEPT !.ping = "sleep_ok"], None)
  BY <1>1, <1>3, Alone, PingPcStep
<1>5. QED
  BY <1>4 DEF PingTimer, Sound

\* The timer of check_timeout_op expires.
LEMMA CheckTimerKeeps ==
  ASSUME Sound(c), CheckTimer
  PROVE  Sound(c')
<1>1. SoundBut(c, None) /\ "timer_ok" \in CheckPc /\ c.check = "timer"
  BY DEF Sound, CheckPc, CheckTimer
<1>2. Book(None, "check", c.run, c.group["check"], "timer_ok")
  BY <1>1, Zenon DEF SoundBut, Book
<1>3. SoundBut([c EXCEPT !.check = "timer_ok"], None)
  BY <1>1, <1>2, Alone, CheckPcStep
<1>4. QED
  BY <1>3 DEF CheckTimer, Sound

------------------------------------------------------------------------------
(* The user.                                                               *)

\* A request that is refused because there is no connection.
LEMMA NotConnectedSound ==
  ASSUME NEW d, Sound(d), NEW e \in User, d.exec[e] = "idle"
  PROVE  Sound([d EXCEPT !.exec[e] = "not_connected"])
<1> DEFINE x == [d.exec EXCEPT ![e] = "not_connected"]
           n == [d EXCEPT !.exec = x]
<1>1. d \in ConnectionType /\ d.exec \in [Elem -> ExecResult] /\ "not_connected" \in ExecResult
  BY Zenon DEF Sound, SoundBut, ConnectionType, ExecResult
<1>2. e \in Elem /\ e \notin Hello /\ e \notin Ping /\ Hello \subseteq Elem /\ Ping \subseteq Elem
  BY ElemAssumption
<1>3. /\ x \in [Elem -> ExecResult] /\ x[e] = "not_connected"
      /\ \A f \in Elem \ {e} : x[f] = d.exec[f]
  BY <1>1, <1>2
<1> HIDE DEF x
<1>4. /\ n \in ConnectionType /\ n.exec = x /\ n.mpx = d.mpx /\ n.open = d.open
      /\ n.run = d.run /\ n.sent = d.sent /\ n.group = d.group /\ SamePcs(d, n)
  BY <1>1, <1>3 DEF ConnectionType, SamePcs
<1>5. n = [d EXCEPT !.exec[e] = "not_connected"]
  BY <1>1 DEF ConnectionType, x
<1> HIDE DEF n
<1>6. Requests(x, d.mpx)
  <2>1. Requests(d.exec, d.mpx)
    BY Zenon DEF Sound, SoundBut
  <2>2. QED
    BY <1>2, <1>3, <2>1, Zenon DEF Requests
<1>7. SingleHello(x) /\ SinglePing(x)
  <2>1. SingleHello(d.exec) /\ SinglePing(d.exec)
    BY Zenon DEF Sound, SoundBut
  <2>2. QED
    BY <1>2, <1>3, <2>1, Zenon DEF SingleHello, SinglePing
<1>8. /\ HelloWaits(x) <=> HelloWaits(d.exec)
      /\ PingWaits(x) <=> PingWaits(d.exec)
      /\ HelloLeft(x) <=> HelloLeft(d.exec)
      /\ PingLeft(x) <=> PingLeft(d.exec)
  BY <1>2, <1>3, Zenon DEF HelloWaits, PingWaits, HelloLeft, PingLeft
<1>9. /\ PingExec(x, d.ping) /\ FreshPing(x, d.ping) /\ FreshHello(x, d.run)
      /\ HelloBook(None, d.run, d.group["hello"], x)
  <2>1. /\ PingExec(d.exec, d.ping) /\ FreshPing(d.exec, d.ping) /\ FreshHello(d.exec, d.run)
        /\ HelloBook(None, d.run, d.group["hello"], d.exec)
    BY Zenon DEF Sound, SoundBut
  <2>2. QED
    BY <1>8, <2>1, Zenon DEF PingExec, FreshPing, FreshHello, HelloBook
<1>10. Sound(n)
  BY <1>4, <1>6, <1>7, <1>9, Zenon DEF Sound, SoundBut, SamePcs
<1>11. QED
  BY <1>5, <1>10

\* The user calls async_exec, connected or not.
LEMMA ExecKeeps ==
  ASSUME Sound(c), NEW e, Exec(e)
  PROVE  Sound(c')
<1>1. e \in User /\ c.exec[e] = "idle"
  BY DEF Exec
<1>2. CASE c' = [c EXCEPT !.exec[e] = "not_connected"]
  BY <1>1, <1>2, NotConnectedSound
<1>3. CASE c' = start_exec(c, e)
  <2>1. MayStart(c, None, e)
    BY <1>1, ElemAssumption, Zenon DEF MayStart
  <2>2. SoundBut(start_exec(c, e), None)
    BY <2>1, StartExecSound DEF Sound
  <2>3. QED
    BY <1>3, <2>2 DEF Sound
<1>4. QED
  BY <1>2, <1>3 DEF Exec

\* The user cancels a single async_exec.
LEMMA CancelExecKeeps ==
  ASSUME Sound(c), NEW e, CancelExec(e)
  PROVE  Sound(c')
<1> DEFINE s == c.signal \cup {e}
<1>1. c \in ConnectionType /\ s \in SUBSET Elem /\ c' = [c EXCEPT !.signal = s]
  <2>1. c \in ConnectionType /\ e \in Elem
    BY ElemAssumption DEF Sound, SoundBut, CancelExec
  <2>2. c.signal \in SUBSET Elem
    BY <2>1 DEF ConnectionType
  <2>3. QED
    BY <2>1, <2>2 DEF CancelExec
<1> HIDE DEF s
<1>2. c' \in ConnectionType /\ Same(c, c') /\ Softer(c, c')
  BY <1>1 DEF ConnectionType, Same, SameBooks, Softer
<1>3. QED
  BY <1>2, SoftStep DEF Sound

\* The user calls async_receive, or its handler runs.
LEMMA ReceiveKeeps ==
  ASSUME Sound(c), Receive \/ OnReceive
  PROVE  Sound(c')
<1>1. c \in ConnectionType /\ "wait" \in ReceiverPc /\ "idle" \in ReceiverPc
  BY Zenon DEF Sound, SoundBut, ReceiverPc
<1>2. CASE \E p \in {"wait", "idle"} : c' = [c EXCEPT !.receiver = p]
  <2>1. PICK p \in ReceiverPc : c' = [c EXCEPT !.receiver = p]
    BY <1>1, <1>2
  <2>2. c' \in ConnectionType /\ Same(c, c') /\ Softer(c, c')
    BY <1>1, <2>1 DEF ConnectionType, Same, SameBooks, Softer
  <2>3. QED
    BY <2>2, SoftStep DEF Sound
<1>3. CASE c.reader = "send" /\ c' = [c EXCEPT !.reader = "send_ok"]
  BY <1>3, ReaderQueued, Zenon
<1>4. CASE c.channel # 0 /\ c' = [c EXCEPT !.channel = @ - 1]
  <2> DEFINE k == c.channel - 1
  <2>1. k \in 0..Capacity /\ c' = [c EXCEPT !.channel = k]
    BY <1>1, <1>4, ElemAssumption DEF ConnectionType
  <2> HIDE DEF k
  <2>2. c' \in ConnectionType /\ Same(c, c') /\ Softer(c, c')
    BY <1>1, <2>1, Zenon DEF ConnectionType, Same, SameBooks, Softer
  <2>3. QED
    BY <2>2, SoftStep DEF Sound
<1>5. QED
  BY <1>2, <1>3, <1>4 DEF Receive, OnReceive

\* cancel(operation::exec): the waiting requests are notified and erased.
LEMMA CancelWaitingSound ==
  ASSUME NEW d, Sound(d)
  PROVE  Sound([d EXCEPT !.mpx = cancel_waiting(@)])
<1> DEFINE k == cancel_waiting(d.mpx)
<1>1. SoundBut(d, None) /\ WellFormed(d.mpx) /\ d.mpx \in MultiplexerType
  BY Zenon DEF Sound, SoundBut, WellFormed
<1>2. /\ WellFormed(k) /\ Queued(k) \subseteq Queued(d.mpx)
      /\ k.done = d.mpx.done \cup (Queued(d.mpx) \ Queued(k))
      /\ k.status = d.mpx.status /\ k.cancel_run_called = d.mpx.cancel_run_called
  BY <1>1, CancelWaitingLemma, Zenon
<1>3. SameBuffers(d.mpx, k)
  BY <1>1, CancelBuffers
<1> HIDE DEF k
<1>4. ReadSide(None, k, d.reader) /\ WriteSide(k, d.writer)
  <2>1. ReadSide(None, d.mpx, d.reader) /\ WriteSide(d.mpx, d.writer)
    BY <1>1, Zenon DEF SoundBut
  <2>2. QED
    BY <1>3, <2>1 DEF ReadSide, WriteSide, SameBuffers, is_writing
<1>5. /\ d.mpx.done \subseteq k.done
      /\ \A e \in Queued(d.mpx) \ Queued(k) : e \in k.done \/ d.exec[e] # "wait"
      /\ \A e \in Elem : is_waiting(d.mpx, e) => is_waiting(k, e)
      /\ \A e \in Elem : is_waiting(k, e) => is_waiting(d.mpx, e)
  BY <1>2, Zenon DEF is_waiting
<1>6. SoundBut([d EXCEPT !.mpx = k], None)
  BY <1>1, <1>2, <1>4, <1>5, MpxStep
<1>7. QED
  BY <1>6 DEF Sound, k

\* resolver::cancel.
LEMMA ResolverSound ==
  ASSUME NEW d, Sound(d)
  PROVE  Sound(cancel_resolver(d))
<1> DEFINE n == cancel_resolver(d)
<1>1. d \in ConnectionType
  BY Zenon DEF Sound, SoundBut
<1>2. /\ n \in ConnectionType /\ SameBooks(d, n) /\ Softer(d, n)
      /\ n.mpx = d.mpx /\ n.open = d.open
      /\ n.run = d.run \/ (d.run = "resolve" /\ n.run = "resolve_err")
  BY <1>1, ResolverEffect
<1>3. SamePcs(d, n)
  BY <1>1 DEF cancel_resolver, ConnectionType, SamePcs
<1> HIDE DEF n
<1>4. CASE n.run = d.run
  <2>1. SoundBut(n, None)
    BY <1>2, <1>4, SoftStep DEF Same, Sound
  <2>2. QED
    BY <2>1 DEF Sound, n
<1>5. CASE d.run = "resolve" /\ n.run = "resolve_err"
  <2>1. FreshHello(d.exec, n.run)
    BY <1>5 DEF FreshHello
  <2>2. Sound(n)
    BY <1>2, <1>3, <1>5, <2>1, RunStep
  <2>3. QED
    BY <2>2 DEF n
<1>6. QED
  BY <1>2, <1>4, <1>5, Zenon

\* The cancellations that change a flag or abort timers and channels only.
LEMMA QuietCancels ==
  ASSUME NEW d, Sound(d)
  PROVE  /\ Sound([d EXCEPT !.reconnect = FALSE])
         /\ Sound(cancel_receive_channel(d)) /\ Sound(cancel_health_checker(d))
<1>1. d \in ConnectionType /\ SoundBut(d, None)
  BY Zenon DEF Sound, SoundBut
<1>2. Sound([d EXCEPT !.reconnect = FALSE])
  <2> DEFINE n == [d EXCEPT !.reconnect = FALSE]
  <2>1. n \in ConnectionType /\ Same(d, n) /\ Softer(d, n)
    BY <1>1, Zenon DEF ConnectionType, Same, SameBooks, Softer
  <2> HIDE DEF n
  <2>2. SoundBut(n, None)
    BY <1>1, <2>1, SoftStep
  <2>3. QED
    BY <2>2 DEF n, Sound
<1>3. SoundBut(cancel_receive_channel(d), None)
  <2>1. LET n == cancel_receive_channel(d)
        IN  n \in ConnectionType /\ Same(d, n) /\ Softer(d, n)
    BY <1>1, ReceiveChannelEffect
  <2>2. QED
    BY <1>1, <2>1, SoftStep
<1>4. SoundBut(cancel_health_checker(d), None)
  <2>1. LET n == cancel_health_checker(d)
        IN  n \in ConnectionType /\ Same(d, n) /\ Softer(d, n)
    BY <1>1, HealthCheckerEffect
  <2>2. QED
    BY <1>1, <2>1, SoftStep
<1>5. QED
  BY <1>2, <1>3, <1>4 DEF Sound

\* The user calls cancel() for any operation.
LEMMA CancelKeeps ==
  ASSUME Sound(c), NEW op \in Cancels, Cancel(op)
  PROVE  Sound(c')
<1>1. c' = cancel(c, op) /\ op \in operation
  BY ElemAssumption DEF Cancel
<1>2. ASSUME NEW d, Sound(d)
      PROVE  Sound(cancel_run(d))
  BY <1>2, CancelRunSound DEF Sound
<1>3. CASE op = "resolve"
  BY <1>1, <1>3, ResolverSound DEF cancel
<1>4. CASE op = "exec"
  BY <1>1, <1>4, CancelWaitingSound DEF cancel
<1>5. CASE op = "reconnection"
  BY <1>1, <1>5, QuietCancels DEF cancel
<1>6. CASE op = "run"
  BY <1>1, <1>2, <1>6 DEF cancel
<1>7. CASE op = "receive"
  BY <1>1, <1>7, QuietCancels, Zenon DEF cancel
<1>8. CASE op = "health_check"
  BY <1>1, <1>8, QuietCancels, Zenon DEF cancel
<1>9. CASE op = "all"
  <2> DEFINE r == cancel_resolver(c)
             f == [r EXCEPT !.reconnect = FALSE]
             h == cancel_health_checker(f)
             n == cancel_run(h)
             k == cancel_receive_channel(n)
  <2>1. c' = [k EXCEPT !.mpx = cancel_waiting(@)]
    BY <1>1, <1>9 DEF cancel
  <2>2. Sound(r)
    BY ResolverSound
  <2> HIDE DEF r
  <2>3. Sound(f)
    BY <2>2, QuietCancels
  <2> HIDE DEF f
  <2>4. Sound(h)
    BY <2>3, QuietCancels, Zenon
  <2> HIDE DEF h
  <2>5. Sound(n)
    BY <1>2, <2>4
  <2> HIDE DEF n
  <2>6. Sound(k)
    BY <2>5, QuietCancels, Zenon
  <2> HIDE DEF k
  <2>7. QED
    BY <2>1, <2>6, CancelWaitingSound
<1>10. QED
  BY <1>1, <1>3, <1>4, <1>5, <1>6, <1>7, <1>8, <1>9 DEF operation

------------------------------------------------------------------------------
\* A connection that was just constructed satisfies the inductive invariant.
LEMMA InitSound == Init => ConnInv
<1> SUFFICES ASSUME Init PROVE ConnInv
  OBVIOUS
<1>1. /\ c = basic_connection /\ answered \in [q: Nat, j: Nat]
  BY Zenon DEF Init
<1>2. Capacity \in Nat /\ Hello \subseteq Elem /\ Ping \subseteq Elem
  BY ElemAssumption
<1>3. /\ multiplexer \in MultiplexerType /\ multiplexer.reqs = << >>
      /\ multiplexer.status = [e \in Elem |-> "waiting"] /\ multiplexer.parsed = 0
      /\ multiplexer.read_buffer = << >> /\ multiplexer.write_buffer = << >>
  BY ExpectedAssumption DEF multiplexer, MultiplexerType, Status, Error
<1>4. /\ WellFormed(multiplexer) /\ Queued(multiplexer) = {}
      /\ \A e \in Elem : is_waiting(multiplexer, e)
  BY <1>3 DEF WellFormed, Ordered, Distinct, Queued, is_waiting
<1>5. /\ c.mpx = multiplexer /\ ~c.open /\ c.run = "idle" /\ c.reader = "off"
      /\ c.writer = "off" /\ c.ping = "off" /\ c.check = "off" /\ c.sent = << >>
      /\ c.exec = [e \in Elem |-> "idle"] /\ c.group = [o \in Op |-> "off"]
  BY <1>1, Zenon DEF basic_connection
<1>6. c \in ConnectionType
  <2>1. /\ "idle" \in RunPc /\ "off" \in ReaderPc /\ "off" \in WriterPc /\ "off" \in PingPc
        /\ "off" \in CheckPc /\ "empty" \in PongResponse /\ "value" \in HelloResponse
        /\ "idle" \in ReceiverPc /\ "idle" \in ExecResult /\ "off" \in OpResult
    BY DEF RunPc, ReaderPc, WriterPc, PingPc, CheckPc, PongResponse, HelloResponse,
           ReceiverPc, ExecResult, OpResult
  <2> DEFINE x == [e \in Elem |-> "idle"]
             g == [o \in Op |-> "off"]
  <2>2. x \in [Elem -> ExecResult] /\ g \in [Op -> OpResult] /\ 0 \in 0..Capacity
    BY <1>2, <2>1
  <2>3. QED
    BY <1>1, <1>3, <2>1, <2>2 DEF basic_connection, ConnectionType
<1>7. Requests(c.exec, c.mpx) /\ ~HelloWaits(c.exec) /\ ~PingWaits(c.exec)
  BY <1>2, <1>4, <1>5, Zenon DEF Requests, HelloWaits, PingWaits
<1>8. SingleHello(c.exec) /\ SinglePing(c.exec)
  BY <1>7 DEF SingleHello, SinglePing, HelloWaits, PingWaits
<1>9. /\ PingExec(c.exec, c.ping) /\ FreshPing(c.exec, c.ping) /\ FreshHello(c.exec, c.run)
      /\ HelloBook(None, c.run, c.group["hello"], c.exec)
      /\ Book(None, "ping", c.run, c.group["ping"], c.ping)
      /\ Book(None, "check", c.run, c.group["check"], c.check)
      /\ Book(None, "reader", c.run, c.group["reader"], c.reader)
      /\ Book(None, "writer", c.run, c.group["writer"], c.writer)
  BY <1>5, <1>7, Zenon DEF PingExec, FreshPing, FreshHello, HelloBook, Book
<1>10. /\ ReadSide(None, c.mpx, c.reader) /\ WriteSide(c.mpx, c.writer)
       /\ Awake(c.mpx, c.run, c.open, c.writer) /\ Sending(None, c.run, c.sent)
       /\ ReaderCancels(None, c.mpx, c.run, c.open, c.reader)
  BY <1>3, <1>5 DEF ReadSide, WriteSide, Awake, Sending, ReaderCancels
<1>11. Down(c.mpx, c.run, c.open)
  BY <1>4, <1>5, Zenon DEF Down, AllWaiting
<1>12. Sound(c)
  BY <1>4, <1>5, <1>6, <1>7, <1>8, <1>9, <1>10, <1>11, Zenon DEF Sound, SoundBut
<1>13. QED
  BY <1>1, <1>12, ConnInvUnfolded

\* A step of the connection, with the reply that arrives where one does.
LEMMA NextSound == ConnInv /\ [Next]_vars => ConnInv'
<1> SUFFICES ASSUME ConnInv, [Next]_vars PROVE ConnInv'
  OBVIOUS
<1> DEFINE A == answered \in [q: Nat, j: Nat]
           B == answered' \in [q: Nat, j: Nat]
<1>1. Sound(c) /\ A
  BY ConnInvUnfolded
<1>2. SUFFICES Sound(c') /\ B
  BY ConnInvUnfolded
<1> HIDE DEF A, B
<1>3. UNCHANGED answered => B
  BY <1>1 DEF A, B
<1>4. CASE UNCHANGED vars
  BY <1>1, <1>3, <1>4 DEF vars
<1>5. CASE Handlers
  <2>1. Sound(c')
    BY <1>1, <1>5, OnResolveKeeps, OnConnectKeeps, OnGroupKeeps, OnBackoffKeeps, OnExecKeeps,
       OnPostKeeps, OnPingKeeps, OnCheckKeeps, OnWriteKeeps, OnReadKeeps, OnSendKeeps
    DEF Handlers
  <2>2. UNCHANGED answered \/ answered' = [q |-> 1, j |-> 1]
    BY <1>5, Zenon DEF Handlers, OnResolve, OnConnect, OnGroup, OnBackoff, OnExec, OnPost, OnPing,
                OnCheck, OnWrite, OnRead, OnSend
  <2>3. QED
    BY <1>3, <2>1, <2>2 DEF B
<1>6. ASSUME NEW end \in {"done", "bad"}, ReadReply(end)
      PROVE  Sound(c') /\ B
  <2>1. PICK k \in Owed :
          LET j == IF k = answered.q THEN answered.j ELSE 1
          IN  /\ Arrives([type |-> "reply", q |-> k, j |-> j, p |-> 1, end |-> end])
              /\ answered' = IF j < Expected[c.sent[k]] THEN [q |-> k, j |-> j + 1]
                                                       ELSE [q |-> k + 1, j |-> 1]
    BY <1>6, Zenon DEF ReadReply
  <2> DEFINE j == IF k = answered.q THEN answered.j ELSE 1
             part == [type |-> "reply", q |-> k, j |-> j, p |-> 1, end |-> end]
  <2>2. answered.q \in Nat /\ answered.j \in Nat
    BY <1>1 DEF A
  <2>3. k \in answered.q..Len(c.sent) /\ Len(c.sent) \in Nat
    <3>1. c \in ConnectionType
      BY <1>1, Zenon DEF Sound, SoundBut
    <3>2. c.sent \in Seq(Elem)
      BY <3>1 DEF ConnectionType
    <3>3. QED
      BY <3>2 DEF Owed
  <2>4. k \in Nat /\ j \in Nat
    BY <2>2, <2>3
  <2>5. /\ Arrives(part)
        /\ answered' = [q |-> k, j |-> j + 1] \/ answered' = [q |-> k + 1, j |-> 1]
    BY <2>1, Zenon
  <2> HIDE DEF j
  <2>6. B
    BY <2>4, <2>5 DEF B
  <2>7. part \in Part
    BY <1>6, <2>4 DEF Part
  <2> HIDE DEF part
  <2>8. QED
    BY <1>1, <2>5, <2>6, <2>7, ArrivesKeeps
<1>7. ASSUME ReadPush
      PROVE  Sound(c') /\ B
  <2> DEFINE part == [type |-> "push", q |-> answered.q, j |-> answered.j, p |-> 1,
                      end |-> "done"]
  <2>1. part \in Part
    BY <1>1, Zenon DEF A, Part
  <2>2. Arrives(part) /\ UNCHANGED answered
    BY <1>7 DEF ReadPush
  <2> HIDE DEF part
  <2>3. QED
    BY <1>1, <1>3, <2>1, <2>2, ArrivesKeeps
<1>8. CASE Environment
  <2>1. ASSUME NEW ok \in BOOLEAN, ResolveEnd(ok) \/ ConnectEnd(ok) \/ WriteEnd(ok)
        PROVE  Sound(c') /\ B
    <3>1. UNCHANGED answered
      BY <2>1 DEF ResolveEnd, ConnectEnd, WriteEnd
    <3>2. QED
      BY <1>1, <1>3, <2>1, <3>1, ResolveEndKeeps, ConnectEndKeeps, WriteEndKeeps
  <2>2. ASSUME PingTimer \/ CheckTimer \/ ReadEnd
        PROVE  Sound(c') /\ B
    <3>1. UNCHANGED answered
      BY <2>2 DEF PingTimer, CheckTimer, ReadEnd
    <3>2. QED
      BY <1>1, <1>3, <2>2, <3>1, PingTimerKeeps, CheckTimerKeeps, ReadEndKeeps
  <2>3. QED
    BY <1>6, <1>7, <1>8, <2>1, <2>2 DEF Environment, DueEvents
<1>9. CASE Users
  <2>1. Sound(c')
    BY <1>1, <1>9, RunKeeps, ExecKeeps, CancelExecKeeps, ReceiveKeeps, CancelKeeps DEF Users
  <2>2. UNCHANGED answered
    BY <1>9 DEF Users, Run, Exec, CancelExec, Receive, OnReceive, Cancel
  <2>3. QED
    BY <1>3, <2>1, <2>2
<1>10. QED
  BY <1>4, <1>5, <1>8, <1>9 DEF Next

(***************************************************************************)
(* ConnInv is an invariant, whatever the operations of the group, the      *)
(* network, the server and the user do, and in whichever order.            *)
(***************************************************************************)
THEOREM ConnectionSafe == Spec => []ConnInv
<1>1. Init => ConnInv
  BY InitSound
<1>2. ConnInv /\ [Next]_vars => ConnInv'
  BY NextSound
<1>3. QED
  BY <1>1, <1>2, PTL DEF Spec

(***************************************************************************)
(* The queue of the multiplexer stays ordered and free of duplicates, and  *)
(* no pending async_exec is forgotten, while the reader, the writer, the   *)
(* health checker, cancel() and the users interleave on it.                *)
(***************************************************************************)
THEOREM QueueSoundHolds == Spec => []QueueSound
<1>1. ConnInv => QueueSound
  BY Zenon DEF ConnInv
<1>2. QED
  BY <1>1, ConnectionSafe, PTL

(***************************************************************************)
(* The writer never sleeps on an open connection while requests wait.      *)
(***************************************************************************)
THEOREM NoLostWakeupHolds == Spec => []NoLostWakeup
<1>1. ConnInv => NoLostWakeup
  BY Zenon DEF ConnInv
<1>2. QED
  BY <1>1, ConnectionSafe, PTL

(***************************************************************************)
(* HELLO is the first request written on every connection.                 *)
(***************************************************************************)
THEOREM HelloFirstHolds == Spec => []HelloFirst
<1>1. ConnInv => HelloFirst
  BY Zenon DEF ConnInv
<1>2. QED
  BY <1>1, ConnectionSafe, PTL

(***************************************************************************)
(* The books of the parallel group are right: run_op goes on exactly when  *)
(* none of the five operations has anything pending.                       *)
(***************************************************************************)
THEOREM GroupSoundHolds == Spec => []GroupSound
<1>1. ConnInv => GroupSound
  BY Zenon DEF ConnInv
<1>2. QED
  BY <1>1, ConnectionSafe, PTL

(***************************************************************************)
(* Between two connections every queued request waits to be sent.          *)
(***************************************************************************)
THEOREM BetweenConnectionsHolds == Spec => []BetweenConnections
<1>1. ConnInv => BetweenConnections
  BY Zenon DEF ConnInv, BetweenConnections, AllWaiting
<1>2. QED
  BY <1>1, ConnectionSafe, PTL
==============================================================================
