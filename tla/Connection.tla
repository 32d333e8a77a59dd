------------------------------ MODULE Connection -----------------------------
(***************************************************************************)
(* basic_connection: run_op, the five operations it runs in a parallel     *)
(* group (hello_op, ping_op, check_timeout_op, reader_op, writer_op), the  *)
(* exec_op of every async_exec, the receive channel and cancel().          *)
(*                                                                         *)
(* All handlers run on one executor, so a step is a whole handler, from    *)
(* the completion that resumes it to its next suspension.  A completion is *)
(* queued before its handler runs: a program counter that ends in _ok or   *)
(* _err, or is "woken", stands for a queued one, and a cancel() or close() *)
(* that comes later no longer changes its outcome.                         *)
(***************************************************************************)
EXTENDS Multiplexer

CONSTANTS
  User,                 \* the elems of the user's async_exec calls
  Hello,                \* the elems of hello_op, one per connection (bound)
  Ping,                 \* the elems of ping_op, one per PING (bound)
  CancelIfNotConnected, \* request::config::cancel_if_not_connected
  HealthCheck,          \* health_check_interval is not zero
  Capacity,             \* of receive_channel_, 256 in the code
  Cancels,              \* the arguments cancel() is called with
  MaxRun,               \* bound: calls of async_run
  MaxPush,              \* bound: pushes the server sends
  MaxLoss,              \* bound: failures of the resolver and the network
  MaxError,             \* bound: error replies to HELLO and PING, bad messages
  MaxCancel             \* bound: calls of cancel() and cancelled async_exec

\* The operations that cancel() acts on.
operation == {"resolve", "exec", "reconnection", "run", "receive", "health_check", "all"}

ASSUME ElemAssumption ==
  /\ Elem = User \cup Hello \cup Ping
  /\ User \cap Hello = {} /\ User \cap Ping = {} /\ Hello \cap Ping = {}
  /\ CancelIfNotConnected \subseteq User
  /\ Hello \subseteq HelloPriority /\ Ping \cap HelloPriority = {}
  /\ HealthCheck \in BOOLEAN /\ Cancels \subseteq operation
  /\ Capacity \in Nat \ {0}

Op == {"hello", "ping", "check", "reader", "writer"}

VARIABLES
  c,         \* the basic_connection object and the operations it has pending
  answered,  \* the server's next reply is the j-th to c.sent[q]
  left       \* what is left of each bound

vars == <<c, answered, left>>

\* A connection after its construction.
basic_connection ==
  [mpx        |-> multiplexer,
   open       |-> FALSE,      \* stream_->next_layer().is_open()
   reconnect  |-> TRUE,       \* will_reconnect()
   run        |-> "idle",
   reader     |-> "off",
   writer     |-> "off",
   ping       |-> "off",
   check      |-> "off",
   exited     |-> FALSE,      \* checker_has_exited_
   resp       |-> "empty",    \* health_checker::resp_
   hello_resp |-> "value",
   receiver   |-> "idle",     \* async_receive
   channel    |-> 0,          \* pushes buffered in receive_channel_
   exec       |-> [e \in Elem |-> "idle"],   \* exec_op, and its result
   signal     |-> {},         \* exec_ops with a terminal cancellation
   group      |-> [o \in Op |-> "off"],
   first      |-> "none",     \* order[0] of the parallel group
   thrown     |-> FALSE,      \* an exception left a handler
   sent       |-> << >>]      \* history: requests handed to async_write

\* Where run_op, the operations of its group and async_receive are.
RunPc == {"idle", "resolve", "resolve_ok", "resolve_err", "connect", "connect_ok",
          "connect_err", "group", "backoff", "done"}
ReaderPc == {"off", "read", "read_ok", "read_err", "send", "send_ok", "send_err"}
WriterPc == {"off", "write", "write_ok", "write_err", "timer", "woken"}
PingPc == {"off", "post", "exec", "sleep", "sleep_ok", "sleep_err"}
CheckPc == {"off", "post", "timer", "timer_ok", "timer_err"}
ReceiverPc == {"idle", "wait", "got", "err"}

\* What an async_exec and an operation of the group come to.
ExecResult == {"idle", "wait", "ok", "error", "aborted", "not_connected"}
OpResult == {"off", "on", "ok", "error", "resp3_hello", "pong_timeout"}
PongResponse == {"empty", "pong", "error"}
HelloResponse == {"value", "error"}

ConnectionType ==
  [mpx: MultiplexerType, open: BOOLEAN, reconnect: BOOLEAN, run: RunPc,
   reader: ReaderPc, writer: WriterPc, ping: PingPc, check: CheckPc, exited: BOOLEAN,
   resp: PongResponse, hello_resp: HelloResponse, receiver: ReceiverPc, channel: 0..Capacity,
   exec: [Elem -> ExecResult], signal: SUBSET Elem, group: [Op -> OpResult],
   first: Op \cup {"none"}, thrown: BOOLEAN, sent: Seq(Elem)]

(***************************************************************************)
(* The types; among them, the receive channel never holds more pushes than *)
(* its capacity, and the counters of the multiplexer stay in their ranges. *)
(***************************************************************************)
TypeOK == c \in ConnectionType /\ answered \in [q: Nat, j: Nat]

Init ==
  /\ c = basic_connection
  /\ answered = [q |-> 1, j |-> 1]
  /\ left = [run |-> MaxRun, push |-> MaxPush, loss |-> MaxLoss,
             error |-> MaxError, cancel |-> MaxCancel]

------------------------------------------------------------------------------
(* Cancellation.                                                           *)

\* The operation pending in pc, if it is one of from, is aborted.
Abort(pc, from, to) == IF pc = from THEN to ELSE pc

close(d) ==
  IF ~d.open THEN d
  ELSE [d EXCEPT !.open = FALSE,
                 !.run = Abort(@, "connect", "connect_err"),
                 !.reader = Abort(@, "read", "read_err"),
                 !.writer = Abort(@, "write", "write_err")]

cancel_writer_timer(d) == [d EXCEPT !.writer = Abort(@, "timer", "woken")]

cancel_receive_channel(d) ==
  [d EXCEPT !.receiver = Abort(@, "wait", "err"), !.reader = Abort(@, "send", "send_err")]

\* Mutants of cancel_run: the requests are left as they are, and the writer
\* is not woken.
cancel_run_keeps(d) == cancel_receive_channel(cancel_writer_timer(close(d)))

cancel_run_sleeps(d) ==
  [cancel_receive_channel(close(d)) EXCEPT !.mpx = cancel_on_conn_lost(@)]

cancel_run(d) ==
  [cancel_receive_channel(cancel_writer_timer(close(d))) EXCEPT
     !.mpx = cancel_on_conn_lost(@)]

cancel_resolver(d) == [d EXCEPT !.run = Abort(@, "resolve", "resolve_err")]

cancel_health_checker(d) ==
  [d EXCEPT !.ping = Abort(@, "sleep", "sleep_err"),
            !.check = Abort(@, "timer", "timer_err")]

cancel(d, op) ==
  CASE op = "resolve"      -> cancel_resolver(d)
    [] op = "exec"         -> [d EXCEPT !.mpx = cancel_waiting(@)]
    [] op = "reconnection" -> [d EXCEPT !.reconnect = FALSE]
    [] op = "run"          -> cancel_run(d)
    [] op = "receive"      -> cancel_receive_channel(d)
    [] op = "health_check" -> cancel_health_checker(d)
    [] op = "all"          ->
         [cancel_receive_channel(cancel_run(cancel_health_checker(
            [cancel_resolver(d) EXCEPT !.reconnect = FALSE])))
          EXCEPT !.mpx = cancel_waiting(@)]

------------------------------------------------------------------------------
(* The parallel group, wait_for_one_error: the first error cancels the     *)
(* other operations; the group completes when all of them have.            *)

cancel_group(d) ==
  LET h == cancel_health_checker(cancel_writer_timer(d))
  IN  [h EXCEPT !.signal = @ \cup {e \in Hello \cup Ping : d.exec[e] = "wait"},
                !.reader = Abort(Abort(@, "read", "read_err"), "send", "send_err"),
                !.writer = Abort(@, "write", "write_err")]

\* self.complete of the operation o with result r; its own counter is off.
complete(d, o, r) ==
  LET failed == \E x \in Op : d.group[x] \notin {"off", "on", "ok"}
      n == [d EXCEPT !.group[o] = r, !.first = IF @ = "none" THEN o ELSE @]
  IN  IF r # "ok" /\ ~failed THEN cancel_group(n) ELSE n

------------------------------------------------------------------------------
(* Starting and continuing operations.                                     *)

\* Mutant of trigger_write: the negation is lost.
trigger_write_busy(d) == d.open /\ is_writing(d.mpx)

trigger_write(d) == d.open /\ ~is_writing(d.mpx)

\* exec_op up to its wait.
start_exec(d, e) ==
  LET n == [d EXCEPT !.mpx = add(@, e), !.exec[e] = "wait"]
  IN  IF trigger_write(n) THEN cancel_writer_timer(n) ELSE n

\* An elem of S that has not been used yet.
Fresh(d, S) == {e \in S : d.exec[e] = "idle"}
Some(d, S) == CHOOSE e \in Fresh(d, S) : TRUE

\* The loop of ping_op, up to the PING it sends.
ping_loop(d) ==
  IF ~HealthCheck THEN [d EXCEPT !.ping = "post"]
  ELSE IF d.exited THEN complete([d EXCEPT !.ping = "off"], "ping", "ok")
  ELSE start_exec([d EXCEPT !.ping = "exec"], Some(d, Ping))

\* async_check_timeout.
start_check(d) ==
  [d EXCEPT !.exited = FALSE, !.check = IF HealthCheck THEN "timer" ELSE "post"]

\* The loop of reader_op when the buffer is empty.
start_read(d) == [d EXCEPT !.reader = IF d.open THEN "read" ELSE "read_err"]

\* The loop of writer_op: a write if something waits, the timer if not.
write_loop(d) ==
  IF to_stage(d.mpx) = << >> THEN [d EXCEPT !.writer = "timer"]
  ELSE [d EXCEPT !.mpx = prepare_write(@),
                 !.sent = @ \o to_stage(d.mpx),
                 !.writer = IF d.open THEN "write" ELSE "write_err"]

\* Mutant of start_group: the writer is the first operation of the group.
start_group_writer(d) ==
  LET g == [d EXCEPT !.mpx = reset(@), !.run = "group", !.first = "none",
                     !.group = [o \in Op |-> "on"], !.sent = << >>]
  IN  start_read(start_check(ping_loop(start_exec(write_loop(g), Some(g, Hello)))))

\* make_parallel_group starts its operations in the order of its arguments.
start_group(d) ==
  LET g == [d EXCEPT !.mpx = reset(@), !.run = "group", !.first = "none",
                     !.group = [o \in Op |-> "on"], !.sent = << >>]
  IN  write_loop(start_read(start_check(ping_loop(start_exec(g, Some(g, Hello))))))

------------------------------------------------------------------------------
(* run_op.                                                                 *)

\* What the environment may do only so often.
Spend(b) == left[b] > 0 /\ left' = [left EXCEPT ![b] = @ - 1]

\* async_run takes a new config, and may be called again when it has completed.
Run ==
  /\ c.run \in {"idle", "done"}
  /\ c' = [c EXCEPT !.run = "resolve", !.reconnect = TRUE]
  /\ Spend("run")
  /\ UNCHANGED answered

OnResolve ==
  /\ \/ c.run = "resolve_err" /\ c' = [c EXCEPT !.run = "done"]
     \/ c.run = "resolve_ok" /\ c' = [c EXCEPT !.run = "connect", !.open = TRUE]
  /\ UNCHANGED <<answered, left>>

\* async_connect, and the SSL handshake if there is one, have ended.
OnConnect ==
  /\ \/ c.run = "connect_err" /\ c' = [c EXCEPT !.run = "done"] /\ UNCHANGED answered
     \/ c.run = "connect_ok" /\ c' = start_group(c) /\ answered' = [q |-> 1, j |-> 1]
  /\ UNCHANGED left

\* Mutants of OnGroup: any end of HELLO that comes first ends async_run, a
\* rejected HELLO is not looked for, and the receive operation is not cancelled.
OnGroupHelloFirst ==
  /\ c.run = "group"
  /\ \A o \in Op : c.group[o] # "on"
  /\ c' = [cancel_receive_channel(c) EXCEPT
            !.run = IF c.first = "hello" \/ ~c.reconnect THEN "done" ELSE "backoff"]
  /\ UNCHANGED <<answered, left>>

OnGroupAnyEnd ==
  /\ c.run = "group"
  /\ \A o \in Op : c.group[o] # "on"
  /\ c' = [cancel_receive_channel(c) EXCEPT !.run = IF c.reconnect THEN "backoff" ELSE "done"]
  /\ UNCHANGED <<answered, left>>

OnGroupReceiving ==
  /\ c.run = "group"
  /\ \A o \in Op : c.group[o] # "on"
  /\ c' = [c EXCEPT !.run = IF c.reconnect THEN "backoff" ELSE "done"]
  /\ UNCHANGED <<answered, left>>

OnGroup ==
  /\ c.run = "group"
  /\ \A o \in Op : c.group[o] # "on"
  /\ LET d == cancel_receive_channel(c)
     IN  c' = IF c.first = "hello" /\ c.group["hello"] # "ok" THEN [c EXCEPT !.run = "done"]
              ELSE IF c.first = "check" /\ c.group["check"] = "pong_timeout"
                   THEN [c EXCEPT !.run = "done"]
              ELSE [d EXCEPT !.run = IF c.reconnect THEN "backoff" ELSE "done"]
  /\ UNCHANGED <<answered, left>>

\* The reconnect timer, which nothing cancels.
OnBackoff ==
  /\ c.run = "backoff"
  /\ c' = IF c.reconnect THEN [c EXCEPT !.open = FALSE, !.run = "resolve"]
                         ELSE [c EXCEPT !.run = "done"]
  /\ UNCHANGED <<answered, left>>

------------------------------------------------------------------------------
(* hello_op, ping_op and check_timeout_op.                                 *)

\* hello_op after its async_exec.
after_hello(d, ok) ==
  IF ~ok THEN complete(cancel_run(d), "hello", "error")
  ELSE IF d.hello_resp = "error" THEN complete(cancel_run(d), "hello", "resp3_hello")
  ELSE complete(d, "hello", "ok")

\* Mutant of after_ping: no return after self.complete.
after_ping_no_return(d, ok) ==
  IF ok THEN [d EXCEPT !.ping = "sleep"]
  ELSE complete([d EXCEPT !.ping = "sleep", !.check = Abort(@, "timer", "timer_err")],
                "ping", "error")

\* ping_op after its async_exec.
after_ping(d, ok) ==
  IF ok THEN [d EXCEPT !.ping = "sleep"]
  ELSE complete([d EXCEPT !.ping = "off", !.check = Abort(@, "timer", "timer_err")],
                "ping", "error")

\* Mutant of exec_result: the connection is kept although a request that was
\* sent is cancelled.
exec_result_keeps(d, e) ==
  CASE d.mpx.ec[e] # "none"                        -> [d EXCEPT !.exec[e] = "error"]
    [] d.mpx.ec[e] = "none" /\ e \in d.signal      -> [d EXCEPT !.exec[e] = "aborted"]
    [] d.mpx.ec[e] = "none" /\ e \notin d.signal   -> [d EXCEPT !.exec[e] = "ok"]

(***************************************************************************)
(* exec_op resumes when it is notified or cancelled, and its completion    *)
(* handler follows at once: hello_op and ping_op go on, a user is told.    *)
(***************************************************************************)
exec_result(d, e) ==
  CASE d.mpx.ec[e] # "none"                        -> [d EXCEPT !.exec[e] = "error"]
    [] d.mpx.ec[e] = "none" /\ e \in d.signal      ->
         IF is_waiting(d.mpx, e)
         THEN [d EXCEPT !.exec[e] = "aborted", !.mpx = remove(@, e)]
         ELSE [cancel_run(d) EXCEPT !.exec[e] = "aborted"]
    [] d.mpx.ec[e] = "none" /\ e \notin d.signal   -> [d EXCEPT !.exec[e] = "ok"]

resume_exec(d, e) ==
  LET n  == [exec_result(d, e) EXCEPT !.signal = @ \ {e}]
      ok == n.exec[e] = "ok"
  IN  IF e \in Hello THEN after_hello(n, ok)
      ELSE IF e \in Ping THEN after_ping(n, ok)
      ELSE n

ExecResumes(e) == c.exec[e] = "wait" /\ e \in c.mpx.done \cup c.signal

OnExec(e) ==
  /\ ExecResumes(e)
  /\ c' = resume_exec(c, e)
  /\ UNCHANGED <<answered, left>>

\* asio::post of a health check that is disabled.
OnPost ==
  /\ \/ c.ping = "post" /\ c' = complete([c EXCEPT !.ping = "off"], "ping", "ok")
     \/ c.check = "post" /\ c' = complete([c EXCEPT !.check = "off"], "check", "ok")
  /\ UNCHANGED <<answered, left>>

\* Mutant of OnPing: the loop is left when its timer expires.
OnPingOnce ==
  /\ \/ c.ping = "sleep_ok" /\ c' = complete([c EXCEPT !.ping = "off"], "ping", "ok")
     \/ c.ping = "sleep_err" /\ c' = complete([c EXCEPT !.ping = "off"], "ping", "error")
  /\ UNCHANGED <<answered, left>>

OnPing ==
  /\ \/ c.ping = "sleep_ok" /\ c' = ping_loop(c)
     \/ c.ping = "sleep_err" /\ c' = complete([c EXCEPT !.ping = "off"], "ping", "error")
  /\ UNCHANGED <<answered, left>>

check_timeout(d) ==
  LET p == cancel_run([d EXCEPT !.ping = Abort(@, "sleep", "sleep_err"), !.check = "off"])
  IN  CASE d.resp = "error" -> complete([d EXCEPT !.check = "off"], "check", "ok")
        [] d.resp = "empty" -> complete([p EXCEPT !.exited = TRUE], "check", "pong_timeout")
        [] d.resp = "pong"  -> [d EXCEPT !.resp = "empty", !.check = "timer"]

OnCheck ==
  /\ \/ c.check = "timer_ok" /\ c' = check_timeout(c)
     \/ c.check = "timer_err" /\ c' = complete([c EXCEPT !.check = "off"], "check", "error")
  /\ UNCHANGED <<answered, left>>

------------------------------------------------------------------------------
(* writer_op and reader_op.                                                *)

stop_writer(d, r) == complete([d EXCEPT !.writer = "off"], "writer", r)

\* Mutant of OnWrite: what was added during the write is not looked for.
OnWriteOnce ==
  /\ \/ c.writer = "write_err" /\ c' = stop_writer(cancel_run(c), "error")
     \/ /\ c.writer = "write_ok"
        /\ LET d == [c EXCEPT !.mpx = commit_write(@)]
           IN  c' = IF d.open THEN [d EXCEPT !.writer = "timer"] ELSE stop_writer(d, "ok")
     \/ /\ c.writer = "woken"
        /\ c' = IF c.open THEN write_loop(c) ELSE stop_writer(c, "ok")
  /\ UNCHANGED <<answered, left>>

OnWrite ==
  /\ \/ c.writer = "write_err" /\ c' = stop_writer(cancel_run(c), "error")
     \/ /\ c.writer = "write_ok"
        /\ LET d == [c EXCEPT !.mpx = commit_write(@)]
           IN  c' = IF d.open THEN write_loop(d) ELSE stop_writer(d, "ok")
     \/ /\ c.writer = "woken"
        /\ c' = IF c.open THEN write_loop(c) ELSE stop_writer(c, "ok")
  /\ UNCHANGED <<answered, left>>

stop_reader(d, r) == complete([d EXCEPT !.reader = "off"], "reader", r)

\* Mutants of deliver: the capacity is not checked, and a push is buffered
\* although somebody waits for it.
deliver_unbounded(d) ==
  IF d.receiver = "wait" THEN start_read([d EXCEPT !.receiver = "got"])
  ELSE start_read([d EXCEPT !.channel = @ + 1])

deliver_past_receiver(d) ==
  IF d.channel < Capacity THEN start_read([d EXCEPT !.channel = @ + 1])
  ELSE [d EXCEPT !.reader = "send"]

\* A push goes to whoever receives, into the channel, or waits for room.
deliver(d) ==
  IF d.receiver = "wait" THEN start_read([d EXCEPT !.receiver = "got"])
  ELSE IF d.channel < Capacity THEN start_read([d EXCEPT !.channel = @ + 1])
  ELSE [d EXCEPT !.reader = "send"]

(***************************************************************************)
(* What the reply to f does to the response object of hello_op or ping_op: *)
(* an error reply makes it an error, which stays, and reading the value of *)
(* an error throws.                                                        *)
(***************************************************************************)
adapt(d, f, err) ==
  IF f \in Hello
  THEN IF err THEN [d EXCEPT !.hello_resp = "error"]
              ELSE [d EXCEPT !.thrown = d.hello_resp = "error"]
  ELSE IF err THEN [d EXCEPT !.resp = "error"]
              ELSE [d EXCEPT !.thrown = d.resp = "error",
                             !.resp = IF d.resp = "error" THEN @ ELSE "pong"]

\* commit_read of the one message that a read brings.
read_message(d, err) ==
  LET push == is_next_push(d.mpx)
      bad  == parse_outcome(d.mpx) = "bad"
      f    == Head(d.mpx.reqs)
      n    == [d EXCEPT !.mpx = commit_read(@)]
  IN  IF bad THEN stop_reader(cancel_run(n), "error")
      ELSE IF push THEN deliver(n)
      ELSE start_read(IF f \in Hello \cup Ping THEN adapt(n, f, err) ELSE n)

OnRead ==
  /\ UNCHANGED answered
  /\ \/ c.reader = "read_err" /\ c' = stop_reader(cancel_run(c), "error") /\ UNCHANGED left
     \/ c.reader = "read_ok" /\ ~c.open /\ c' = stop_reader(c, "ok") /\ UNCHANGED left
     \/ c.reader = "read_ok" /\ c.open /\ c' = read_message(c, FALSE) /\ UNCHANGED left
     \/ /\ c.reader = "read_ok" /\ c.open
        /\ ~is_next_push(c.mpx) /\ Head(c.mpx.reqs) \in Hello \cup Ping
        /\ parse_outcome(c.mpx) = "done"
        /\ c' = read_message(c, TRUE)
        /\ Spend("error")

OnSend ==
  /\ \/ c.reader = "send_err" /\ c' = stop_reader(cancel_run(c), "error")
     \/ /\ c.reader = "send_ok"
        /\ c' = IF c.open THEN start_read(c) ELSE stop_reader(c, "error")
  /\ UNCHANGED <<answered, left>>

------------------------------------------------------------------------------
(* The resolver, the network and the server: completions are queued.       *)

\* async_resolve: an answer, or an error or its timeout.
ResolveEnd(ok) ==
  /\ c.run = "resolve"
  /\ c' = [c EXCEPT !.run = IF ok THEN "resolve_ok" ELSE "resolve_err"]
  /\ IF ok THEN UNCHANGED left ELSE Spend("loss")
  /\ UNCHANGED answered

\* Hello and Ping bound the connections.
MayConnect == Fresh(c, Hello) # {} /\ (HealthCheck => Fresh(c, Ping) # {})

\* async_connect and async_handshake: likewise.
ConnectEnd(ok) ==
  /\ c.run = "connect"
  /\ c' = [c EXCEPT !.run = IF ok THEN "connect_ok" ELSE "connect_err"]
  /\ IF ok THEN MayConnect /\ UNCHANGED left
     ELSE IF MayConnect THEN Spend("loss") ELSE UNCHANGED left
  /\ UNCHANGED answered

WriteEnd(ok) ==
  /\ c.writer = "write"
  /\ c' = [c EXCEPT !.writer = IF ok THEN "write_ok" ELSE "write_err"]
  /\ IF ok THEN UNCHANGED left ELSE Spend("loss")
  /\ UNCHANGED answered

\* The peer closes, or the network fails.
ReadEnd ==
  /\ c.reader = "read"
  /\ c' = [c EXCEPT !.reader = "read_err"]
  /\ Spend("loss")
  /\ UNCHANGED answered

\* A read completes with the message part.
Arrives(part) ==
  /\ c.reader = "read"
  /\ c' = [c EXCEPT !.reader = "read_ok", !.mpx.read_buffer = Append(@, part)]
  /\ IF part.end = "bad" THEN Spend("error")
     ELSE IF part.type = "push" THEN Spend("push") ELSE UNCHANGED left

\* The server answers in the order in which it is asked.
Owed == {k \in answered.q..Len(c.sent) : Expected[c.sent[k]] > 0}

ReadReply(end) ==
  \E k \in Owed :
    /\ \A l \in Owed : k <= l
    /\ LET j == IF k = answered.q THEN answered.j ELSE 1
       IN  /\ Arrives([type |-> "reply", q |-> k, j |-> j, p |-> 1, end |-> end])
           /\ answered' = IF j < Expected[c.sent[k]] THEN [q |-> k, j |-> j + 1]
                                                    ELSE [q |-> k + 1, j |-> 1]

ReadPush ==
  /\ Arrives([type |-> "push", q |-> answered.q, j |-> answered.j, p |-> 1, end |-> "done"])
  /\ UNCHANGED answered

\* ping_timer_ expires; Ping bounds how often.
PingTimer ==
  /\ c.ping = "sleep"
  /\ Fresh(c, Ping) # {}
  /\ c' = [c EXCEPT !.ping = "sleep_ok"]
  /\ UNCHANGED <<answered, left>>

\* wait_timer_ expires.
CheckTimer ==
  /\ c.check = "timer"
  /\ c' = [c EXCEPT !.check = "timer_ok"]
  /\ UNCHANGED <<answered, left>>

------------------------------------------------------------------------------
(* The user.                                                               *)

Exec(e) ==
  /\ e \in User
  /\ c.exec[e] = "idle"
  /\ c' = IF e \in CancelIfNotConnected /\ ~c.open
          THEN [c EXCEPT !.exec[e] = "not_connected"]
          ELSE start_exec(c, e)
  /\ UNCHANGED <<answered, left>>

\* Terminal cancellation of one async_exec.
CancelExec(e) ==
  /\ e \in User \ c.signal
  /\ c.exec[e] = "wait"
  /\ c' = [c EXCEPT !.signal = @ \cup {e}]
  /\ Spend("cancel")
  /\ UNCHANGED answered

\* async_receive: a buffered push, or a wait.  Room for a blocked async_send.
\* MaxPush bounds it: without pushes a receiver is of no interest.
Receive ==
  /\ MaxPush > 0
  /\ c.receiver = "idle"
  /\ c' = IF c.channel = 0 THEN [c EXCEPT !.receiver = "wait"]
          ELSE IF c.reader = "send" THEN [c EXCEPT !.reader = "send_ok"]
          ELSE [c EXCEPT !.channel = @ - 1]
  /\ UNCHANGED <<answered, left>>

\* The handler of async_receive.
OnReceive ==
  /\ c.receiver \in {"got", "err"}
  /\ c' = [c EXCEPT !.receiver = "idle"]
  /\ UNCHANGED <<answered, left>>

Cancel(op) ==
  /\ c' = cancel(c, op)
  /\ Spend("cancel")
  /\ UNCHANGED answered

------------------------------------------------------------------------------
Handlers ==
  \/ OnResolve \/ OnConnect \/ OnGroup \/ OnBackoff
  \/ \E e \in Elem : OnExec(e)
  \/ OnPost \/ OnPing \/ OnCheck
  \/ OnWrite \/ OnRead \/ OnSend

\* What the environment does in the end: it resolves, connects, writes and
\* answers, or fails to, and timers expire.
DueEvents ==
  \/ \E ok \in BOOLEAN : ResolveEnd(ok) \/ ConnectEnd(ok) \/ WriteEnd(ok)
  \/ \E end \in {"done", "bad"} : ReadReply(end)
  \/ PingTimer \/ CheckTimer

Environment == DueEvents \/ ReadEnd \/ ReadPush

Users ==
  \/ Run
  \/ \E e \in User : Exec(e) \/ CancelExec(e)
  \/ Receive \/ OnReceive
  \/ \E op \in Cancels : Cancel(op)

\* An exception that leaves a handler leaves io_context::run, too.
Next == ~c.thrown /\ (Handlers \/ Environment \/ Users)

Spec == Init /\ [][Next]_vars

(***************************************************************************)
(* Fairness.  io_context runs every queued handler.  Resolving, connecting *)
(* and the handshake have timeouts, and timers expire.  A write ends; the  *)
(* server answers what it is asked; the user receives in a loop.           *)
(***************************************************************************)
FairHandlers ==
  /\ WF_vars(~c.thrown /\ OnResolve) /\ WF_vars(~c.thrown /\ OnConnect)
  /\ WF_vars(~c.thrown /\ OnGroup)   /\ WF_vars(~c.thrown /\ OnBackoff)
  /\ WF_vars(~c.thrown /\ OnPost)    /\ WF_vars(~c.thrown /\ OnPing)
  /\ WF_vars(~c.thrown /\ OnCheck)   /\ WF_vars(~c.thrown /\ OnWrite)
  /\ WF_vars(~c.thrown /\ OnRead)    /\ WF_vars(~c.thrown /\ OnSend)
  /\ \A e \in Elem : WF_vars(~c.thrown /\ OnExec(e))

FairEnvironment ==
  /\ WF_vars(~c.thrown /\ \E ok \in BOOLEAN : ResolveEnd(ok))
  /\ WF_vars(~c.thrown /\ \E ok \in BOOLEAN : ConnectEnd(ok))
  /\ WF_vars(~c.thrown /\ \E ok \in BOOLEAN : WriteEnd(ok))
  /\ WF_vars(~c.thrown /\ \E end \in {"done", "bad"} : ReadReply(end))
  /\ WF_vars(~c.thrown /\ PingTimer) /\ WF_vars(~c.thrown /\ CheckTimer)

FairReceiver == WF_vars(~c.thrown /\ Receive) /\ WF_vars(~c.thrown /\ OnReceive)

FairSpec == Spec /\ FairHandlers /\ FairEnvironment /\ FairReceiver

(***************************************************************************)
(* A weaker assumption, enough where no timer keeps the system busy: while *)
(* a handler is queued or an event is due, one of them takes place.        *)
(***************************************************************************)
ProgressSpec ==
  Spec /\ WF_vars(~c.thrown /\ (Handlers \/ DueEvents \/ Receive \/ OnReceive))

------------------------------------------------------------------------------
(***************************************************************************)
(* The first request that is written on a connection is its HELLO,         *)
(* whatever was queued before the connection was up: run_op starts         *)
(* hello_op before writer_op, and HELLO has priority.                      *)
(***************************************************************************)
HelloFirst == c.sent # << >> => Head(c.sent) \in Hello

(***************************************************************************)
(* The writer does not sleep through work: writer_timer_ is used as a      *)
(* condition variable, its cancel() is lost if nobody waits, and           *)
(* trigger_write skips it while a write is outstanding.                    *)
(***************************************************************************)
NoLostWakeup ==
  c.run = "group" /\ c.open /\ c.writer = "timer" => to_stage(c.mpx) = << >>

(***************************************************************************)
(* Both partition_point searches find an ordered queue, and an async_exec  *)
(* that is pending has its elem in the queue or its notification on the    *)
(* way, under every schedule of the operations that share the queue.       *)
(***************************************************************************)
QueueSound ==
  /\ Ordered(c.mpx)
  /\ Distinct(c.mpx)
  /\ \A e \in Elem : c.exec[e] = "wait" => e \in Queued(c.mpx) \cup c.mpx.done

(***************************************************************************)
(* Nothing counts as sent between two connections: whichever operation     *)
(* ended the old one, its requests were cancelled or are to be sent again. *)
(***************************************************************************)
BetweenConnections ==
  c.run \notin {"group", "done"} => \A e \in Queued(c.mpx) : is_waiting(c.mpx, e)

(***************************************************************************)
(* The parallel group's books are right: an operation counts as running    *)
(* exactly while something that it started is pending, so no operation of  *)
(* one connection is left when run_op resets the stream for the next.      *)
(***************************************************************************)
Pending(o) ==
  CASE o = "hello"  -> \E e \in Hello : c.exec[e] = "wait"
    [] o = "ping"   -> c.ping # "off"
    [] o = "check"  -> c.check # "off"
    [] o = "reader" -> c.reader # "off"
    [] o = "writer" -> c.writer # "off"

GroupSound == \A o \in Op : Pending(o) <=> c.run = "group" /\ c.group[o] = "on"

(***************************************************************************)
(* A reply is handed to the request that it answers, and no reply is taken *)
(* for a push: the reader matches by position in the queue alone, while    *)
(* requests are added, cancelled, written and sent again around it.        *)
(***************************************************************************)
Matching ==
  c.reader = "read_ok" /\ c.open /\ c.mpx.read_buffer[1].type = "reply" =>
    LET part == c.mpx.read_buffer[1]
        f    == Head(c.mpx.reqs)
    IN  /\ ~is_next_push(c.mpx)
        /\ c.sent[part.q] = f
        /\ part.j = Expected[f] - c.mpx.remaining[f] + 1

------------------------------------------------------------------------------
\* Every elem in the queue waits to be sent.
AllWaiting(m) == \A e \in Queued(m) : is_waiting(m, e)

(***************************************************************************)
(* The inductive invariant behind QueueSound, NoLostWakeup, HelloFirst,    *)
(* BetweenConnections and GroupSound.  It adds what the handlers rely on   *)
(* silently: an elem that was not used is neither queued nor sent; a read  *)
(* that succeeded left something to parse; a writer that sleeps or was     *)
(* woken has nothing outstanding; a closed connection has cancelled its    *)
(* requests unless its reader is about to, and the reader, which always    *)
(* cancels before it ends, is among those the group waits for.             *)
(***************************************************************************)
ConnInv ==
  /\ TypeOK /\ QueueSound /\ GroupSound
  /\ \A e \in Elem : c.exec[e] = "idle" => is_waiting(c.mpx, e) /\ e \notin Queued(c.mpx)
  /\ \A e, f \in Hello : c.exec[e] = "wait" /\ c.exec[f] = "wait" => e = f
  /\ \A e, f \in Ping : c.exec[e] = "wait" /\ c.exec[f] = "wait" => e = f
  /\ \A e \in Ping : c.exec[e] = "wait" => c.ping = "exec"
  /\ c.run = "connect_ok" => MayConnect
  /\ c.ping = "sleep_ok" => Fresh(c, Ping) # {}
  /\ c.mpx.parsed <= Len(c.mpx.read_buffer)
  /\ c.reader = "read_ok" => c.mpx.parsed < Len(c.mpx.read_buffer)
  /\ c.writer \in {"timer", "woken"} => ~is_writing(c.mpx)
  /\ NoLostWakeup
  /\ c.run = "group" => c.sent # << >>
  /\ HelloFirst
  /\ c.run # "group" => AllWaiting(c.mpx)
  /\ c.run = "group" /\ c.mpx.cancel_run_called => ~c.open /\ AllWaiting(c.mpx)
  /\ c.run = "group" /\ ~c.open => c.mpx.cancel_run_called \/ c.reader = "read_err"
  /\ c.run = "group" /\ c.reader = "off" => c.mpx.cancel_run_called

------------------------------------------------------------------------------
\* Where the async_exec of each request of the user stands.
exec_phase ==
  [e \in User |->
     CASE c.exec[e] = "idle" -> "idle"
       [] c.exec[e] = "ok" -> "ok"
       [] c.exec[e] \in {"error", "aborted", "not_connected"} -> "failed"
       [] c.exec[e] = "wait" ->
            IF c.mpx.ec[e] # "none" THEN "failed"
            ELSE IF e \in c.mpx.done THEN "replied"
            ELSE IF is_waiting(c.mpx, e) THEN "queued" ELSE "sent"]

Service == INSTANCE ExecService WITH
  Request <- User, Retried <- User \ CancelIfUnresponded, phase <- exec_phase

(***************************************************************************)
(* The connection implements the contract of async_exec, down to the       *)
(* handler of the caller: one completion per call, no request sent twice   *)
(* unless it may be, nothing left as sent when a connection is torn down,  *)
(* whichever of the concurrent operations notices first.                   *)
(***************************************************************************)
ExecContract == Service!Spec

------------------------------------------------------------------------------
(***************************************************************************)
(* A lost connection is given up: when the socket is closed under the      *)
(* group, all five operations end and run_op goes on, to reconnect or to   *)
(* complete.                                                               *)
(***************************************************************************)
LostConnectionLeft == (c.run = "group" /\ ~c.open) ~> (c.run # "group")

(***************************************************************************)
(* Every async_exec completes, by an answer or by an error, unless         *)
(* async_run has completed: then the requests wait for it to be called     *)
(* again.                                                                  *)
(***************************************************************************)
ExecCompletes ==
  \A e \in User : c.exec[e] = "wait" ~> (c.exec[e] # "wait" \/ c.run \in {"idle", "done"})

(***************************************************************************)
(* A connection that was lost after its handshake is replaced, if nothing  *)
(* else fails and the user cancels neither async_run nor an async_exec:    *)
(* all operations end, run_op waits, resets the stream and connects again. *)
(***************************************************************************)
ConnectionReplaced ==
  /\ c.run = "group" /\ ~c.open /\ c.reconnect /\ c.group["hello"] = "ok"
  /\ left.loss = 0 /\ Fresh(c, Hello) # {}
  ~> (c.run = "group" /\ c.open) \/ ~c.reconnect \/ c.signal # {}

(***************************************************************************)
(* cancel(operation::all) ends async_run if it meets an established        *)
(* connection, whatever the five operations of the group are doing.        *)
(***************************************************************************)
CancelledRunEnds ==
  (c.run = "group" /\ ~c.open /\ ~c.reconnect) ~> (c.run = "done")

(***************************************************************************)
(* cancel(operation::all) cancels async_run: with no other cancel() in     *)
(* use, reconnection is disabled exactly when it has been called.          *)
(***************************************************************************)
CancelAllStops == (~c.reconnect /\ c.run # "idle") ~> (c.run = "done")

(***************************************************************************)
(* With reconnection enabled, async_run completes only if no connection    *)
(* was ever up or the server rejected HELLO: a connection lost for any     *)
(* other reason is replaced.                                               *)
(***************************************************************************)
KeepsReconnecting ==
  c.run = "done" /\ c.reconnect => c.first = "none" \/ c.group["hello"] = "resp3_hello"

(***************************************************************************)
(* A server that does not answer a health-check in time is disconnected    *)
(* and a new connection is established.                                    *)
(***************************************************************************)
PongTimeoutReconnects ==
  c.run = "done" /\ c.reconnect => c.group["check"] # "pong_timeout"

(***************************************************************************)
(* A rejected HELLO ends async_run, which is what hello_op completes with  *)
(* an error for.                                                           *)
(***************************************************************************)
HelloErrorEnds == c.run \in {"backoff", "resolve"} => c.group["hello"] # "resp3_hello"

\* At most one HELLO has been sent: async_run has connected once.
FirstConnection == \A e, f \in Hello \ Fresh(c, Hello) : e = f

(***************************************************************************)
(* With health checks on, and unless the network fails or the user         *)
(* cancels, a rejected HELLO ends async_run, except where an operation of  *)
(* the group has completed without an error before hello_op, whose own     *)
(* error is then lost in the order of completions.  That is only           *)
(* check_timeout_op, when PING has been rejected as well, or ping_op, when *)
(* it finds checker_has_exited_ as the connection before has left it.      *)
(***************************************************************************)
RejectedHelloEnds ==
  /\ HealthCheck /\ left.loss = MaxLoss /\ left.cancel = MaxCancel
  /\ c.run = "backoff" /\ c.group["hello"] = "resp3_hello"
  => \/ c.first = "check" /\ c.group["check"] = "ok" /\ c.resp = "error"
     \/ c.first = "ping" /\ c.group["ping"] = "ok" /\ ~FirstConnection

(***************************************************************************)
(* Until an operation of the group fails, the checker waits for PONGs only *)
(* while ping_op is there to send PINGs: the two share resp_, their timers *)
(* and checker_has_exited_, and either may leave its loop.  The exception  *)
(* is a connection on which ping_op, finding checker_has_exited_ as the    *)
(* connection before has left it, sends no PING at all; one that has been  *)
(* pinged is not left unpinged.                                            *)
(***************************************************************************)
PingedThroughout ==
  /\ c.run = "group" /\ c.check # "off"
  /\ \A o \in Op : c.group[o] \in {"on", "ok"}
  => \/ c.ping # "off"
     \/ /\ c.first = "ping" /\ ~FirstConnection
        /\ \A i \in 1..Len(c.sent) : c.sent[i] \notin Ping

(***************************************************************************)
(* While the checker watches an open connection there is somebody to send  *)
(* the PINGs it waits for.                                                 *)
(***************************************************************************)
CheckedIsPinged ==
  c.run = "group" /\ c.open /\ c.check = "timer" => c.ping # "off"

(***************************************************************************)
(* No exception leaves a handler of the connection.                        *)
(***************************************************************************)
NothingThrown == ~c.thrown
==============================================================================
