----------------------------- MODULE Multiplexer -----------------------------
(***************************************************************************)
(* detail::multiplexer: the queue of requests that every async_exec shares *)
(* with the writer and the reader of a connection.  It is a passive object *)
(* without threads or I/O of its own, so its member functions are          *)
(* operators from one multiplexer state (a record m) to the next, and a    *)
(* handler that calls several of them composes the operators.              *)
(*                                                                         *)
(* An elem is the multiplexer::elem of one async_exec call.  Payloads are  *)
(* abstracted to the elem they belong to and byte streams to message       *)
(* parts: a part is what one parser step turns into nodes.                 *)
(***************************************************************************)
EXTENDS Integers, Sequences, FiniteSets, StablePartition

CONSTANTS
  Elem,                    \* the requests, one per call of async_exec
  Expected,                \* request::get_expected_responses() of each
  HelloPriority,           \* those with has_hello_priority()
  CancelOnConnectionLost,  \* request::config::cancel_on_connection_lost
  CancelIfUnresponded      \* request::config::cancel_if_unresponded

ASSUME ExpectedAssumption == Expected \in [Elem -> Nat]

ASSUME ConfigAssumption ==
  /\ HelloPriority \subseteq Elem
  /\ CancelOnConnectionLost \subseteq Elem
  /\ CancelIfUnresponded \subseteq Elem

Status == {"waiting", "staged", "written"}

Error == {"none", "aborted", "bad"}

(***************************************************************************)
(* A part of a message in the read buffer.  type is what its first byte    *)
(* says, p counts the parts of the message and end tells whether the       *)
(* parser needs more after it, is done, or fails on it.  <<q, j>> is not   *)
(* seen by the multiplexer: the reply is the j-th one to the q-th request  *)
(* sent on this connection (for a push: the next reply to come).           *)
(***************************************************************************)
Part == [type: {"reply", "push"}, q: Nat, j: Nat, p: Nat,
         end: {"more", "done", "bad"}]

\* The state of a multiplexer, the elems as their constructor leaves them.
multiplexer ==
  [reqs              |-> << >>,
   status            |-> [e \in Elem |-> "waiting"],
   remaining         |-> Expected,
   ec                |-> [e \in Elem |-> "none"],
   done              |-> {},
   write_buffer      |-> << >>,
   read_buffer       |-> << >>,
   parsed            |-> 0,
   on_push           |-> FALSE,
   cancel_run_called |-> FALSE]

MultiplexerType ==
  [reqs: Seq(Elem), status: [Elem -> Status], remaining: [Elem -> Nat],
   ec: [Elem -> Error], done: SUBSET Elem, write_buffer: Seq(Elem),
   read_buffer: Seq(Part), parsed: Nat, on_push: BOOLEAN,
   cancel_run_called: BOOLEAN]

Queued(m) == {m.reqs[i] : i \in 1..Len(m.reqs)}

is_waiting(m, e) == m.status[e] = "waiting"

is_writing(m) == m.write_buffer # << >>

is_data_needed(m) == m.read_buffer = << >>

\* done_() of a set of elems.
notify_done(m, S) == [m EXCEPT !.done = @ \cup S]

\* The first error an elem is notified of is the one it keeps.
notify_error(m, S, err) ==
  [notify_done(m, S) EXCEPT
     !.ec = [e \in Elem |-> IF e \in S /\ @[e] = "none" THEN err ELSE @[e]]]

\* stable_partition and erase: the elems of S leave the queue.
erase(m, S) == [m EXCEPT !.reqs = Kept(@, Elem \ S)]

\* Written requests come first, then staged ones, then the waiting ones.
Ordered(m) ==
  \A i, k \in 1..Len(m.reqs) : i < k =>
    /\ is_waiting(m, m.reqs[i]) => is_waiting(m, m.reqs[k])
    /\ m.status[m.reqs[i]] = "staged" => m.status[m.reqs[k]] # "written"

\* No elem is queued twice.
Distinct(m) ==
  \A i, k \in 1..Len(m.reqs) : m.reqs[i] = m.reqs[k] => i = k

(***************************************************************************)
(* std::partition_point: how many elems precede the first waiting one.  It *)
(* is a binary search, defined only for a queue that is Ordered.           *)
(***************************************************************************)
partition_point(m) ==
  CHOOSE n \in 0..Len(m.reqs) :
    \A i \in 1..Len(m.reqs) : i <= n <=> ~is_waiting(m, m.reqs[i])

\* Mutant of add: HELLO goes to the front of the whole queue.
add_front(m, e) ==
  [m EXCEPT !.reqs = IF e \in HelloPriority THEN <<e>> \o @ ELSE Append(@, e)]

\* A request with HELLO moves ahead of the requests still waiting.
add(m, e) ==
  LET n == partition_point(m)
  IN  [m EXCEPT !.reqs =
         IF e \in HelloPriority
         THEN SubSeq(@, 1, n) \o <<e>> \o SubSeq(@, n + 1, Len(@))
         ELSE Append(@, e)]

\* Only a waiting elem can be removed; the caller learns whether it was.
remove(m, e) == IF is_waiting(m, e) THEN erase(m, {e}) ELSE m

\* Stages everything from the first waiting elem on.
to_stage(m) == SubSeq(m.reqs, partition_point(m) + 1, Len(m.reqs))

prepare_write(m) ==
  [m EXCEPT
     !.write_buffer = @ \o to_stage(m),
     !.status = [e \in Elem |->
                   IF e \in Queued(m) /\ is_waiting(m, e) THEN "staged" ELSE @[e]]]

\* Mutants of release_push_requests: it notifies what it does not erase, it
\* forgets to ask for Expected = 0, and its partition is not stable (the last
\* request fills the place of the first).
release_in_place(m) ==
  notify_done(m, {e \in Queued(m) : m.status[e] = "written" /\ Expected[e] = 0})

release_all(m) ==
  LET S == {e \in Queued(m) : m.status[e] = "written"}
  IN  erase(notify_done(m, S), S)

release_unstable(m) ==
  LET S == {e \in Queued(m) : m.status[e] = "written" /\ Expected[e] = 0}
      r == erase(notify_done(m, S), S)
  IN  IF S = {} \/ r.reqs = << >> THEN r
      ELSE [r EXCEPT !.reqs = <<@[Len(@)]>> \o SubSeq(@, 1, Len(@) - 1)]

\* A request without responses is done once it is written.
release_push_requests(m) ==
  LET S == {e \in Queued(m) : m.status[e] = "written" /\ Expected[e] = 0}
  IN  erase(notify_done(m, S), S)

commit_write(m) ==
  release_push_requests(
    [m EXCEPT
       !.write_buffer = << >>,
       !.status = [e \in Elem |->
                     IF e \in Queued(m) /\ @[e] = "staged" THEN "written" ELSE @[e]]])

cancel_waiting(m) ==
  LET S == {e \in Queued(m) : is_waiting(m, e)}
  IN  erase(notify_error(m, S, "aborted"), S)

\* Mutant of lost_with_conn: one flag decides for all requests, sent or not.
lost_by_one_flag(m) == Queued(m) \cap CancelOnConnectionLost

\* What a lost connection cancels: unsent and unanswered requests, each
\* according to its own configuration.
lost_with_conn(m) ==
  {e \in Queued(m) : IF is_waiting(m, e) THEN e \in CancelOnConnectionLost
                                         ELSE e \in CancelIfUnresponded}

\* Mutant of cancel_on_conn_lost: requests are dropped without notification.
lose_silently(m) ==
  IF m.cancel_run_called THEN m
  ELSE LET S == lost_with_conn(m)
       IN  [erase(m, S) EXCEPT
              !.cancel_run_called = TRUE,
              !.status = [e \in Elem |->
                            IF e \in Queued(m) \ S THEN "waiting" ELSE @[e]]]

cancel_on_conn_lost(m) ==
  IF m.cancel_run_called THEN m
  ELSE LET S == lost_with_conn(m)
       IN  [erase(notify_error(m, S, "aborted"), S) EXCEPT
              !.cancel_run_called = TRUE,
              !.status = [e \in Elem |->
                            IF e \in Queued(m) \ S THEN "waiting" ELSE @[e]]]

\* Mutant of reset: the guard of cancel_on_conn_lost stays closed.
reset_but_guard(m) ==
  [m EXCEPT !.write_buffer = << >>, !.read_buffer = << >>, !.parsed = 0,
            !.on_push = FALSE]

reset(m) ==
  [m EXCEPT !.write_buffer = << >>, !.read_buffer = << >>, !.parsed = 0,
            !.on_push = FALSE, !.cancel_run_called = FALSE]

\* Mutant of is_next_push, the state before issue 170: a reply that overtakes
\* the completion of its write is a push.
is_next_push_unless_written(m) ==
  \/ m.read_buffer[1].type = "push"
  \/ m.reqs = << >>
  \/ m.remaining[Head(m.reqs)] = 0
  \/ m.status[Head(m.reqs)] # "written"

is_next_push(m) ==
  \/ m.read_buffer[1].type = "push"
  \/ m.reqs = << >>
  \/ m.remaining[Head(m.reqs)] = 0
  \/ is_waiting(m, Head(m.reqs))

\* resp3::parse: the parts it goes through, up to the end of the message,
\* an error, or the end of the buffer.
parse_end(m) ==
  LET Ends == {k \in (m.parsed + 1)..Len(m.read_buffer) :
                 m.read_buffer[k].end # "more"}
  IN  IF Ends = {} THEN Len(m.read_buffer)
      ELSE CHOOSE k \in Ends : \A l \in Ends : k <= l

parse_nodes(m) == SubSeq(m.read_buffer, m.parsed + 1, parse_end(m))

parse_outcome(m) == m.read_buffer[parse_end(m)].end

\* Mutant of on_finish_parsing: the message stays in the read buffer.
finish_without_erase(m) == [m EXCEPT !.on_push = FALSE, !.parsed = 0]

on_finish_parsing(m) ==
  [m EXCEPT !.on_push = FALSE, !.parsed = 0,
            !.read_buffer = SubSeq(@, m.parsed + 1, Len(@))]

\* Mutant of commit_response: off by one, the last response is not awaited.
commit_response_early(m) ==
  LET f == Head(m.reqs)
      n == [m EXCEPT !.remaining[f] = @ - 1]
  IN  IF n.remaining[f] <= 1 THEN [notify_done(n, {f}) EXCEPT !.reqs = Tail(@)]
                             ELSE n

\* Mutant of commit_response: the request stays in the queue.
commit_response_stays(m) ==
  LET f == Head(m.reqs)
      n == [m EXCEPT !.remaining[f] = @ - 1]
  IN  IF n.remaining[f] = 0 THEN notify_done(n, {f}) ELSE n

\* One response of the request in front is complete.
commit_response(m) ==
  LET f == Head(m.reqs)
      n == [m EXCEPT !.remaining[f] = @ - 1]
  IN  IF n.remaining[f] = 0 THEN [notify_done(n, {f}) EXCEPT !.reqs = Tail(@)]
                            ELSE n

commit_read(m) ==
  LET push == m.on_push \/ is_next_push(m)
      n    == [m EXCEPT !.parsed = parse_end(m), !.on_push = push]
      out  == parse_outcome(m)
  IN  CASE out = "more" -> n
        [] out = "done" -> on_finish_parsing(IF push THEN n ELSE commit_response(n))
        [] out = "bad"  -> IF push THEN n
                           ELSE notify_error(n, {Head(n.reqs)}, "bad")
==============================================================================
