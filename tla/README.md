# A TLA+ model of Boost.Redis

This directory specifies the client library under `src/include/boost/redis`: the
request pipeline, the life of a connection, the RESP3 parser, the response
adapters, the serialisation of requests, and a client that subscribes. The
modules are checked by TLC on small instances. The safety of the pipeline's queue
and of the whole connection, and that the pipeline keeps the contract of
`async_exec`, are also proved, for every number of requests and connections.
`PROJECT.json` lists components, runs, the map from every
definition to its source lines, hazards, findings and theorems.

## The system

A `basic_connection` owns one stream to a Redis server. All its handlers run on
one executor; concurrency means that suspended operations resume in any order,
and that a completion that is already queued is not affected by a later
`cancel()` or `close()`.

| Part | State | Operations | Talks to |
|---|---|---|---|
| `multiplexer` | queue `reqs_` (waiting, staged, written), write and read buffer, parser, `on_push_`, `cancel_run_called_` | `add`, `remove`, `prepare_write`, `commit_write`, `commit_read`, `cancel_waiting`, `cancel_on_conn_lost`, `reset` | called by the operations below |
| `exec_op` | an elem: responses remaining, error, adapter | add and notify the writer; wait; honour cancellation | multiplexer, writer |
| `writer_op`, `reader_op` | coroutine position | stage, write, commit; read, parse, deliver | stream, multiplexer, receive channel |
| `run_op` | coroutine position, `reconnect_wait_interval` | resolve, connect, parallel group of five operations, back off, repeat | everything |
| health checker | two timers, `resp_`, `checker_has_exited_` | `ping_op`, `check_timeout_op` | `async_exec`, `cancel(run)` |
| handshaker | `hello_req_`, `hello_resp_` | `hello_op`, `push_hello` | `async_exec`, `cancel(run)` |
| receive channel | buffered pushes (256) | send, receive, cancel | reader, user |
| `receiver()` of `cpp20_subscriber.cpp` | coroutine position | subscribe, receive until an error, subscribe again | `async_exec`, `receive`, `async_receive` |
| resolver, connector | pending operation | end, time out, cancel | `run_op` |
| parser | depth, stack of sizes, bulk length and type, bytes consumed | `consume`, `commit_elem`, `reset` | reader, adapters |
| adapters | response object, position | one call per node; `consume_one` | parser, user |
| request | payload, counters | `push`, `push_range`, `clear` | user, handshaker |
| logger, config, errors, `runner.hpp`, `write.hpp` | - | - | not modelled |

What makes it hard: replies are matched to requests by their position in the
queue alone, while requests are added, prioritised, cancelled, retried and
released around them; replies may overtake the completion of the write that
caused them; a connection may be lost between any two steps, and five operations
must all notice; a timer serves as a condition variable; every response object
is filled node by node and may see its reply twice.

## Modules

| Module | Models | State and actions |
|---|---|---|
| `StablePartition` | `std::stable_partition` + `erase` | operators on sequences |
| `Multiplexer` | `detail::multiplexer`, a passive object | a record `m`, one operator per member function, with the source's name |
| `Pipeline` | the multiplexer under every order of calls that a connection makes | `mpx`, who has started, what was sent, the server's cursor, adapter calls; actions `Exec` ... `Connect` |
| `Connection` | `basic_connection` with `run_op`, the parallel group, `exec_op`s, the receive channel, `cancel()` | one record `c` with a program counter per operation; one action per handler (`On...`), per environment event and per user call |
| `ExecService` | what `async_exec` promises: the abstract specification that `Pipeline` and `Connection` implement | `phase` of each request; `Call`, `Transfer`, `Finish`, `Cancel`, `Lose` |
| `Subscriber` | the example's `receiver()` on a `Connection`, or a user who receives at will | `sub`, where the coroutine is, beside the state of `Connection` |
| `Resp3Tree` | node types; RESP3 messages as trees, the reference for the next two | operators |
| `Parser` | `resp3::parser` and the growth of the read buffer | parser record, bytes available; `Read`, `Parse` |
| `Adapters` | adapters of all response types, `consume_one` | adapter record, nodes to come; `Adapt`, `Retry`, `ConsumeOne` |
| `Request` | `request`, serialisation, `push_hello` | payload as headers and bulks; `Push`, `PushRange`, `Clear`, `Configure`, `AddHello` |
| `MC...` | instances for TLC | constants only |
| `PartitionLemmas`, `MultiplexerLemmas`, `PipelineProofs`, `ContractProofs` | proofs about `Pipeline` | see below |
| `ConnectionLemmas`, `ConnectionSound`, `ConnectionProofs` | proofs about `Connection` | see below |

`Connection` and `Pipeline` both use the operators of `Multiplexer`. A handler of
`Connection` makes several multiplexer calls in one step (a failed read cancels
the run, a completed write stages the next one), so a step of `Connection` is not
one of `Pipeline`; the invariants of the queue are therefore stated on both, and
both are shown to implement `ExecService`, through the operator `exec_phase`.
`Pipeline` is more general in the messages (parts, pushes between parts, several
messages in the buffer), `Connection` in the operations around it (a read brings
one whole message there).

Conventions: a program counter that ends in `_ok` or `_err`, or is `woken`,
stands for a completion that is queued; a cancellation changes an operation only
while it is pending. `sent` is a history of what was handed to `async_write` on
the current connection, and a reply carries the position in `sent` of the request
that it answers, so that properties can tell whether it was matched correctly;
the code never sees it. Definitions that a comment calls "Mutant of" another are
faulty variants of it, used only to see that the properties notice them; the list
is in `PROJECT.json`.

## Runs that pass

| Run | Shows | Distinct states |
|---|---|---|
| `MCPipelineReconnect` | two connections, replies before the write completes, a push, a HELLO, a request of two commands and a retried one: queue ordered, nothing forgotten, no call notified twice, replies matched and adapted once and in order; `QueueInv`; implements `ExecService` | 1,120,270 |
| `MCPipelineSubscribe` | a request without responses between others, messages in parts, two connections: released when written, the others matched around it, completed requests out of the queue; order of requests that were handed to the writer | 1,344,255 |
| `MCConnectionExec` | requests at any time, two `async_run`, every `cancel()`: HELLO first, no lost wake-up, no forgotten request, replies matched; `ConnInv`; implements `ExecService` | 683,911 |
| `MCConnectionHealth` | health checks, loss, up to two error replies (HELLO and PING may both be rejected), cancellation: no operation outlives its connection; a rejected HELLO ends `async_run`, unless `check_timeout_op` or `ping_op` has completed without an error before `hello_op`; a connection that has been pinged is pinged for as long as PONGs are waited for | 2,416,097 |
| `MCConnectionLiveness` | a lost connection is given up, and replaced if resolving and connecting succeed; every `async_exec` completes; `cancel(all)` ends an established connection and `async_run` | 171,019 |
| `MCConnectionReceive` (module `MCSubscriber`) | `receiver()` or a user who receives at will, pushes through a channel of one place, `cancel(run)`, which closes a connection, and `cancel(receive)`, which makes a blocked reader close it, two connections: bounded, delivered; every closed connection is noticed, and who waits for pushes has subscribed on this connection | 173,856 |
| `MCParser` | every type alone and in aggregates, trees of arrays, maps and attributes up to one level too deep, every bad header, every fragmentation: nodes, errors and requests for data are exact | 45,848 |
| `MCAdapters` | every adapter on single values and flat aggregates, and on nested ones where it refuses them: the response is the reply, or the error for its shape; generic responses, `ignore` and `consume_one` | 27,187 |
| `MCRequest` | every sequence of up to three commands, ranges of strings and pairs, `clear`, `hello_with_priority` on or off: payload, counters and priority | 207,562 |

**Bounds.** Three requests are enough for a request in front, one affected and
one behind, and cover the kinds that the code distinguishes: priority, one, two
or no responses, retried or not. Two connections cover everything that one can
leave to the next, as `reset` runs between them. The constants `MaxPush`,
`MaxBad`, `MaxConn`, `MaxRun`, `MaxLoss`, `MaxError` and `MaxCancel` bound the
events of the environment; `Hello` and `Ping` hold one elem per handshake and
PING, and so bound connections and PINGs. The receive channel has one place
instead of 256. The parser's nesting limit is 2 instead of 5 (it is a constant of
the algorithm), lengths are up to 2 bytes and the growth hint 3 bytes, so that
every message is cut at every place. `std::array` has two elements. Deadlock is
not checked in `Connection`, which may stop when `async_run` has completed, nor
where the input is finite (`Parser`, `Adapters`); it is in all others.

**Fairness** (liveness runs only). Handlers: `io_context` runs what is queued.
Resolving, connecting and the handshake: `cancel_after` bounds them. Timers
expire. A write ends, and the server answers what it was sent, unless the
connection is lost first; this is an assumption on the environment, without which
no `async_exec` could be promised to complete. `ProgressSpec` asks for no more than
that, as long as any of these steps is possible, one of them is taken (one weak
fairness condition for all of them: `DueEvents` and `Handlers`), which every fair
scheduler satisfies; `FairSpec` has one condition per step, for the
counterexamples. `SubSpec` counts the steps of `receiver()`, or of a user who
receives in a loop as the documentation of `async_receive` shows, among the
handlers. Losses, pushes, errors, cancellations and new requests are never forced.

Handlers run in any order in `Connection`, more orders than the queue of an
`io_context` allows: an `exec_op` that was cancelled may resume after the next
connection is up, and close it. `ConnectionReplaced` therefore makes an exception
for cancelled calls. Where the order matters to a property that the code keeps,
it is stated: `Subscriber!ReceiverFirst` lets `receiver()` handle what was queued
for it before the completion of the parallel group, which is queued later.

## Where the code disagrees with what is said of it

Each configuration checks one statement of the documentation, a comment or a
test against the code; TLC gives a behaviour that violates it. The first three
are runs of `PROJECT.json`, whose findings quote the lines:

| Configuration | Property | The code |
|---|---|---|
| `MCPipelineRetry` | `AdapterExact` | re-sends a partly answered request but keeps its old response counter (`multiplexer.ipp:217`) |
| `MCPipelineEarlySubscribe` | `Matching` | takes a reply for a push while a request without responses is staged in front (`multiplexer.ipp:267`) |
| `MCConnectionHang` | `LostConnectionLeft` | never leaves the parallel group if the connection is lost when the ping timer has just expired (`health_checker.hpp:54`) |

The others are kept as reproductions and are not in the list of runs. To see one:
`tlc -config <configuration>.cfg <module>`.

| Configuration | Property | The code |
|---|---|---|
| `MCPipelineRetryCompleted` | `CompletedNotQueued` | keeps and re-sends a retried request whose `async_exec` has completed with an error (`multiplexer.ipp:120`); `request.hpp:62` says only that it is not cancelled |
| `MCConnectionCancelAll` | `CancelAllStops` | stays connected after `cancel(all)` if the resolver's or the connect's completion was queued (`connection.hpp:719`); `connection.hpp:701` says that it cancels `async_run` |
| `MCConnectionGivesUp` | `KeepsReconnecting` | ends `async_run` when one reconnection attempt fails (`connection.hpp:366`); `connection.hpp:544` says that a new connection is established |
| `MCConnectionPongTimeout` | `PongTimeoutReconnects` | ends `async_run` on a pong timeout (`connection.hpp:429`); `connection.hpp:535` says that a new connection is established |
| `MCConnectionHelloError` | `HelloErrorEnds` | reconnects after a rejected HELLO if health checks are disabled (`connection.hpp:424`); `resp3_handshaker.hpp:28` says that the group exits for it |
| `MCConnectionHelloPing` | `HelloErrorEnds` | with health checks on, reconnects after a rejected HELLO if PING is rejected as well and `wait_timer_` expires before `hello_op` resumes: `check_timeout_op` then completes first, without an error (`health_checker.hpp:108`) |
| `MCConnectionUnpinged` | `CheckedIsPinged` | sends no PING on the connection after a pong timeout (`health_checker.hpp:48`); `connection.hpp:531` says that they are sent at intervals |
| `MCConnectionThrow` | `NothingThrown` | throws out of the reader after an error reply to PING (`adapters.hpp:163`) |
| `MCAdaptersGeneric` | `AnyReplyReceived` | throws on an error inside an aggregate in a `generic_response` (`adapters.hpp:163`), which can receive any response according to the repository's `README.md:367` |
| `MCAdaptersOptional` | `OptionalSame` | treats an error inside an aggregate differently under `std::optional` (`adapters.hpp:525`); `README.md:294` says that everything else stays the same |
| `MCAdaptersTuple` | `TupleInBounds` | runs past the elements of a tuple on doubly nested aggregates (`result_traits.hpp:124`) |
| `MCAdaptersNested` | `NestedRefused` | flattens an aggregate with nested ones into a vector, list, set or map without an error (`adapters.hpp:300`); `README.md:342` says that it can't be read in STL containers, and only `std::array` refuses it |
| `MCAdaptersRetry` | `WrapperExact` | adds a retried reply to the part already received (`adapters.hpp:302`), or reads it as a nested one (`std::array`) or a value as a key (maps); only a set comes out right |
| `MCAdaptersDepth` | `TupleExact` | accepts a simple element as a set, map or list inside a tuple (`adapters.hpp:240`) |
| `MCRequestTuple` | `PayloadExact` | announces too few bulks for a range of tuples (`serialization.hpp:95`), as the comment in `serialization.hpp:19` knows |
| `MCRequestPunsubscribe` | `ExpectedExact` | waits for a response to PUNSUBSCRIBE (`request.ipp:13`) |
| `MCRequestHello` | `AuthComplete` | authenticates with an empty username (`resp3_handshaker.ipp:17`); `config.hpp:37` says that it does not |

The passing runs leave out the inputs of these cases: a retried request has one
command, and its reply comes in one part; `EarlyReply` is off where a request
without responses is present; `CompletedNotQueued` is checked without retried
requests, and `LostConnectionLeft` without health checks; `RejectedHelloEnds` and `PingedThroughout`
name the cases of `MCConnectionHelloPing` and `MCConnectionUnpinged` as their
exceptions; `CancelledRunEnds` is stated for an established connection, and `ConnectionReplaced` for one attempt that succeeds; `TupleExact` and
`WrapperExact` without errors inside aggregates and, for the containers that
flatten them, without nested aggregates, and only a set is retried (see also
`Fits` and `AtDepthOne` in `MCAdapters`); `Request` without ranges of tuples and PUNSUBSCRIBE.

Two more outcomes are stated by the passing properties as the code has them. The
header of a bulk that has no length (`$`, `!` or `=` and the separator) has no error
code: `elem.at(0)` (`parser.ipp:128`) throws out of `consume`, which is `noexcept`, and
the process ends. `Parser` models this as `ec = "terminated"`, after which there is no
step, and `ErrorExact` says that it happens for such a header and for no other
input; other empty or malformed headers are rejected with an error code. And
`consume_one` refuses a response whose first node is not a root
(`incompatible_node_depth`); `GenericExact` says that a response that is filled and
consumed message by message never is one.

## Proofs

### The pipeline

For all constants that satisfy `Multiplexer`'s and `Pipeline`'s assumptions (any
set of elems, any flags, any number of responses, any bounds):

- `QueueInvHolds`: `Spec => []QueueInv`, the inductive invariant;
- `TypeCorrect`, `QueueOrderedHolds`, `PendingQueuedHolds`, `DownAllWaitingHolds`:
  its parts that are properties of the runs;
- `NotifiedSoundHolds`: no `async_exec` is notified twice;
- `ContractHolds`: `Spec => ExecContract`, the pipeline implements `ExecService`.

`QueueOrdered`, `PendingQueued` and `DownAllWaiting` are not inductive. That a
lost connection leaves only waiting requests needs the guard
`cancel_run_called` (against a second call, issue 181) to be open while a
connection is up, as `cancel_on_conn_lost` returns early otherwise; that `Exec` keeps the
order needs an elem that has not started to be waiting and not queued. `QueueInv`
adds these facts. TLC checks it as an invariant of `MCPipelineReconnect`.

The argument: `PartitionLemmas` shows that `Kept` (stable partition and erase) is
a subsequence with the elements it should have, in order and without repetition.
`MultiplexerLemmas` has one lemma per operation of the multiplexer: if the queue is
ordered and distinct before it is so after, and which elems are in it. They rest on
`partition_point` being well defined for ordered queues. `PipelineProofs` has one
lemma per action of `Pipeline`, and combines them.

The refinement maps a request to a phase (`exec_phase`) by its status in the
queue, its notification and its error. `ContractProofs` first shows how each
operation of the multiplexer changes status, notifications and errors; from
`QueueInv` and `NotifiedSound` it follows for each action of `Pipeline` that the
phases make one step of `ExecService` or none. The hard one is the loss of a
connection (`Lose`), which must leave no request as sent: each has failed or is
queued again, the latter only if `cancel_if_unresponded` is off.

### The connection

For any sets of requests of the user, HELLOs and PINGs, any subset of the
operations that can be cancelled, health checks on or off, any capacity and any
bounds on the events of the environment:

- `ConnectionSafe`: `Spec => []ConnInv`, the inductive invariant;
- `QueueSoundHolds`, `NoLostWakeupHolds`, `HelloFirstHolds`, `GroupSoundHolds`,
  `BetweenConnectionsHolds`: its consequences that are properties of the runs.

None of the five is inductive. Between connections all requests wait because every
way to leave the group passes through `cancel_on_conn_lost`; the operation that
always calls it is the reader, so `ConnInv` says that a reader that has ended has
cancelled, and that a closed connection has cancelled or its reader is about to.
`NoLostWakeup` needs the writer that sleeps, or was woken, to have nothing
outstanding. `HelloFirst` needs the HELLO of a connection to be a fresh elem that
is rotated in front of all that waits, and everything to wait when it is added.
`GroupSound` needs at most one HELLO and one PING to be pending, the PING only
while `ping_op` waits for it.

The argument: `ConnectionLemmas` says what each helper (`close`, `cancel_run`,
`complete`, `start_exec`, ...) changes and, in the relation `Softer`, that a
cancellation only ever moves an operation from pending to a queued completion.
`ConnectionSound` splits the invariant into predicates of the few fields that each
of them is about, and defines `SoundBut(d, X)`: `d` satisfies the invariant except
for the books of the operations in `X`. A handler makes several calls, and the
operation that it runs is neither pending nor completed in between; each call is
shown to take `SoundBut(d, X)` to `SoundBut(n, Y)`. `ConnectionProofs` chains them,
one lemma per action, and combines the lemmas in `NextSound`.

### Only model-checked

`Matching`, `AdapterExact`, `CompletedNotQueued` and `NoOvertaking`; that `Connection`
implements `ExecService`; the properties of `Subscriber`; `RejectedHelloEnds` and
`PingedThroughout`; all of `Parser`, `Adapters` and `Request`. Liveness is beyond the
prover; what the recursive definitions of the parser and of the trees compute
cannot be proved by induction with the available back ends.

## Not modelled

- Time: a timer may expire whenever it is set. No statement on delays is made.
- Partial writes and SSL: a write ends or fails as a whole; the SSL handshake is
  part of connecting.
- Contents: values of simple types are abstract; conversion to numbers succeeds or
  fails; `bool`, `double` and user-defined conversions are left out.
- Streamed strings inside containers (each part becomes an element) and at the
  nesting limit (the size stack is indexed without a check there).
- 64-bit wrap-around of lengths in the parser.
- `max_read_size`, usage statistics, logging, the type-erased `connection` and `any_adapter`,
  a configuration that is changed after the first command was pushed, requests with an empty payload, non-terminal cancellation of `async_exec` (ignored
  by the code).
- `runner.hpp` and `write.hpp`, which nothing includes.
- The other examples (`sync_connection.hpp`, the echo server, the sentinel lookup,
  streams, containers): clients that add no protocol of their own to that of the
  connection.

## Plan

Done, in this order: `Multiplexer` and `Pipeline`; `Connection`; `Parser`; `Adapters`;
`Request`; the proof of `QueueInv`; `ExecService`, its refinement by `Pipeline` and
`Connection`, and the proof of the first; the proof of `ConnInv`; `Subscriber`.

Next:

1. Proof of `Matching` for pipelines in which every request expects a response and
   no retried request expects more than one, from the alignment of the queue
   with the end of `sent`.
2. Proof that `Connection` implements `ExecService`, from `ConnInv` and the lemmas of
   `ContractProofs`.
3. Composition of `Parser` and `Adapters`: a reply in fragments, adapted as it is
   parsed, under the reader.
4. Theorems about `Request` (payload and counters), which needs no recursion.
