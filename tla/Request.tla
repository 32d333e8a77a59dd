------------------------------- MODULE Request -------------------------------
(***************************************************************************)
(* class request: commands are serialised into one payload as they are     *)
(* pushed, and counted, because async_exec waits for as many responses.    *)
(* push_hello fills the request of the handshake from the configuration.   *)
(*                                                                         *)
(* The payload is a sequence of headers and bulks; a bulk is its word.     *)
(***************************************************************************)
EXTENDS Integers, Sequences, FiniteSets

LOCAL INSTANCE SequencesExt

CONSTANTS
  Cmd,         \* the commands that are pushed
  Kind,        \* value types of ranges: "string", "pair", "tuple"
  Config,      \* the configurations of the handshake
  MaxArgs,     \* arguments of a command, elements of a range
  MaxCommands

ASSUME RequestAssumption == MaxArgs \in Nat /\ MaxCommands \in Nat

VARIABLES
  req,   \* the request
  cmds   \* history: the commands pushed since clear, as lists of words

vars == <<req, cmds>>

\* A request is constructed with its config, of which this flag matters here.
request(hello_with_priority) ==
  [payload |-> << >>, commands |-> 0, expected_responses |-> 0,
   has_hello_priority |-> FALSE, hello_with_priority |-> hello_with_priority]

Header(n) == <<[t |-> "array", n |-> n, v |-> "none"]>>
Bulks(words) == [i \in 1..Len(words) |-> [t |-> "blob_string", n |-> 0, v |-> words[i]]]

add_header(r, n) == [r EXCEPT !.payload = @ \o Header(n)]
add_bulk(r, words) == [r EXCEPT !.payload = @ \o Bulks(words)]

\* An element of a range is one word, two if a pair, three if a tuple of three.
Words(kind) == CASE kind = "string" -> <<"x">>
                 [] kind = "pair"   -> <<"x", "y">>
                 [] kind = "tuple"  -> <<"x", "y", "z">>

\* Mutant of bulk_counter: a pair is one bulk.
bulk_counter_one(kind) == 1

bulk_counter(kind) == IF kind = "pair" THEN 2 ELSE 1

\* Mutant of has_response: UNSUBSCRIBE is forgotten.
has_response_but(cmd) == cmd \in {"SUBSCRIBE", "PSUBSCRIBE"}

\* True of the commands that are answered by pushes (the name is the code's).
has_response(cmd) == cmd \in {"SUBSCRIBE", "PSUBSCRIBE", "UNSUBSCRIBE"}

check_cmd(r, cmd) ==
  [r EXCEPT !.commands = @ + 1,
            !.expected_responses = @ + IF has_response(cmd) THEN 0 ELSE 1,
            !.has_hello_priority = IF cmd = "HELLO" THEN r.hello_with_priority ELSE @]

push(r, cmd, args) ==
  check_cmd(add_bulk(add_bulk(add_header(r, 1 + Len(args)), <<cmd>>), args), cmd)

\* Both overloads: with a key and without.
push_range(r, cmd, key, kind, distance) ==
  IF distance = 0 THEN r
  ELSE LET h == add_header(r, 1 + Len(key) + bulk_counter(kind) * distance)
           words == FlattenSeq([i \in 1..distance |-> Words(kind)])
       IN  check_cmd(add_bulk(add_bulk(h, <<cmd>> \o key), words), cmd)

\* Mutant of clear: the priority of the last use stays.
clear_but_priority(r) ==
  [request(r.hello_with_priority) EXCEPT !.has_hello_priority = r.has_hello_priority]

\* The config is kept.
clear(r) == request(r.hello_with_priority)

\* The words of HELLO; an empty field of the configuration is "".
hello_words(c) ==
  IF c.username # "" /\ c.password # "" /\ c.clientname # ""
  THEN <<"3", "AUTH", c.username, c.password, "SETNAME", c.clientname>>
  ELSE IF c.password = "" /\ c.clientname = "" THEN <<"3">>
  ELSE IF c.clientname = "" THEN <<"3", "AUTH", c.username, c.password>>
  ELSE <<"3", "SETNAME", c.clientname>>

push_hello(r, c) ==
  LET h == push(r, "HELLO", hello_words(c))
  IN  IF c.select THEN push(h, "SELECT", <<"1">>) ELSE h

------------------------------------------------------------------------------
Init == req \in {request(p) : p \in BOOLEAN} /\ cmds = << >>

Push(cmd, n) ==
  /\ Len(cmds) < MaxCommands
  /\ LET args == [i \in 1..n |-> "x"]
     IN  req' = push(req, cmd, args) /\ cmds' = Append(cmds, <<cmd>> \o args)

PushRange(cmd, key, kind, n) ==
  /\ Len(cmds) < MaxCommands
  /\ req' = push_range(req, cmd, key, kind, n)
  /\ cmds' = IF n = 0 THEN cmds
             ELSE Append(cmds, <<cmd>> \o key \o FlattenSeq([i \in 1..n |-> Words(kind)]))

Clear == req' = clear(req) /\ cmds' = << >>

\* get_config(): the config is changed before the first command is pushed.
Configure(p) ==
  /\ cmds = << >>
  /\ req' = [req EXCEPT !.hello_with_priority = p]
  /\ UNCHANGED cmds

\* resp3_handshaker::add_hello.
AddHello(c) ==
  /\ req' = push_hello(clear(req), c)
  /\ cmds' = <<(<<"HELLO">> \o hello_words(c))>>
             \o (IF c.select THEN <<(<<"SELECT", "1">>)>> ELSE << >>)

Next ==
  \/ \E cmd \in Cmd, n \in 0..MaxArgs : Push(cmd, n)
  \/ \E cmd \in Cmd, key \in {<< >>, <<"key">>}, kind \in Kind, n \in 0..MaxArgs :
       PushRange(cmd, key, kind, n)
  \/ Clear
  \/ \E p \in BOOLEAN : Configure(p)
  \/ \E c \in Config : AddHello(c)

Spec == Init /\ [][Next]_vars

------------------------------------------------------------------------------
(***************************************************************************)
(* The server reads the payload as the commands that were pushed since     *)
(* clear, and as no others: every header announces the bulks that follow   *)
(* it, for single commands and for ranges of the kinds in Kind.            *)
(***************************************************************************)
PayloadExact ==
  req.payload = FlattenSeq([i \in 1..Len(cmds) |-> Header(Len(cmds[i])) \o Bulks(cmds[i])])

\* Redis answers these by pushes only.
Pushed == {"SUBSCRIBE", "PSUBSCRIBE", "UNSUBSCRIBE", "PUNSUBSCRIBE"}

(***************************************************************************)
(* As many responses are expected as the server sends for the commands of  *)
(* the request, over any sequence of pushes and clears: one more and       *)
(* async_exec never completes, one less and the next request gets it.      *)
(***************************************************************************)
ExpectedExact ==
  /\ req.expected_responses = Cardinality({i \in 1..Len(cmds) : cmds[i][1] \notin Pushed})
  /\ req.commands = Len(cmds)

(***************************************************************************)
(* A request is moved to the front of the queue if it has a HELLO and is   *)
(* configured to be, however often it was cleared and used for something   *)
(* else before.                                                            *)
(***************************************************************************)
PriorityExact ==
  req.has_hello_priority <=>
    req.hello_with_priority /\ \E i \in 1..Len(cmds) : cmds[i][1] = "HELLO"

(***************************************************************************)
(* What the documentation of config says: with an empty username or an     *)
(* empty password, HELLO is sent without authentication parameters.        *)
(***************************************************************************)
AuthComplete ==
  \A i \in 1..Len(cmds) :
    \A k \in 1..Len(cmds[i]) :
      cmds[i][k] = "AUTH" => cmds[i][k + 1] # "" /\ cmds[i][k + 2] # ""
==============================================================================
