-------------------------------- MODULE Parser -------------------------------
(***************************************************************************)
(* resp3::parser and resp3::parse, fed by a reader that appends bytes as   *)
(* the network delivers them and erases a message when it is complete.     *)
(*                                                                         *)
(* A message is a sequence of units: a header line, with the type and the  *)
(* argument that its content stands for, and its length in bytes.  A bulk  *)
(* header of length n is followed by n + 2 bytes that are not units.       *)
(* Bytes have no value, only positions: where a read may end is what a     *)
(* parser that can be suspended anywhere has to get right.                 *)
(***************************************************************************)
EXTENDS Resp3Tree

CONSTANTS
  Input,  \* the inputs: sequences of messages, each a tree
  Hint    \* bytes that the reader asks for at once, 4096 in the code

VARIABLES
  trees,   \* what the server sends
  p,       \* parser_
  input,   \* the units from the first byte in read_buffer_ on
  avail,   \* bytes in read_buffer_
  nodes,   \* what the adapter was given for the message being parsed
  out,     \* history: the nodes of the messages that are complete
  ec       \* the error that ended the parsing, or Terminated

vars == <<trees, p, input, avail, nodes, out, ec>>

\* parser::reset.  Only sizes[0..depth] are ever read.
parser == [depth |-> 0, sizes |-> [d \in 0..max_embedded_depth |-> IF d = 0 THEN 2 ELSE 0],
           bulk |-> "invalid", bulk_length |-> 0, unit |-> 1, consumed |-> 0]

bulk_expected(q) == q.bulk # "invalid"

done(q) == q.depth = 0 /\ ~bulk_expected(q) /\ q.consumed # 0

get_suggested_buffer_growth(q, hint) ==
  IF bulk_expected(q) /\ hint < q.bulk_length + 2 THEN q.bulk_length + 2 ELSE hint

RECURSIVE commit_elem(_)
\* An element is complete; so are the aggregates that it completes.
commit_elem(q) ==
  LET n == [q EXCEPT !.sizes[q.depth] = @ - 1]
  IN  IF n.sizes[n.depth] # 0 THEN n ELSE commit_elem([n EXCEPT !.depth = @ - 1])

\* The outcome of a parser step: the parser, the nodes it returns, an error.
Step(q, ns, err) == [p |-> q, nodes |-> ns, ec |-> err]
Fail(q, err) == Step(q, << >>, err)

\* Mutant of consume_aggregate: the depth is checked before the size.
consume_aggregate_strict(q, t, arg) ==
  IF arg \notin Nat THEN Fail(q, "not_a_number")
  ELSE IF q.depth = max_embedded_depth THEN Fail(q, "exceeeds_max_nested_depth")
  ELSE IF arg = 0 THEN Step(commit_elem(q), <<Node(t, arg, q.depth, "none")>>, "none")
  ELSE Step([q EXCEPT !.depth = @ + 1,
                      !.sizes[q.depth + 1] = arg * element_multiplicity(t)],
            <<Node(t, arg, q.depth, "none")>>, "none")

\* consume_impl for a header whose content is arg.
consume_aggregate(q, t, arg) ==
  IF arg \notin Nat THEN Fail(q, "not_a_number")
  ELSE IF arg = 0 THEN Step(commit_elem(q), <<Node(t, arg, q.depth, "none")>>, "none")
  ELSE IF q.depth = max_embedded_depth THEN Fail(q, "exceeeds_max_nested_depth")
  ELSE Step([q EXCEPT !.depth = @ + 1,
                      !.sizes[q.depth + 1] = arg * element_multiplicity(t)],
            <<Node(t, arg, q.depth, "none")>>, "none")

\* A streamed string is an aggregate without end: its size is never reached.
\* Of an empty header elem.at(0) throws, and consume is noexcept.
consume_bulk(q, t, arg) ==
  IF arg = Empty THEN Fail(q, Terminated)
  ELSE IF arg = Streaming
  THEN Step([q EXCEPT !.depth = @ + 1, !.sizes[q.depth + 1] = -1],
            <<Node("streamed_string", 0, q.depth + 1, "none")>>, "none")
  ELSE IF arg \notin Nat THEN Fail(q, "not_a_number")
  ELSE Step([q EXCEPT !.bulk = t, !.bulk_length = arg], << >>, "none")

\* Its last part is empty.
consume_part(q, t, arg) ==
  IF arg \notin Nat THEN Fail(q, "not_a_number")
  ELSE IF arg = 0
  THEN Step(commit_elem([q EXCEPT !.sizes[q.depth] = 1]), <<Node(t, 1, q.depth, "none")>>, "none")
  ELSE Step([q EXCEPT !.bulk = t, !.bulk_length = arg], << >>, "none")

consume_simple(q, t, arg, v) ==
  IF t \in {"boolean", "doublean", "big_number", "number"} /\ arg = Empty
  THEN Fail(q, "empty_field")
  ELSE IF t = "boolean" /\ arg = Malformed THEN Fail(q, "unexpected_bool_value")
  ELSE Step(commit_elem(q), <<Node(t, 1, q.depth, v)>>, "none")

consume_impl(q, t, arg, v) ==
  CASE t \in Aggregate              -> consume_aggregate(q, t, arg)
    [] t \in Bulk                   -> consume_bulk(q, t, arg)
    [] t = "streamed_string_part"   -> consume_part(q, t, arg)
    [] t \in Simple                 -> consume_simple(q, t, arg, v)
    [] t = "invalid"                -> Fail(q, "invalid_data_type")

\* Mutants of consume_body: the separator after the bulk is not waited for;
\* a byte after it is.
consume_body_early(q, v, view) ==
  IF view - q.consumed < q.bulk_length THEN Fail(q, "more")
  ELSE Step(commit_elem([q EXCEPT !.bulk = "invalid",
                                  !.consumed = @ + q.bulk_length + 2]),
            <<Node(q.bulk, 1, q.depth, v)>>, "none")

consume_body_late(q, v, view) ==
  IF view - q.consumed <= q.bulk_length + 2 THEN Fail(q, "more")
  ELSE Step(commit_elem([q EXCEPT !.bulk = "invalid",
                                  !.consumed = @ + q.bulk_length + 2]),
            <<Node(q.bulk, 1, q.depth, v)>>, "none")

\* The second half of consume: a bulk, once it is there with its separator.
consume_body(q, v, view) ==
  IF view - q.consumed < q.bulk_length + 2 THEN Fail(q, "more")
  ELSE Step(commit_elem([q EXCEPT !.bulk = "invalid",
                                  !.consumed = @ + q.bulk_length + 2]),
            <<Node(q.bulk, 1, q.depth, v)>>, "none")

\* One call of consume on a buffer of view bytes.
consume(q, units, view) ==
  IF bulk_expected(q) THEN consume_body(q, units[q.unit - 1].v, view)
  ELSE IF q.unit > Len(units) \/ view < q.consumed + units[q.unit].len
  THEN Fail(q, "more")
  ELSE LET u == units[q.unit]
           s == consume_impl(q, u.t, u.arg, u.v)
           n == [s.p EXCEPT !.unit = @ + 1, !.consumed = @ + u.len]
       IN  IF s.ec # "none" THEN s
           ELSE IF bulk_expected(n) THEN consume_body(n, u.v, view)
           ELSE [s EXCEPT !.p = n]

RECURSIVE parse(_, _, _)
\* resp3::parse: consume until the message is done, fails, or needs more.
parse(q, units, view) ==
  IF done(q) THEN Step(q, << >>, "none")
  ELSE LET s == consume(q, units, view)
           r == parse(s.p, units, view)
       IN  IF s.ec # "none" THEN s ELSE [r EXCEPT !.nodes = s.nodes \o @]

------------------------------------------------------------------------------
\* Bytes of the units, the bodies of bulks included.
HasBody(u) ==
  \/ u.t \in Bulk /\ u.arg >= 0
  \/ u.t = "streamed_string_part" /\ u.arg > 0

RECURSIVE Bytes(_)
Bytes(units) ==
  IF units = << >> THEN 0
  ELSE LET u == Head(units)
       IN  u.len + (IF HasBody(u) THEN u.arg + 2 ELSE 0) + Bytes(Tail(units))

Init ==
  /\ trees \in Input
  /\ input = FlatAll(trees)
  /\ p = parser
  /\ avail = 0
  /\ nodes = << >>
  /\ out = << >>
  /\ ec = "more"

\* reader_op and append_some_op: room for as many bytes as are suggested, and
\* any number of them that the server has sent.
Read ==
  /\ ec = "more"
  /\ avail' \in (avail + 1)..(avail + get_suggested_buffer_growth(p, Hint))
  /\ avail' <= Bytes(input)
  /\ ec' = "none"
  /\ UNCHANGED <<trees, p, input, nodes, out>>

\* commit_read, and on_finish_parsing when the message is complete.
Parse ==
  /\ ec = "none"
  /\ LET s == parse(p, input, avail)
     IN  IF s.ec = "none"
         THEN /\ p' = parser
              /\ avail' = avail - s.p.consumed
              /\ input' = SubSeq(input, s.p.unit, Len(input))
              /\ out' = Append(out, nodes \o s.nodes)
              /\ nodes' = << >>
              /\ ec' = IF avail' = 0 THEN "more" ELSE "none"
         ELSE /\ p' = s.p
              /\ nodes' = nodes \o s.nodes
              /\ ec' = s.ec
              /\ UNCHANGED <<avail, input, out>>
  /\ UNCHANGED trees

Next == Read \/ Parse

Spec == Init /\ [][Next]_vars

------------------------------------------------------------------------------
\* The bytes that the parser waits for next are there.
UnitThere ==
  IF bulk_expected(p) THEN avail >= p.consumed + p.bulk_length + 2
  ELSE p.unit <= Len(input) /\ avail >= p.consumed + input[p.unit].len

(***************************************************************************)
(* The stack of sizes is in use up to the depth, and every level in use    *)
(* still expects an element (a streamed string without end).               *)
(***************************************************************************)
TypeOK ==
  /\ p.depth \in 0..max_embedded_depth
  /\ \A d \in 1..p.depth : p.sizes[d] # 0
  /\ p.bulk \in Bulk \cup {"streamed_string_part", "invalid"}
  /\ p.consumed \in 0..avail

(***************************************************************************)
(* However the bytes are cut into reads, the adapter is given the nodes of *)
(* each message in pre-order: those of complete messages exactly, and of   *)
(* the one that is being parsed no other and none twice.                   *)
(***************************************************************************)
Reference(i) == Preorder(trees[i], 0)

NodesExact ==
  /\ \A i \in 1..Len(out) : out[i] = Reference(i).nodes /\ Reference(i).ec = "none"
  /\ Len(out) < Len(trees) =>
       LET r == Reference(Len(out) + 1).nodes
       IN  Len(nodes) <= Len(r) /\ nodes = SubSeq(r, 1, Len(nodes))

(***************************************************************************)
(* A message is rejected for its first unit in error, with the error of    *)
(* that unit, after the nodes before it; a message without one is not.     *)
(* The header of a bulk without a length has no error code: the process    *)
(* ends there, and on no other input.                                      *)
(***************************************************************************)
ErrorExact ==
  ec \notin {"none", "more"} =>
    ec = Reference(Len(out) + 1).ec /\ nodes = Reference(Len(out) + 1).nodes

(***************************************************************************)
(* The parser asks for more only if the next unit is not there: otherwise  *)
(* the reader would wait for bytes that a server without more to say never *)
(* sends.                                                                  *)
(***************************************************************************)
AsksOnlyIfNeeded == ec = "more" /\ avail > 0 => ~UnitThere
==============================================================================
