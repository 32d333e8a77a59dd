------------------------------ MODULE Resp3Tree ------------------------------
(***************************************************************************)
(* What a RESP3 message means: a tree, the units that it is sent as and    *)
(* the nodes that a reader of it is to be given, in pre-order.  This is    *)
(* the reference for the parser, which works without the tree.             *)
(***************************************************************************)
EXTENDS Integers, Sequences, FiniteSets

CONSTANT max_embedded_depth  \* of resp3::parser, 5 in the code

ASSUME DepthAssumption == max_embedded_depth \in Nat \ {0}

\* resp3::type, what to_type can make of the first byte of a unit.
Simple == {"simple_string", "simple_error", "number", "doublean", "big_number",
           "boolean", "null"}
Bulk == {"blob_string", "blob_error", "verbatim_string"}
Aggregate == {"array", "set", "push", "map", "attribute"}

is_aggregate(t) == t \in Aggregate

\* Mutant of element_multiplicity: an attribute counts its pairs.
element_multiplicity_map(t) == IF t = "map" THEN 2 ELSE 1

element_multiplicity(t) == IF t \in {"map", "attribute"} THEN 2 ELSE 1

\* basic_node: v is its value.
Node(t, size, depth, v) == [t |-> t, size |-> size, depth |-> depth, v |-> v]

\* The argument of a header is a number, or something that is not one: the
\* mark of a streamed string, an empty field, a malformed or a plain text.
Streaming == -1
Empty == -2
Malformed == -3
Text == -4

\* A tree: its type, the argument of its header, its value and its children.
Tree(t, arg, v, kids) == [t |-> t, arg |-> arg, v |-> v, kids |-> kids]
Leaf(t, arg, v) == Tree(t, arg, v, << >>)

\* A streamed string whose parts have these lengths.
Streamed(parts) ==
  Tree("blob_string", Streaming, "none",
       [i \in 1..(Len(parts) + 1) |->
          Leaf("streamed_string_part", IF i > Len(parts) THEN 0 ELSE parts[i],
               IF i > Len(parts) THEN "none" ELSE "part")])

RECURSIVE Flat(_), FlatAll(_)
Flat(x) ==
  <<[t |-> x.t, arg |-> x.arg, v |-> x.v, len |-> IF x.arg = Empty THEN 3 ELSE 4]>>
  \o FlatAll(x.kids)
FlatAll(xs) == IF xs = << >> THEN << >> ELSE Flat(Head(xs)) \o FlatAll(Tail(xs))

\* Not an error code: std::terminate ends the process.
Terminated == "terminated"

\* The argument is to be a number and is not.
NotANumber(x) ==
  \/ x.t \in Aggregate \cup {"streamed_string_part"} /\ x.arg \notin Nat
  \/ x.t \in Bulk /\ x.arg \notin Nat \cup {Streaming, Empty}

\* Why the header of x is not acceptable at this depth.
HeaderError(x, depth) ==
  CASE x.t = "invalid"                                     -> "invalid_data_type"
    [] x.t \in Bulk /\ x.arg = Empty                       -> Terminated
    [] NotANumber(x)                                       -> "not_a_number"
    [] x.t \in {"number", "doublean", "big_number", "boolean"} /\ x.arg = Empty
                                                           -> "empty_field"
    [] x.t = "boolean" /\ x.arg = Malformed               -> "unexpected_bool_value"
    [] x.t \in Aggregate /\ x.kids # << >> /\ depth = max_embedded_depth
                                                           -> "exceeeds_max_nested_depth"
    [] OTHER                                               -> "none"

HeaderNode(x, depth) ==
  IF x.arg = Streaming THEN Node("streamed_string", 0, depth + 1, "none")
  ELSE Node(x.t, IF is_aggregate(x.t) THEN x.arg ELSE 1, depth, x.v)

\* The nodes of a tree in pre-order, up to the first unit that is in error.
RECURSIVE Preorder(_, _), PreorderAll(_, _)
Preorder(x, depth) ==
  IF HeaderError(x, depth) # "none"
  THEN [nodes |-> << >>, ec |-> HeaderError(x, depth)]
  ELSE LET r == PreorderAll(x.kids, depth + 1)
       IN  [r EXCEPT !.nodes = <<HeaderNode(x, depth)>> \o @]
PreorderAll(xs, depth) ==
  IF xs = << >> THEN [nodes |-> << >>, ec |-> "none"]
  ELSE LET a == Preorder(Head(xs), depth)
           b == PreorderAll(Tail(xs), depth)
       IN  IF a.ec # "none" THEN a ELSE [b EXCEPT !.nodes = a.nodes \o @]
==============================================================================
