------------------------------ MODULE Adapters -------------------------------
(***************************************************************************)
(* The adapters, which build a C++ response object from the nodes of a     *)
(* reply, one node at a time: wrapper over the STL containers, the tuple   *)
(* of a transaction, the generic responses, ignore, and consume_one.       *)
(*                                                                         *)
(* An adapter and the result that it points to are one record.  A string   *)
(* is the sequence of the pieces appended to it, a multiset a bag, and a   *)
(* multimap has for each key the values in the order of their insertion.   *)
(***************************************************************************)
EXTENDS Resp3Tree, TLC

LOCAL INSTANCE SequencesExt
LOCAL INSTANCE Bags

CONSTANTS
  Cases,   \* [a, replies, retries]: an adapter, the messages that it is given,
           \* and how often one is cut off and its request sent again
  N,       \* std::array<T, N>
  Numeral  \* the values that std::from_chars accepts

ASSUME AdaptersAssumption == N \in Nat

VARIABLES
  case,      \* the element of Cases
  a,         \* the adapter and its result
  at,        \* the message being adapted
  rest,      \* its nodes that are still to come
  ec,        \* what ended the parsing: an error code, or an exception
  retries,
  consumed   \* history: messages taken out by consume_one

vars == <<case, a, at, rest, ec, retries, consumed>>

\* An element of type std::string, int or std::optional<std::string>.
Default(elem) == IF elem = "optional" THEN <<"nullopt">> ELSE << >>

\* boost_redis_from_bulk, into an element that holds old.
from_bulk(elem, old, nd) ==
  LET piece == IF nd.v = "none" THEN << >> ELSE <<nd.v>>
  IN  CASE elem = "string" -> [v |-> old \o piece, ec |-> "none"]
        [] elem = "int" -> IF nd.v \in Numeral THEN [v |-> piece, ec |-> "none"]
                           ELSE [v |-> old, ec |-> "not_a_number"]
        [] elem = "optional" -> [v |-> IF nd.t = "null" THEN old ELSE piece, ec |-> "none"]

\* T{} of each kind of result.
Start(kind, elem) ==
  CASE kind = "simple" -> Default(elem)
    [] kind = "set"    -> {}
    [] kind = "multiset" -> EmptyBag
    [] kind = "array"  -> [j \in 1..N |-> Default(elem)]
    [] OTHER           -> << >>

\* The adapter of an empty result.  Its fields i, on_key, key and size are the
\* members of array_impl, map_impl and static_aggregate_adapter.
adapter(kind, optional, elem, subs) ==
  [kind |-> kind, optional |-> optional, elem |-> elem, subs |-> subs,
   called_once |-> FALSE, error |-> "none", engaged |-> ~optional,
   value |-> Start(kind, elem), i |-> IF kind = "tuple" THEN 0 ELSE -1,
   on_key |-> TRUE, key |-> << >>, size |-> 0]

Out(b, err) == [a |-> b, ec |-> err]

------------------------------------------------------------------------------
simple_impl(b, nd) ==
  IF is_aggregate(nd.t) THEN Out(b, "expects_resp3_simple_type")
  ELSE LET x == from_bulk(b.elem, b.value, nd) IN Out([b EXCEPT !.value = x.v], x.ec)

set_impl(b, nd) ==
  IF is_aggregate(nd.t)
  THEN Out(b, IF nd.t # "set" THEN "expects_resp3_set" ELSE "none")
  ELSE IF nd.depth < 1 THEN Out(b, "expects_resp3_set")
  ELSE LET x == from_bulk(b.elem, Default(b.elem), nd)
       IN  Out([b EXCEPT !.value = IF b.kind = "set" THEN @ \cup {x.v}
                                                     ELSE @ (+) SetToBag({x.v})], x.ec)

\* result.insert and current_->second = obj: a map keeps a key that is there
\* already and overwrites its value, a multimap has one more value for it.
insert_key(b, k) ==
  IF b.kind = "map" THEN b.value @@ (k :> Default(b.elem))
  ELSE (k :> Append(IF k \in DOMAIN b.value THEN b.value[k] ELSE << >>, Default(b.elem)))
       @@ b.value

assign_value(b, v) ==
  IF b.kind = "map" THEN [b.value EXCEPT ![b.key] = v]
  ELSE [b.value EXCEPT ![b.key][Len(b.value[b.key])] = v]

map_impl(b, nd) ==
  IF is_aggregate(nd.t)
  THEN Out(b, IF element_multiplicity(nd.t) # 2 THEN "expects_resp3_map" ELSE "none")
  ELSE IF nd.depth < 1 THEN Out(b, "expects_resp3_map")
  ELSE LET x == from_bulk(b.elem, Default(b.elem), nd)
       IN  Out(IF b.on_key
               THEN [b EXCEPT !.value = insert_key(b, x.v), !.key = x.v, !.on_key = FALSE]
               ELSE [b EXCEPT !.value = assign_value(b, x.v), !.on_key = TRUE], x.ec)

vector_impl(b, nd) ==
  IF is_aggregate(nd.t) THEN Out(b, "none")
  ELSE LET x == from_bulk(b.elem, Default(b.elem), nd)
       IN  Out([b EXCEPT !.value = Append(@, x.v)], x.ec)

\* Mutant of array_impl: a reply that is too large is not refused.
array_impl_larger(b, nd) ==
  IF is_aggregate(nd.t)
  THEN IF b.i # -1 THEN Out(b, "nested_aggregate_not_supported")
       ELSE IF nd.size * element_multiplicity(nd.t) < N THEN Out(b, "incompatible_size")
       ELSE Out([b EXCEPT !.i = 0], "none")
  ELSE IF b.i = -1 THEN Out(b, "expects_resp3_aggregate")
  ELSE IF b.i >= N THEN Out([b EXCEPT !.i = @ + 1], "none")
  ELSE LET x == from_bulk(b.elem, b.value[b.i + 1], nd)
       IN  Out([b EXCEPT !.value[b.i + 1] = x.v, !.i = @ + 1], x.ec)

array_impl(b, nd) ==
  IF is_aggregate(nd.t)
  THEN IF b.i # -1 THEN Out(b, "nested_aggregate_not_supported")
       ELSE IF nd.size * element_multiplicity(nd.t) # N THEN Out(b, "incompatible_size")
       ELSE Out([b EXCEPT !.i = 0], "none")
  ELSE IF b.i = -1 THEN Out(b, "expects_resp3_aggregate")
  ELSE LET x == from_bulk(b.elem, b.value[b.i + 1], nd)
       IN  Out([b EXCEPT !.value[b.i + 1] = x.v, !.i = @ + 1], x.ec)

list_impl(b, nd) ==
  IF is_aggregate(nd.t) THEN Out(b, "none")
  ELSE IF nd.depth < 1 THEN Out(b, "expects_resp3_aggregate")
  ELSE vector_impl(b, nd)

Sets == {"set", "multiset"}
Maps == {"map", "multimap"}

\* impl_map.  The unordered containers are those of the same name, a deque is
\* a list.
impl(b, nd) ==
  CASE b.kind = "simple" -> simple_impl(b, nd)
    [] b.kind \in Sets   -> set_impl(b, nd)
    [] b.kind \in Maps   -> map_impl(b, nd)
    [] b.kind = "vector" -> vector_impl(b, nd)
    [] b.kind = "array"  -> array_impl(b, nd)
    [] b.kind = "list"   -> list_impl(b, nd)

Resp3Error == {"simple_error", "blob_error"}

\* Mutant of wrapper: not only the first node decides on an error.
wrapper_any(b, nd) ==
  IF b.error # "none" THEN Out(b, "none")
  ELSE IF nd.t \in Resp3Error \cup {"null"} THEN Out([b EXCEPT !.error = nd.t], "none")
  ELSE impl(b, nd)

\* wrapper<result<T>>: an error or a null that is the whole reply is a result.
wrapper(b, nd) ==
  IF b.error # "none" THEN Out(b, "none")
  ELSE IF ~b.called_once /\ nd.t \in Resp3Error \cup {"null"}
  THEN Out([b EXCEPT !.called_once = TRUE, !.error = nd.t], "none")
  ELSE impl([b EXCEPT !.called_once = TRUE], nd)

\* wrapper<result<std::optional<T>>>.
wrapper_optional(b, nd) ==
  IF b.error # "none" THEN Out(b, "none")
  ELSE IF nd.t \in Resp3Error THEN Out([b EXCEPT !.error = nd.t], "none")
  ELSE IF ~b.called_once /\ nd.t = "null" THEN Out([b EXCEPT !.called_once = TRUE], "none")
  ELSE impl([b EXCEPT !.called_once = TRUE, !.engaged = TRUE], nd)

\* result::value() throws if the result is an error.
general_aggregate(b, nd) ==
  IF nd.t \in Resp3Error THEN Out([b EXCEPT !.error = nd.t], "none")
  ELSE IF b.error # "none" THEN Out(b, "throws")
  ELSE Out([b EXCEPT !.value = Append(@, nd)], "none")

general_simple(b, nd) ==
  IF nd.t \in Resp3Error THEN Out([b EXCEPT !.error = nd.t], "none")
  ELSE IF b.error # "none" THEN Out(b, "throws")
  ELSE Out([b EXCEPT !.value = <<nd>>], "none")

ignore(b, nd) ==
  Out(b, CASE nd.t = "simple_error" -> "resp3_simple_error"
           [] nd.t = "blob_error"   -> "resp3_blob_error"
           [] nd.t = "null"         -> "resp3_null"
           [] OTHER                 -> "none")

apply_one(b, nd) ==
  CASE b.kind = "general_aggregate" -> general_aggregate(b, nd)
    [] b.kind = "general_simple"    -> general_simple(b, nd)
    [] b.kind = "ignore"            -> ignore(b, nd)
    [] OTHER                        -> IF b.optional THEN wrapper_optional(b, nd)
                                       ELSE wrapper(b, nd)

\* Mutant of count: a map counts as many elements as it has keys.
count_keys(b, nd) ==
  LET size == IF nd.depth = 1 /\ is_aggregate(nd.t) THEN nd.size ELSE b.size
  IN  IF size = 0 THEN [b EXCEPT !.size = 0, !.i = @ + 1]
      ELSE [b EXCEPT !.size = size - 1]

\* static_aggregate_adapter: which element of the tuple the next node is for.
count(b, nd) ==
  LET size == IF nd.depth = 1 /\ is_aggregate(nd.t)
              THEN element_multiplicity(nd.t) * nd.size ELSE b.size
  IN  IF size = 0 THEN [b EXCEPT !.size = 0, !.i = @ + 1]
      ELSE [b EXCEPT !.size = size - 1]

\* adapters_[i_] past the last element is undefined: any outcome would do.
static_aggregate(b, nd) ==
  IF nd.depth = 0
  THEN Out(b, IF nd.size * element_multiplicity(nd.t) # Len(b.subs)
              THEN "incompatible_size" ELSE "none")
  ELSE IF b.i >= Len(b.subs) THEN Out(b, "out_of_bounds")
  ELSE LET x == apply_one(b.subs[b.i + 1], nd)
       IN  Out(count([b EXCEPT !.subs[b.i + 1] = x.a], nd), x.ec)

apply(b, nd) == IF b.kind = "tuple" THEN static_aggregate(b, nd) ELSE apply_one(b, nd)

\* Mutant of consume_one: only the root node is erased.
consume_root(value) ==
  IF value = << >> THEN [value |-> value, ec |-> "none"]
  ELSE IF Head(value).depth # 0 THEN [value |-> value, ec |-> "incompatible_node_depth"]
  ELSE [value |-> Tail(value), ec |-> "none"]

\* consume_one: erases the nodes up to the next root, unless the first node is not one.
consume_one(value) ==
  LET roots == {k \in 2..Len(value) : value[k].depth = 0}
      next == IF roots = {} THEN Len(value) + 1
              ELSE CHOOSE k \in roots : \A l \in roots : k <= l
  IN  IF value = << >> THEN [value |-> value, ec |-> "none"]
      ELSE IF Head(value).depth # 0 THEN [value |-> value, ec |-> "incompatible_node_depth"]
      ELSE [value |-> SubSeq(value, next, Len(value)), ec |-> "none"]

------------------------------------------------------------------------------
Nodes(k) == Preorder(case.replies[k], 0).nodes

Init ==
  /\ case \in Cases
  /\ a = case.a
  /\ at = 1
  /\ rest = Preorder(case.replies[1], 0).nodes
  /\ ec = "none"
  /\ retries = 0
  /\ consumed = 0

Complete == at > Len(case.replies)

\* The parser hands the next node to the adapter.
Adapt ==
  /\ ec = "none"
  /\ ~Complete
  /\ LET x == apply(a, Head(rest)) IN a' = x.a /\ ec' = x.ec
  /\ IF Len(rest) > 1 THEN rest' = Tail(rest) /\ at' = at
     ELSE /\ at' = at + 1
          /\ rest' = IF at < Len(case.replies) THEN Nodes(at + 1) ELSE << >>
  /\ UNCHANGED <<case, retries, consumed>>

\* The connection is lost within the reply, and the request, which is to be
\* sent again, is answered from the start.  Nothing resets the adapter.
Retry ==
  /\ ec = "none"
  /\ ~Complete
  /\ Len(rest) < Len(Nodes(at))
  /\ retries < case.retries
  /\ retries' = retries + 1
  /\ rest' = Nodes(at)
  /\ UNCHANGED <<case, a, at, ec, consumed>>

\* The user has been told of a push and consumes it; another may be underway.
ConsumeOne ==
  /\ a.kind = "general_aggregate"
  /\ a.error = "none"
  /\ consumed + 1 < at
  /\ ec = "none"
  /\ LET r == consume_one(a.value) IN a' = [a EXCEPT !.value = r.value] /\ ec' = r.ec
  /\ consumed' = consumed + 1
  /\ UNCHANGED <<case, at, rest, retries>>

Next == Adapt \/ Retry \/ ConsumeOne

Spec == Init /\ [][Next]_vars

------------------------------------------------------------------------------
\* The reference: what a reply is as a value of each kind, from its tree.
Leaves(x) == SelectSeq(Preorder(x, 0).nodes, LAMBDA nd : ~is_aggregate(nd.t))

Nested(x) == \E k \in 1..Len(x.kids) : is_aggregate(x.kids[k].t)

Convert(elem, l) ==
  IF elem = "optional" /\ l.t = "null" THEN <<"nullopt">>
  ELSE IF l.v = "none" THEN << >> ELSE <<l.v>>

\* The error code for a reply of this shape.
ShapeError(kind, x) ==
  CASE kind = "simple" /\ is_aggregate(x.t)   -> "expects_resp3_simple_type"
    [] kind \in Sets /\ x.t # "set"           -> "expects_resp3_set"
    [] kind \in Maps /\ x.t # "map"           -> "expects_resp3_map"
    [] kind \in {"list", "array"} /\ ~is_aggregate(x.t) -> "expects_resp3_aggregate"
    [] kind = "array" /\ Len(x.kids) # N      -> "incompatible_size"
    [] kind = "array" /\ Nested(x)            -> "nested_aggregate_not_supported"
    [] OTHER                                  -> "none"

BadNumber(elem, x) ==
  elem = "int" /\ \E k \in 1..Len(Leaves(x)) : Leaves(x)[k].v \notin Numeral

\* The values of key y among the pairs, in order.
ValuesOf(y, pairs) ==
  LET own == SelectSeq(pairs, LAMBDA q : q[1] = y) IN [j \in 1..Len(own) |-> own[j][2]]

ValueOf(kind, elem, x) ==
  LET n == Len(Leaves(x))
      c == [k \in 1..n |-> Convert(elem, Leaves(x)[k])]
      elems == {c[k] : k \in 1..n}
      pairs == [j \in 1..(n \div 2) |-> <<c[2 * j - 1], c[2 * j]>>]
      keys == {pairs[j][1] : j \in 1..Len(pairs)}
  IN  CASE kind = "simple"   -> FlattenSeq(c)
        [] kind = "set"      -> elems
        [] kind = "multiset" -> [y \in elems |-> Cardinality({k \in 1..n : c[k] = y})]
        [] kind = "map"      -> [y \in keys |-> Last(ValuesOf(y, pairs))]
        [] kind = "multimap" -> [y \in keys |-> ValuesOf(y, pairs)]
        [] OTHER             -> c

Wrapped == {"simple", "vector", "list", "array"} \cup Sets \cup Maps

Refused(b0, x) ==
  /\ x.t \notin Resp3Error \cup {"null"}
  /\ ShapeError(b0.kind, x) # "none" \/ BadNumber(b0.elem, x)

\* b, with the error code err, is what adapter b0 is to make of the tree x.
Holds(b0, b, err, x) ==
  IF x.t \in Resp3Error THEN b.error = x.t /\ err = "none"
  ELSE IF x.t = "null"
  THEN err = "none" /\ IF b0.optional THEN ~b.engaged /\ b.error = "none"
                                      ELSE b.error = "null"
  ELSE IF Refused(b0, x)
  THEN err # "none" /\ (~BadNumber(b0.elem, x) => err = ShapeError(b0.kind, x))
  ELSE /\ err = "none"
       /\ b.error = "none" /\ b.engaged
       /\ b.value = ValueOf(b0.kind, b0.elem, x)

Ended == Complete \/ ec # "none"

(***************************************************************************)
(* The counters of the adapters stay within what they index: the elements  *)
(* of a std::array and of a tuple.                                         *)
(***************************************************************************)
TypeOK ==
  /\ a.kind = "array" => a.i \in -1..N
  /\ a.kind = "tuple" => a.i \in 0..Len(a.subs) /\ a.size \in Nat
  /\ rest = << >> <=> Complete
  /\ consumed \in 0..at

(***************************************************************************)
(* A reply without nested aggregates is read into a container as the       *)
(* container of its elements, in order, or refused with the error for its  *)
(* shape; an error or a null that is the whole reply becomes the result.   *)
(* A nested aggregate is refused by std::array and by simple types.        *)
(***************************************************************************)
WrapperExact ==
  /\ a.kind \in Wrapped /\ Ended
  /\ Nested(case.replies[1]) => a.kind \in {"simple", "array"}
  => Holds(case.a, a, ec, case.replies[1])

(***************************************************************************)
(* Each element of the reply to EXEC is read by the element of the tuple   *)
(* at its place, whatever the number of nodes of those before it.          *)
(***************************************************************************)
TupleExact ==
  a.kind = "tuple" /\ Ended =>
    LET x == case.replies[1]
        generic(k) == case.a.subs[k].kind = "general_aggregate"
        D == DOMAIN a.subs
    IN  IF Len(x.kids) # Len(a.subs) THEN ec = "incompatible_size"
        ELSE IF \E k \in D : ~generic(k) /\ Refused(case.a.subs[k], x.kids[k])
        THEN ec # "none"
        ELSE /\ ec = "none"
             /\ \A k \in D :
                  IF generic(k) THEN a.subs[k].value = Preorder(x.kids[k], 1).nodes
                  ELSE Holds(case.a.subs[k], a.subs[k], ec, x.kids[k])

(***************************************************************************)
(* A generic response holds the pre-order view of the messages that were   *)
(* not consumed, whole ones first: consume_one takes out exactly one, and  *)
(* never finds a node that is not a root in front.  A single node is that  *)
(* of the last reply, its last one.  ignore reports the first error or     *)
(* null among all the nodes, those within aggregates included.             *)
(***************************************************************************)
RECURSIVE Pending(_)
Pending(k) == IF k >= at THEN << >> ELSE Nodes(k) \o Pending(k + 1)

\* The nodes of the message at hand that the adapter was given.
Given == IF Complete THEN << >> ELSE SubSeq(Nodes(at), 1, Len(Nodes(at)) - Len(rest))

Rejected == [simple_error |-> "resp3_simple_error", blob_error |-> "resp3_blob_error",
             null |-> "resp3_null"]

GenericExact ==
  /\ a.kind = "general_aggregate" /\ a.error = "none" =>
       a.value = Pending(consumed + 1) \o Given /\ ec # "incompatible_node_depth"
  /\ a.kind = "general_simple" /\ Complete /\ a.error = "none" =>
       a.value = <<Last(Pending(1))>>
  /\ a.kind = "ignore" =>
       LET seen == Pending(1) \o Given
           bad == {k \in 1..Len(seen) : seen[k].t \in DOMAIN Rejected}
       IN  IF ec = "none" THEN bad = {}
           ELSE bad = {Len(seen)} /\ ec = Rejected[Last(seen).t]

(***************************************************************************)
(* What the documentation says of std::optional: but for a null everything *)
(* is as without it, so an element of an aggregate that is an error is     *)
(* read in the same way.                                                   *)
(***************************************************************************)
OptionalSame ==
  a.kind \in Wrapped /\ Ended => (a.error # "none" => a.error = case.replies[1].t)

(***************************************************************************)
(* What the documentation says of the generic response: any reply can be   *)
(* received in it, so none makes the adapter throw out of the reader.      *)
(***************************************************************************)
AnyReplyReceived == a.kind = "general_aggregate" => ec = "none"

(***************************************************************************)
(* What the documentation says of the general case: an aggregate with      *)
(* nested aggregates can't be read in STL containers.                      *)
(***************************************************************************)
NestedRefused ==
  a.kind \in Wrapped /\ Complete /\ Nested(case.replies[1]) => ec # "none"

(***************************************************************************)
(* Within a transaction any reply can be received, too: the nodes of an    *)
(* element that is itself nested all go to the element of the tuple at its *)
(* place.                                                                  *)
(***************************************************************************)
TupleInBounds ==
  a.kind = "tuple" => ec # "out_of_bounds"
==============================================================================
