----------------------------- MODULE MCAdapters ------------------------------
(***************************************************************************)
(* Instances of Adapters for TLC: every kind of adapter with every type of *)
(* element, and replies of up to two levels over a few leaves.             *)
(***************************************************************************)
EXTENDS Adapters

One == Leaf("number", Text, "1")
StrA == Leaf("blob_string", 1, "a")
StrB == Leaf("simple_string", Text, "b")
Null == Leaf("null", Empty, "none")
Err == Leaf("simple_error", Text, "e")
BlobErr == Leaf("blob_error", 1, "e")

Seqs(S, n) == UNION {[1..k -> S] : k \in 0..n}

Agg(t, kids) == Tree(t, Len(kids) \div element_multiplicity(t), "none", kids)

Flats(S) ==
  {Agg(t, k) : t \in {"array", "set"}, k \in Seqs(S, 2)}
  \cup {Agg("map", k) : k \in [1..0 -> S] \cup [1..2 -> S] \cup [1..4 -> S]}

Nestings ==
  {Agg("array", k) : k \in Seqs({StrA, Agg("array", <<One>>), Agg("map", <<One, StrB>>)}, 2)}

Singles == {One, StrA, Null, Err, BlobErr, Streamed(<<1, 2>>)}

Wrappers(optional) ==
  {adapter(kind, optional, elem, << >>) : kind \in Wrapped,
                                          elem \in {"string", "int", "optional"}}

\* A set is the same if an element is inserted twice, a node if assigned twice.
Case(b, replies) ==
  [a |-> b, replies |-> replies,
   retries |-> IF b.kind \in {"set", "general_simple", "ignore"} THEN 1 ELSE 0]

\* Streamed strings are read into a string, nested aggregates refused.
Fits(b, x) ==
  /\ x.arg = Streaming => b.kind = "simple" /\ b.elem = "string"
  /\ Nested(x) => b.kind \in {"simple", "array"}

WrapperCases ==
  {Case(b, <<x>>) : b \in Wrappers(FALSE) \cup Wrappers(TRUE),
                    x \in Flats({One, StrA, Null}) \cup Nestings \cup Singles}

GenericCases ==
  {Case(adapter(kind, FALSE, "string", << >>), <<x, y, z>>) :
     kind \in {"general_aggregate", "general_simple", "ignore"},
     x \in Nestings, y \in {StrA, Null, Agg("array", << >>)}, z \in {One, Agg("set", <<One>>)}}

IgnoreCases ==
  {Case(adapter("ignore", FALSE, "string", << >>), <<StrA, x>>) :
     x \in Flats({One, Null, BlobErr}) \cup {Err, Agg("array", <<One, Agg("array", <<Err>>)>>)}}

Tuple(b, c) == adapter("tuple", FALSE, "string", <<b, c>>)

TupleCases ==
  {Case(Tuple(b, c), <<Agg("array", k)>>) :
     b \in Wrappers(TRUE) \cup {adapter("general_aggregate", FALSE, "string", << >>)},
     c \in {adapter("vector", FALSE, "string", << >>)},
     k \in Seqs({StrA, Null, Agg("array", << >>), Agg("set", <<One, StrA>>),
                 Agg("map", <<One, StrA>>)}, 2)}

\* Containers that take their elements at any depth but 0 are given aggregates.
AtDepthOne(x) ==
  x.a.subs[1].kind \in Sets \cup Maps \cup {"list"} =>
    x.replies[1].kids = << >>
    \/ is_aggregate(x.replies[1].kids[1].t)
    \/ x.replies[1].kids[1].t = "null"

MCCases ==
  {x \in WrapperCases : Fits(x.a, x.replies[1])} \cup GenericCases \cup IgnoreCases
  \cup {x \in TupleCases : AtDepthOne(x)}

\* The replies that lead to a disagreement with the documentation.
MCOptional ==
  {Case(b, <<x>>) : b \in {adapter("vector", o, "string", << >>) : o \in BOOLEAN},
                    x \in Flats({One, Err})}

MCGeneric ==
  {Case(adapter("general_aggregate", FALSE, "string", << >>), <<x>>) :
     x \in Flats({One, Err, Null})}

MCNested ==
  {Case(adapter(kind, FALSE, "string", << >>), <<x>>) :
     kind \in Wrapped, x \in Nestings \cup {Agg("set", <<One, Agg("set", <<StrA>>)>>),
                                         Agg("map", <<One, Agg("map", <<StrA, StrB>>)>>)}}

MCTuple ==
  {Case(Tuple(adapter("general_aggregate", FALSE, "string", << >>),
              adapter("simple", FALSE, "string", << >>)),
        <<Agg("array", <<x, StrB>>)>>) : x \in Nestings}

MCRetry ==
  {[Case(adapter(kind, FALSE, "string", << >>), <<x>>) EXCEPT !.retries = 1] :
     kind \in Wrapped \ {"simple", "set"}, x \in Flats({One, StrA})}
==============================================================================
