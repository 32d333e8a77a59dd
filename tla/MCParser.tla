------------------------------ MODULE MCParser -------------------------------
(***************************************************************************)
(* Instances of Parser for TLC: every tree of arrays, maps and attributes  *)
(* with up to two children, as deep as one level more than the parser      *)
(* accepts, over a few leaves of each kind, and every other type alone or  *)
(* in an aggregate; each is followed by a second message.                  *)
(***************************************************************************)
EXTENDS Parser

Good == {Leaf("simple_string", Text, "a"), Leaf("blob_string", 0, "none"),
         Leaf("blob_string", 2, "b"), Streamed(<<1>>)}

Flatly == Good \ {Streamed(<<1>>)}

\* Every header that is not acceptable at any depth.
Bad ==
  {Leaf(t, Empty, "none") : t \in {"number", "doublean", "big_number", "boolean"}
                                 \cup Aggregate \cup Bulk}
  \cup {Leaf(t, Malformed, "none") : t \in {"boolean"} \cup Aggregate \cup Bulk}
  \cup {Leaf("invalid", Text, "none")}

\* A streamed string whose second part has no length.
CutShort == Tree("blob_string", Streaming, "none",
                 <<Leaf("streamed_string_part", 1, "part"),
                   Leaf("streamed_string_part", Empty, "none")>>)

\* One of each type.
Any ==
  {Leaf(t, Text, "a") : t \in Simple \ {"null"}} \cup {Leaf("null", Empty, "none")}
  \cup {Leaf(t, n, IF n = 0 THEN "none" ELSE "b") : t \in Bulk, n \in 0..2}

Over(kids) ==
  {Tree("array", Len(k), "none", k) : k \in kids}
  \cup {Tree(t, Len(k) \div 2, "none", k) : t \in {"map", "attribute"},
                                      k \in {x \in kids : Len(x) % 2 = 0}}

Within(x) == {Tree(t, 1, "none", [i \in 1..element_multiplicity(t) |-> x]) : t \in Aggregate}

Seqs(S, n) == UNION {[1..k -> S] : k \in 0..n}

Shallow == Good \cup Over(Seqs(Good, 2))

Deep == Over(Seqs(Over(Seqs(Flatly \cup Over(Seqs({Leaf("null", Empty, "none")}, 1)), 1))
                  \cup Good, 2))

Typed == Any \cup UNION {Within(x) : x \in Any}

Faulty ==
  Bad \cup {CutShort} \cup UNION {Within(x) : x \in Bad \cup {CutShort}}
  \cup Over(Seqs({Leaf("simple_string", Text, "a"), Leaf("number", Empty, "none"),
                   Leaf("blob_string", Empty, "none"), Leaf("blob_string", Malformed, "none"),
                   Leaf("map", Malformed, "none")}, 2))

MCInput ==
  {<<x, Leaf("blob_string", 1, "c")>> : x \in Shallow \cup Deep \cup Typed \cup Faulty}
==============================================================================
