----------------------------- MODULE MCPipeline ------------------------------
(***************************************************************************)
(* Instances of Pipeline for TLC.  The elems are strings named after what  *)
(* they do: hello has priority, get and mget expect one and two responses, *)
(* setr and msetr are retried after a lost connection, sub expects none.   *)
(***************************************************************************)
EXTENDS Pipeline

MCExpected ==
  [e \in Elem |-> CASE e = "mget" -> 2 [] e = "msetr" -> 2 [] e = "sub" -> 0 [] OTHER -> 1]

Retriable == {"setr", "msetr"}

MCHelloPriority == Elem \cap {"hello"}

MCCancel == Elem \ Retriable
==============================================================================
