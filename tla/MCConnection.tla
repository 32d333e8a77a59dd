---------------------------- MODULE MCConnection -----------------------------
(***************************************************************************)
(* Instances of Connection for TLC.  get may be lost with a connection,    *)
(* setr is retried, now insists on an open connection, sub expects no      *)
(* response; h1, h2... are the HELLOs of successive connections and p1,    *)
(* p2... the PINGs.                                                        *)
(***************************************************************************)
EXTENDS Connection

MCElem == User \cup Hello \cup Ping

MCExpected == [e \in MCElem |-> IF e = "sub" THEN 0 ELSE 1]

MCCancel == MCElem \ {"setr"}

MCNotConnected == User \cap {"now"}
==============================================================================
