---------------------------- MODULE MCSubscriber -----------------------------
(***************************************************************************)
(* An instance of Subscriber for TLC: s1, s2... are the SUBSCRIBEs of      *)
(* successive rounds.  All requests have the default configuration.        *)
(***************************************************************************)
EXTENDS Subscriber

MCElem == User \cup Hello \cup Ping

MCExpected == [e \in MCElem |-> IF e \in Sub THEN 0 ELSE 1]

==============================================================================
