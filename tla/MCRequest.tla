------------------------------ MODULE MCRequest ------------------------------
(***************************************************************************)
(* Instances of Request for TLC: the kinds of commands that are counted    *)
(* differently and all configurations, each field empty or not.            *)
(***************************************************************************)
EXTENDS Request

MCConfig ==
  [username : {"", "user"}, password : {"", "pass"}, clientname : {"", "name"},
   select : BOOLEAN]
==============================================================================
