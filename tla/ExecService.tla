----------------------------- MODULE ExecService -----------------------------
(***************************************************************************)
(* What async_exec promises its callers, whatever happens to connections:  *)
(* a request that was accepted is sent, and completes once, with its       *)
(* replies or with an error.  A request is sent again only if the caller   *)
(* allowed it (Retried); any other one is sent at most once.               *)
(*                                                                         *)
(* "replied" is a request that has all it waits for while the handler of   *)
(* its caller has still to run; it can be cancelled until then.            *)
(***************************************************************************)
CONSTANTS
  Request,  \* the calls of async_exec
  Retried   \* those whose request is sent again after a lost connection

VARIABLE phase

Phase == {"idle", "queued", "sent", "replied", "ok", "failed"}

Init == phase = [e \in Request |-> "idle"]

\* Any number of requests go on, each by one of the moves in M.
Step(M) ==
  /\ phase' \in [Request -> Phase]
  /\ \A e \in Request : phase'[e] # phase[e] => <<phase[e], phase'[e]>> \in M

\* A request is accepted, or refused as there is no connection.
Call == Step({<<"idle", "queued">>, <<"idle", "failed">>})

\* Requests are handed to the network, others have all that they wait for.
Transfer == Step({<<"queued", "sent">>, <<"sent", "replied">>})

Finish == Step({<<"replied", "ok">>})

\* Requests that have not been sent can be cancelled alone.
Cancel == Step({<<"queued", "failed">>})

\* The connection is lost, and with it everything that was sent: it fails or,
\* where the caller allowed it, waits to be sent again.
Lose ==
  /\ Step({<<"sent", "queued">>} \cup ({"queued", "sent", "replied"} \X {"failed"}))
  /\ \A e \in Request : phase[e] = "sent" =>
       phase'[e] = "failed" \/ (phase'[e] = "queued" /\ e \in Retried)

Next == Call \/ Transfer \/ Finish \/ Cancel \/ Lose

Spec == Init /\ [][Next]_phase
==============================================================================
