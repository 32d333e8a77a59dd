----------------------------- MODULE Subscriber ------------------------------
(***************************************************************************)
(* The receiver() of the examples at work on a connection: a coroutine     *)
(* that subscribes, receives pushes until async_receive fails, and         *)
(* subscribes again while reconnection is enabled.  It is the documented   *)
(* way to use async_receive, and the reason why run_op cancels the receive *)
(* operation when a connection has ended.                                  *)
(***************************************************************************)
EXTENDS Connection

CONSTANT Sub  \* the elems of the SUBSCRIBE requests, one per round (bound)

ASSUME SubAssumption == Sub \subseteq User /\ \A e \in Sub : Expected[e] = 0

VARIABLE sub  \* where receiver() is; if "absent", async_receive is called at will

subVars == <<c, answered, left, sub>>

Where == {"absent", "spawned", "subscribe", "receive", "returned", "thrown"}

SubInit == Init /\ sub \in {"absent", "spawned"}

\* The outer loop: subscribe, as long as the connection will reconnect.
subscribe(d) == IF d.reconnect THEN start_exec(d, Some(d, Sub)) ELSE d

\* The inner loop: receive() takes what is buffered, then async_receive waits.
receive(d) ==
  [d EXCEPT !.channel = 0, !.reader = Abort(@, "send", "send_ok"), !.receiver = "wait"]

\* The loop goes round once more; Sub bounds how often.
Subscribe(d) ==
  /\ d.reconnect => Fresh(d, Sub) # {}
  /\ c' = subscribe(d)
  /\ sub' = IF d.reconnect THEN "subscribe" ELSE "returned"

\* co_spawn.
OnSpawn ==
  /\ sub = "spawned"
  /\ Subscribe(c)
  /\ UNCHANGED <<answered, left>>

\* async_exec of SUBSCRIBE has completed; its error is an exception that
\* leaves the coroutine.
OnSubscribed(e) ==
  /\ ExecResumes(e)
  /\ LET d == resume_exec(c, e)
     IN  IF d.exec[e] = "ok" THEN c' = receive(d) /\ sub' = "receive"
                             ELSE c' = d /\ sub' = "thrown"
  /\ UNCHANGED <<answered, left>>

\* Mutant of OnReceived: an error does not leave the inner loop.
OnReceivedStay ==
  /\ sub = "receive"
  /\ c.receiver \in {"got", "err"}
  /\ c' = receive(c)
  /\ UNCHANGED <<answered, left, sub>>

\* async_receive has completed, with a push or with an error.
OnReceived ==
  /\ sub = "receive"
  /\ \/ c.receiver = "got" /\ c' = receive(c) /\ UNCHANGED sub
     \/ c.receiver = "err" /\ Subscribe([c EXCEPT !.receiver = "idle"])
  /\ UNCHANGED <<answered, left>>

(***************************************************************************)
(* io_context runs handlers in the order in which they are queued.  What   *)
(* receiver() is notified of while the connection is up is queued before   *)
(* the reader or the writer is resumed for the last time, and with it      *)
(* before the group completes.                                             *)
(***************************************************************************)
ReceiverFirst ==
  \/ sub = "receive" /\ c.receiver = "got"
  \/ \E e \in Sub : c.exec[e] = "wait" /\ e \in c.mpx.done /\ c.mpx.ec[e] = "none"

Receiver == OnSpawn \/ (\E e \in Sub : OnSubscribed(e)) \/ OnReceived

AtWill == sub = "absent" /\ (Receive \/ OnReceive)

Handled ==
  \/ OnResolve \/ OnConnect \/ (OnGroup /\ ~ReceiverFirst) \/ OnBackoff
  \/ \E e \in Elem \ Sub : OnExec(e)
  \/ OnPost \/ OnPing \/ OnCheck
  \/ OnWrite \/ OnRead \/ OnSend

OtherUsers ==
  \/ Run
  \/ \E e \in User \ Sub : Exec(e) \/ CancelExec(e)
  \/ \E op \in Cancels : Cancel(op)

SubNext ==
  /\ ~c.thrown
  /\ Receiver \/ ((AtWill \/ Handled \/ Environment \/ OtherUsers) /\ UNCHANGED sub)

\* The fairness of ProgressSpec, with receiver() among the handlers.
SubSpec ==
  /\ SubInit
  /\ [][SubNext]_subVars
  /\ WF_subVars(~c.thrown /\ (Receiver \/ ((AtWill \/ Handled \/ DueEvents) /\ UNCHANGED sub)))

------------------------------------------------------------------------------
SubTypeOK == TypeOK /\ sub \in Where

(***************************************************************************)
(* Whoever waits for pushes on a connection has subscribed on this very    *)
(* connection: "channel subscription does not survive a reconnection", and *)
(* a receiver that slept through one would wait for ever.                  *)
(***************************************************************************)
ReceivesSubscribed ==
  sub = "receive" /\ c.receiver = "wait" /\ c.run = "group" /\ c.open =>
    \E i \in 1..Len(c.sent) : c.sent[i] \in Sub

(***************************************************************************)
(* receiver() notices every connection that is closed, even if it was not  *)
(* waiting in async_receive at the moment when it was torn down.           *)
(***************************************************************************)
LossNoticed ==
  (sub = "receive" /\ ~c.open) ~> (sub # "receive" \/ c.run = "done")

(***************************************************************************)
(* Pushes are received as long as there is somebody to receive them:       *)
(* neither the channel's capacity nor a reader blocked in async_send keeps *)
(* one from being delivered.                                               *)
(***************************************************************************)
PushDelivered ==
  (c.channel > 0 \/ c.reader = "send") ~>
    \/ c.channel = 0 /\ c.reader # "send"
    \/ sub \in {"thrown", "returned"}
    \/ sub = "subscribe" /\ c.run = "done"
==============================================================================
