---------------------------- MODULE ContractProofs ---------------------------
(***************************************************************************)
(* The pipeline implements ExecService, the contract of async_exec, for    *)
(* any set of requests and any configuration of them.                      *)
(***************************************************************************)
EXTENDS PipelineProofs

\* The errors after notify_error: an elem keeps its first one.
Noted(m, S, err) == [e \in Elem |-> IF e \in S /\ m.ec[e] = "none" THEN err ELSE m.ec[e]]

\* notify_error touches no elem but the ones it is given.
LEMMA NotifyErrorEffect ==
  ASSUME NEW m, m \in MultiplexerType, NEW S \in SUBSET Elem, NEW err \in Error
  PROVE  /\ notify_error(m, S, err) \in MultiplexerType
         /\ notify_error(m, S, err).reqs = m.reqs
         /\ notify_error(m, S, err).status = m.status
         /\ notify_error(m, S, err).done = m.done \cup S
         /\ notify_error(m, S, err).cancel_run_called = m.cancel_run_called
         /\ notify_error(m, S, err).ec = Noted(m, S, err)
<1> DEFINE d == notify_done(m, S)
           f == Noted(m, S, err)
           n == notify_error(m, S, err)
<1>1. f \in [Elem -> Error]
  BY DEF MultiplexerType, Noted
<1>2. /\ d \in MultiplexerType /\ d.ec = m.ec /\ d.reqs = m.reqs /\ d.status = m.status
      /\ d.done = m.done \cup S /\ d.cancel_run_called = m.cancel_run_called
  BY Zenon DEF notify_done, MultiplexerType
<1>3. n = [d EXCEPT !.ec = f]
  BY <1>2 DEF notify_error, MultiplexerType, Noted
<1> HIDE DEF d, f, n
<1>4. /\ n \in MultiplexerType /\ n.ec = f /\ n.reqs = d.reqs /\ n.status = d.status
      /\ n.done = d.done /\ n.cancel_run_called = d.cancel_run_called
  BY <1>1, <1>2, <1>3, Zenon DEF MultiplexerType
<1>5. QED
  BY <1>2, <1>4 DEF n, f

\* erase changes the queue only.
LEMMA EraseEffect ==
  ASSUME NEW m, m \in MultiplexerType, NEW S
  PROVE  /\ erase(m, S).ec = m.ec /\ erase(m, S).status = m.status
         /\ erase(m, S).done = m.done
         /\ erase(m, S).cancel_run_called = m.cancel_run_called
BY DEF erase, MultiplexerType

\* The elems of S are notified of an error and erased.
LEMMA DroppedEffect ==
  ASSUME NEW m, WellFormed(m), NEW S \in SUBSET Elem
  PROVE  LET n == erase(notify_error(m, S, "aborted"), S)
         IN  /\ n \in MultiplexerType
             /\ Queued(n) = Queued(m) \ S /\ n.done = m.done \cup S /\ n.status = m.status
             /\ n.ec = Noted(m, S, "aborted")
<1> DEFINE d == notify_error(m, S, "aborted")
           n == erase(d, S)
<1>1. m \in MultiplexerType /\ "aborted" \in Error
  BY DEF WellFormed, Error
<1>2. d \in MultiplexerType /\ d.ec = Noted(m, S, "aborted")
  BY <1>1, NotifyErrorEffect
<1>3. WellFormed(n) /\ Queued(n) = Queued(m) \ S /\ n.done = m.done \cup S /\ n.status = m.status
  BY Dropped
<1> HIDE DEF d
<1>4. n.ec = d.ec
  BY <1>2, EraseEffect
<1> HIDE DEF n
<1>5. QED
  BY <1>2, <1>3, <1>4 DEF n, d, WellFormed

(***************************************************************************)
(* Losing the connection: the elems of lost_with_conn are notified and     *)
(* leave, all others wait again; a second call does nothing.               *)
(***************************************************************************)
LEMMA ConnLostEffect ==
  ASSUME NEW m, WellFormed(m)
  PROVE  LET n == cancel_on_conn_lost(m)
             S == lost_with_conn(m)
         IN  /\ m.cancel_run_called => n = m
             /\ ~m.cancel_run_called =>
                  /\ Queued(n) = Queued(m) \ S
                  /\ n.done = m.done \cup S
                  /\ n.ec = Noted(m, S, "aborted")
                  /\ \A e \in Elem :
                       n.status[e] = IF e \in Queued(m) \ S THEN "waiting" ELSE m.status[e]
<1>1. CASE m.cancel_run_called
  BY <1>1 DEF cancel_on_conn_lost
<1>2. CASE ~m.cancel_run_called
  <2> DEFINE S == lost_with_conn(m)
             d == erase(notify_error(m, S, "aborted"), S)
             st == [e \in Elem |-> IF e \in Queued(m) \ S THEN "waiting" ELSE d.status[e]]
             n == cancel_on_conn_lost(m)
  <2>1. S \in SUBSET Elem
    BY QueuedElem DEF lost_with_conn
  <2>2. /\ d \in MultiplexerType
        /\ Queued(d) = Queued(m) \ S /\ d.done = m.done \cup S /\ d.status = m.status
        /\ d.ec = Noted(m, S, "aborted")
    <3> HIDE DEF S
    <3>1. QED
      BY <2>1, DroppedEffect
  <2>3. n = [d EXCEPT !.cancel_run_called = TRUE, !.status = st]
    BY <1>2, <2>2 DEF cancel_on_conn_lost, MultiplexerType
  <2> HIDE DEF n, d, S
  <2>4. /\ n.ec = d.ec /\ n.reqs = d.reqs /\ n.done = d.done
        /\ \A e \in Elem : n.status[e] = IF e \in Queued(m) \ S THEN "waiting" ELSE d.status[e]
    BY <2>2, <2>3 DEF MultiplexerType
  <2>5. Queued(n) = Queued(m) \ S
    BY <2>2, <2>4 DEF Queued
  <2>6. QED
    BY <1>2, <2>2, <2>4, <2>5 DEF n, S
<1>3. QED
  BY <1>1, <1>2

\* cancel_waiting notifies and erases what waits.
LEMMA CancelWaitingEffect ==
  ASSUME NEW m, WellFormed(m)
  PROVE  LET n == cancel_waiting(m)
             S == {e \in Queued(m) : is_waiting(m, e)}
         IN  /\ Queued(n) = Queued(m) \ S /\ n.done = m.done \cup S /\ n.status = m.status
             /\ n.ec = Noted(m, S, "aborted")
<1> DEFINE S == {e \in Queued(m) : is_waiting(m, e)}
<1>1. S \in SUBSET Elem
  BY QueuedElem
<1>2. cancel_waiting(m) = erase(notify_error(m, S, "aborted"), S)
  BY DEF cancel_waiting
<1> HIDE DEF S
<1>3. QED
  BY <1>1, <1>2, DroppedEffect DEF S

\* prepare_write notifies nobody, and what was sent stays sent.
LEMMA PrepareWriteEffect ==
  ASSUME NEW m, WellFormed(m)
  PROVE  LET n == prepare_write(m)
         IN  /\ n.ec = m.ec
             /\ \A e \in Elem : ~is_waiting(m, e) => ~is_waiting(n, e)
<1>1. m \in MultiplexerType
  BY DEF WellFormed
<1>2. QED
  BY <1>1 DEF prepare_write, MultiplexerType, is_waiting

\* commit_write releases only what was sent, and without an error.
LEMMA CommitWriteEffect ==
  ASSUME NEW m, WellFormed(m)
  PROVE  LET n == commit_write(m)
         IN  /\ n.ec = m.ec
             /\ \A e \in Elem : ~is_waiting(m, e) => ~is_waiting(n, e)
             /\ \A e \in Queued(m) \ Queued(n) : ~is_waiting(m, e)
<1> DEFINE st == [e \in Elem |->
                    IF e \in Queued(m) /\ m.status[e] = "staged" THEN "written" ELSE m.status[e]]
           a == [m EXCEPT !.write_buffer = << >>, !.status = st]
           S == {e \in Queued(a) : a.status[e] = "written" /\ Expected[e] = 0}
           d == notify_done(a, S)
           n == commit_write(m)
<1>1. m \in MultiplexerType /\ << >> \in Seq(Elem)
  BY DEF WellFormed
<1>2. st \in [Elem -> Status] /\ \A e \in Elem : m.status[e] = "waiting" <=> st[e] = "waiting"
  BY <1>1 DEF MultiplexerType, Status
<1>3. n = erase(d, S)
  BY <1>1 DEF commit_write, release_push_requests, MultiplexerType
<1> HIDE DEF st
<1>4. a \in MultiplexerType /\ a.status = st /\ a.ec = m.ec /\ a.reqs = m.reqs
  BY <1>1, <1>2, Zenon DEF MultiplexerType
<1> HIDE DEF a
<1>5. Queued(a) = Queued(m) /\ S \subseteq Queued(m) /\ Queued(m) \subseteq Elem
  BY <1>4, QueuedElem DEF Queued
<1>6. \A e \in S : ~is_waiting(m, e)
  BY <1>2, <1>4, <1>5 DEF is_waiting
<1> HIDE DEF S
<1>7. /\ d \in MultiplexerType /\ d.ec = a.ec /\ d.status = a.status /\ d.reqs = a.reqs
      /\ d.done = a.done \cup S
  BY <1>4, <1>5, Zenon DEF notify_done, MultiplexerType
<1> HIDE DEF d
<1>8. n.ec = m.ec /\ n.status = st /\ n.reqs = Kept(m.reqs, Elem \ S)
  BY <1>3, <1>4, <1>7, EraseEffect DEF erase, MultiplexerType
<1>9. Queued(m) \ Queued(n) \subseteq S
  <2>1. m.reqs \in Seq(Elem)
    BY <1>1 DEF MultiplexerType
  <2>2. Queued(n) = Queued(m) \ S
    <3>1. WellFormed(m) /\ Queued(erase(m, S)) = Queued(m) \ S
      BY Erase, Zenon
    <3>2. erase(m, S).reqs = Kept(m.reqs, Elem \ S)
      BY <1>1 DEF erase, MultiplexerType
    <3>3. QED
      BY <1>8, <3>1, <3>2, Zenon DEF Queued
  <2>3. QED
    BY <2>2
<1>10. QED
  BY <1>2, <1>6, <1>8, <1>9 DEF n, is_waiting

\* add notifies nobody and changes no status.
LEMMA AddEffect ==
  ASSUME NEW m, WellFormed(m), NEW e \in Elem
  PROVE  add(m, e).ec = m.ec /\ add(m, e).done = m.done /\ add(m, e).status = m.status
BY DEF add, WellFormed, MultiplexerType

\* reset notifies nobody.
LEMMA ResetEffect ==
  ASSUME NEW m, WellFormed(m)
  PROVE  reset(m).ec = m.ec
BY DEF reset, WellFormed, MultiplexerType

\* remove notifies nobody; the caller knows that it is cancelled.
LEMMA RemoveEffect ==
  ASSUME NEW m, WellFormed(m), NEW e \in Elem
  PROVE  remove(m, e).ec = m.ec
BY EraseEffect DEF remove, WellFormed

\* commit_response notifies, without an error, the elem that it takes out.
LEMMA CommitResponseEffect ==
  ASSUME NEW m, WellFormed(m), m.reqs # << >>
  PROVE  LET n == commit_response(m)
         IN  n.ec = m.ec /\ Queued(m) \ Queued(n) \subseteq {Head(m.reqs)}
<1> DEFINE f == Head(m.reqs)
           a == [m EXCEPT !.remaining = [m.remaining EXCEPT ![f] = @ - 1]]
           d == notify_done(a, {f})
           t == [d EXCEPT !.reqs = Tail(d.reqs)]
           n == commit_response(m)
<1>1. m \in MultiplexerType
  BY DEF WellFormed
<1>2. n = IF a.remaining[f] = 0 THEN t ELSE a
  BY <1>1 DEF commit_response, MultiplexerType
<1>3. a.ec = m.ec /\ a.reqs = m.reqs /\ d.ec = m.ec /\ d.reqs = m.reqs
  BY <1>1 DEF notify_done, MultiplexerType
<1>4. t.ec = m.ec /\ t.reqs = Tail(m.reqs)
  BY <1>1, <1>3 DEF notify_done, MultiplexerType
<1>5. Queued(a) = Queued(m)
  BY <1>3 DEF Queued
<1>6. Queued(t) = Queued(m) \ {f}
  <2> DEFINE x == [m EXCEPT !.reqs = Tail(m.reqs)]
  <2>1. Queued(x) = Queued(m) \ {f}
    BY Pop
  <2>2. x.reqs = t.reqs
    BY <1>1, <1>4, Zenon DEF MultiplexerType
  <2> HIDE DEF x, t
  <2>3. QED
    BY <2>1, <2>2, Zenon DEF Queued
<1> HIDE DEF a, t, f, n
<1>7. n = t \/ n = a
  BY <1>2
<1>8. n.ec = m.ec /\ Queued(m) \ Queued(n) \subseteq {f}
  BY <1>3, <1>4, <1>5, <1>6, <1>7
<1>9. QED
  BY <1>8 DEF n, f

(***************************************************************************)
(* commit_read, if it does not fail, notifies at most the elem in front,   *)
(* which was sent; if it fails, it notifies elems G but leaves the queue.  *)
(***************************************************************************)
LEMMA CommitReadEffect ==
  ASSUME NEW m, WellFormed(m), Len(m.read_buffer) > m.parsed
  PROVE  LET n == commit_read(m)
         IN  /\ parse_outcome(m) # "bad" =>
                  /\ n.ec = m.ec
                  /\ n.done = m.done \cup (Queued(m) \ Queued(n))
                  /\ \A e \in Queued(m) \ Queued(n) : ~is_waiting(m, e)
             /\ parse_outcome(m) = "bad" =>
                  \E G \in SUBSET Queued(m) :
                    /\ Queued(n) = Queued(m) /\ n.done = m.done \cup G
                    /\ n.ec = Noted(m, G, "bad")
<1> DEFINE push == m.on_push \/ is_next_push(m)
           a == [m EXCEPT !.parsed = parse_end(m), !.on_push = push]
           b == IF push THEN a ELSE commit_response(a)
           x == notify_error(a, {Head(a.reqs)}, "bad")
           n == commit_read(m)
<1>1. m \in MultiplexerType /\ parse_end(m) \in Nat
  <2>1. m \in MultiplexerType /\ m.parsed \in Nat
    BY DEF WellFormed, MultiplexerType
  <2>2. parse_end(m) \in (m.parsed + 1)..Len(m.read_buffer)
    BY ParseEnd
  <2>3. QED
    BY <2>1, <2>2
<1>2. push \in BOOLEAN
  BY <1>1 DEF is_next_push, MultiplexerType
<1>3. ~push => /\ m.reqs # << >> /\ m.remaining[Head(m.reqs)] # 0
               /\ ~is_waiting(m, Head(m.reqs))
  BY DEF is_next_push
<1>4. /\ parse_outcome(m) = "more" => n = a
      /\ parse_outcome(m) = "done" => n = on_finish_parsing(b)
      /\ parse_outcome(m) = "bad" => n = IF push THEN a ELSE x
  BY DEF commit_read
<1>5. parse_outcome(m) \in {"more", "done", "bad"}
  BY ParseEnd
<1> HIDE DEF push, n
<1>6. /\ a \in MultiplexerType /\ a.reqs = m.reqs /\ a.status = m.status
      /\ a.done = m.done /\ a.ec = m.ec /\ a.remaining = m.remaining
  BY <1>1, <1>2, Zenon DEF MultiplexerType
<1> HIDE DEF a
<1>7. WellFormed(a) /\ Queued(a) = Queued(m)
  BY <1>6, SameQueue
<1> DEFINE Good(y) == /\ y.ec = m.ec
                      /\ y.done = m.done \cup (Queued(m) \ Queued(y))
                      /\ \A e \in Queued(m) \ Queued(y) : ~is_waiting(m, e)
<1>8. Good(a)
  BY <1>6, <1>7
<1>9. WellFormed(b) /\ Good(b)
  <2>1. CASE push
    BY <1>7, <1>8, <2>1
  <2>2. CASE ~push
    <3> DEFINE d == commit_response(a)
    <3>1. a.reqs # << >> /\ a.remaining[Head(a.reqs)] # 0 /\ Head(a.reqs) = Head(m.reqs)
      BY <1>3, <1>6, <2>2
    <3>2. WellFormed(d) /\ d.done = a.done \cup (Queued(a) \ Queued(d))
      BY <1>7, <3>1, CommitResponse
    <3>3. d.ec = a.ec /\ Queued(a) \ Queued(d) \subseteq {Head(m.reqs)}
      BY <1>7, <3>1, CommitResponseEffect
    <3> HIDE DEF d
    <3>4. Good(d)
      BY <1>3, <1>6, <1>7, <2>2, <3>2, <3>3
    <3>5. b = d
      BY <2>2 DEF d
    <3>6. QED
      BY <3>2, <3>4, <3>5
  <2>3. QED
    BY <2>1, <2>2
<1> HIDE DEF b
<1>10. Good(on_finish_parsing(b))
  <2> DEFINE y == on_finish_parsing(b)
  <2>1. y.reqs = b.reqs /\ y.done = b.done
    BY <1>9, FinishParsing
  <2>2. y.ec = b.ec
    BY <1>9 DEF on_finish_parsing, WellFormed, MultiplexerType
  <2> HIDE DEF y
  <2>3. Queued(y) = Queued(b)
    BY <2>1 DEF Queued
  <2>4. Good(y)
    BY <1>9, <2>1, <2>2, <2>3
  <2>5. QED
    BY <2>4 DEF y
<1> DEFINE Failed(y) == \E G \in SUBSET Queued(m) :
                          /\ Queued(y) = Queued(m) /\ y.done = m.done \cup G
                          /\ y.ec = Noted(m, G, "bad")
<1>11. Failed(a)
  <2>1. Noted(m, {}, "bad") = m.ec
    BY <1>1 DEF Noted, MultiplexerType
  <2>2. a.done = m.done \cup {}
    BY <1>6
  <2>3. QED
    BY <1>6, <1>7, <2>1, <2>2
<1>12. CASE ~push
  <2> DEFINE G == {Head(a.reqs)}
  <2>1. G \subseteq Queued(m) /\ G \in SUBSET Elem
    BY <1>3, <1>6, <1>7, <1>12, Pop, QueuedElem, Zenon
  <2>2. /\ x.reqs = a.reqs /\ x.done = a.done \cup G /\ x.ec = Noted(a, G, "bad")
    <3>1. "bad" \in Error
      BY DEF Error
    <3>2. x = notify_error(a, G, "bad")
      OBVIOUS
    <3> HIDE DEF G, x
    <3>3. a \in MultiplexerType /\ G \in SUBSET Elem
      BY <1>6, <2>1
    <3>4. x.ec = Noted(a, G, "bad")
      BY <3>1, <3>2, <3>3, NotifyErrorEffect
    <3>5. x.reqs = a.reqs /\ x.done = a.done \cup G
      BY <3>1, <3>2, <3>3, NotifyErrorEffect
    <3>6. QED
      BY <3>4, <3>5
  <2> HIDE DEF x, G
  <2>3. Queued(x) = Queued(m) /\ Noted(a, G, "bad") = Noted(m, G, "bad")
    BY <1>6, <1>7, <2>2 DEF Queued, Noted
  <2>4. Failed(x)
    BY <1>6, <2>1, <2>2, <2>3
  <2>5. QED
    BY <1>4, <1>5, <1>8, <1>10, <1>12, <2>4 DEF n
<1>13. CASE push
  BY <1>4, <1>5, <1>8, <1>10, <1>11, <1>13 DEF n
<1>14. QED
  BY <1>12, <1>13

------------------------------------------------------------------------------
ContractInv == QueueInv /\ NotifiedSound

\* What of the state decides the phase of an elem.
LEMMA PhaseOf ==
  ASSUME NEW e \in Elem
  PROVE  /\ exec_phase[e] \in Service!Phase
         /\ exec_phase[e] = "idle" <=> e \notin started
         /\ exec_phase[e] = "failed" <=>
              e \in started /\ (e \in canceled \/ mpx.ec[e] # "none")
         /\ exec_phase[e] = "replied" <=>
              e \in started /\ e \notin canceled /\ mpx.ec[e] = "none" /\ e \in mpx.done
         /\ exec_phase[e] = "queued" <=>
              /\ e \in started /\ e \notin canceled /\ mpx.ec[e] = "none"
              /\ e \notin mpx.done /\ is_waiting(mpx, e)
         /\ exec_phase[e] = "sent" <=>
              /\ e \in started /\ e \notin canceled /\ mpx.ec[e] = "none"
              /\ e \notin mpx.done /\ ~is_waiting(mpx, e)
         /\ exec_phase[e] # "ok"
BY Zenon DEF exec_phase, Service!Phase

\* The same, of the state after a step.
LEMMA PhaseOfNext ==
  ASSUME NEW e \in Elem
  PROVE  /\ exec_phase'[e] \in Service!Phase
         /\ exec_phase'[e] = "idle" <=> e \notin started'
         /\ exec_phase'[e] = "failed" <=>
              e \in started' /\ (e \in canceled' \/ mpx'.ec[e] # "none")
         /\ exec_phase'[e] = "replied" <=>
              e \in started' /\ e \notin canceled' /\ mpx'.ec[e] = "none" /\ e \in mpx'.done
         /\ exec_phase'[e] = "queued" <=>
              /\ e \in started' /\ e \notin canceled' /\ mpx'.ec[e] = "none"
              /\ e \notin mpx'.done /\ is_waiting(mpx', e)
         /\ exec_phase'[e] = "sent" <=>
              /\ e \in started' /\ e \notin canceled' /\ mpx'.ec[e] = "none"
              /\ e \notin mpx'.done /\ ~is_waiting(mpx', e)
         /\ exec_phase'[e] # "ok"
BY DEF exec_phase, Service!Phase, is_waiting

\* exec_phase is a function of the requests to their phases.
LEMMA PhaseType ==
  /\ exec_phase \in [Elem -> Service!Phase]
  /\ exec_phase' \in [Elem -> Service!Phase]
BY DEF exec_phase, Service!Phase

\* The invariant, with what its proof and the steps below use of it.
LEMMA ContractInvUnfolded ==
  ASSUME ContractInv
  PROVE  /\ WellFormed(mpx) /\ mpx \in MultiplexerType
         /\ started \subseteq Elem /\ Queued(mpx) \subseteq started
         /\ mpx.done \subseteq started /\ canceled \subseteq started
         /\ \A e \in started \ (mpx.done \cup canceled) : e \in Queued(mpx)
         /\ \A e \in Elem : mpx.ec[e] # "none" => e \in mpx.done
         /\ \A e \in mpx.done : mpx.ec[e] = "none" => e \notin Queued(mpx)
         /\ ~up => \A e \in Queued(mpx) : is_waiting(mpx, e)
         /\ up => ~mpx.cancel_run_called
         /\ up \in BOOLEAN
BY QueueInvUnfolded DEF ContractInv, NotifiedSound, WellFormed

(***************************************************************************)
(* A step that notifies the elems of D of an error, cancels the calls of   *)
(* C, and lets everything else in the queue wait, if it may, is a lost     *)
(* connection.                                                             *)
(***************************************************************************)
LEMMA LoseStep ==
  ASSUME ContractInv, NEW D \in SUBSET Queued(mpx), NEW C \in SUBSET started,
         C \cap (mpx.done \cup canceled) = {},
         started' = started, canceled' = canceled \cup C, mpx'.done = mpx.done \cup D,
         Queued(mpx') \subseteq Queued(mpx),
         \A e \in Elem : mpx'.ec[e] # "none" <=> mpx.ec[e] # "none" \/ e \in D,
         \A e \in Queued(mpx) \ (C \cup D) :
           is_waiting(mpx', e) /\ (is_waiting(mpx, e) \/ e \notin CancelIfUnresponded)
  PROVE  NotifiedSound' /\ Service!Lose
<1>1. NotifiedSound'
  BY ContractInvUnfolded DEF NotifiedSound
<1>2. ASSUME NEW e \in Elem
      PROVE  /\ exec_phase[e] \in {"idle", "failed", "replied"} => exec_phase'[e] = exec_phase[e]
             /\ exec_phase[e] = "queued" => exec_phase'[e] \in {"queued", "failed"}
             /\ exec_phase[e] = "sent" =>
                  \/ exec_phase'[e] = "failed"
                  \/ exec_phase'[e] = "queued" /\ e \in Elem \ CancelIfUnresponded
  <2>1. exec_phase[e] \in {"idle", "failed"} => exec_phase'[e] = exec_phase[e]
    BY ContractInvUnfolded, PhaseOf, PhaseOfNext, Zenon
  <2>2. exec_phase[e] = "replied" => exec_phase'[e] = exec_phase[e]
    BY ContractInvUnfolded, PhaseOf, PhaseOfNext, Zenon
  <2>3. exec_phase[e] \in {"queued", "sent"} => e \in Queued(mpx)
    BY ContractInvUnfolded, PhaseOf
  <2>4. exec_phase[e] = "queued" => exec_phase'[e] \in {"queued", "failed"}
    BY <2>3, PhaseOf, PhaseOfNext
  <2>5. exec_phase[e] = "sent" =>
          \/ exec_phase'[e] = "failed"
          \/ exec_phase'[e] = "queued" /\ e \in Elem \ CancelIfUnresponded
    BY <2>3, PhaseOf, PhaseOfNext
  <2>6. QED
    BY <2>1, <2>2, <2>4, <2>5
<1>3. \A e \in Elem : exec_phase[e] \in {"idle", "failed", "replied", "queued", "sent"}
  BY PhaseOf DEF Service!Phase
<1>4. Service!Lose
  <2> DEFINE M == {<<"sent", "queued">>} \cup ({"queued", "sent", "replied"} \X {"failed"})
  <2>1. \A e \in Elem : exec_phase'[e] # exec_phase[e] => <<exec_phase[e], exec_phase'[e]>> \in M
    BY <1>2, <1>3
  <2>2. QED
    BY <1>2, <2>1, PhaseType DEF Service!Lose, Service!Step
<1>5. QED
  BY <1>1, <1>4

(***************************************************************************)
(* A step that takes the elems of D, which were sent, from the queue and   *)
(* notifies them without an error, and un-sends nothing, is a transfer.    *)
(***************************************************************************)
LEMMA TransferStep ==
  ASSUME ContractInv, NEW D \in SUBSET Queued(mpx),
         \A e \in D : ~is_waiting(mpx, e),
         started' = started, canceled' = canceled,
         mpx'.done = mpx.done \cup D, Queued(mpx') = Queued(mpx) \ D,
         mpx'.ec = mpx.ec,
         \A e \in Elem : ~is_waiting(mpx, e) => ~is_waiting(mpx', e)
  PROVE  NotifiedSound' /\ Service!Transfer
<1>1. NotifiedSound'
  BY ContractInvUnfolded DEF NotifiedSound
<1>2. ASSUME NEW e \in Elem
      PROVE  /\ exec_phase[e] \in {"idle", "failed", "replied"} => exec_phase'[e] = exec_phase[e]
             /\ exec_phase[e] = "queued" => exec_phase'[e] \in {"queued", "sent"}
             /\ exec_phase[e] = "sent" => exec_phase'[e] \in {"sent", "replied"}
  <2>1. exec_phase[e] \in {"idle", "failed", "replied"} => exec_phase'[e] = exec_phase[e]
    BY ContractInvUnfolded, PhaseOf, PhaseOfNext, Zenon
  <2>2. exec_phase[e] = "queued" => exec_phase'[e] \in {"queued", "sent"}
    BY PhaseOf, PhaseOfNext
  <2>3. exec_phase[e] = "sent" => exec_phase'[e] \in {"sent", "replied"}
    BY PhaseOf, PhaseOfNext
  <2>4. QED
    BY <2>1, <2>2, <2>3
<1>3. \A e \in Elem : exec_phase[e] \in {"idle", "failed", "replied", "queued", "sent"}
  BY PhaseOf DEF Service!Phase
<1>4. QED
  BY <1>1, <1>2, <1>3, PhaseType DEF Service!Transfer, Service!Step

(***************************************************************************)
(* A step that notifies the waiting elems D of an error and cancels the    *)
(* calls of C, whose elems wait as well, leaves all others as they are.    *)
(***************************************************************************)
LEMMA CancelStep ==
  ASSUME ContractInv, NEW D \in SUBSET Queued(mpx), NEW C \in SUBSET started,
         C \cap (mpx.done \cup canceled) = {},
         \A e \in C \cup D : is_waiting(mpx, e),
         started' = started, canceled' = canceled \cup C, mpx'.done = mpx.done \cup D,
         Queued(mpx') \subseteq Queued(mpx),
         \A e \in Elem : mpx'.ec[e] # "none" <=> mpx.ec[e] # "none" \/ e \in D,
         \A e \in Elem : is_waiting(mpx, e) <=> is_waiting(mpx', e)
  PROVE  NotifiedSound' /\ Service!Cancel
<1>1. NotifiedSound'
  BY ContractInvUnfolded DEF NotifiedSound
<1>2. ASSUME NEW e \in Elem
      PROVE  /\ exec_phase[e] # "queued" => exec_phase'[e] = exec_phase[e]
             /\ exec_phase[e] = "queued" => exec_phase'[e] \in {"queued", "failed"}
  <2>1. exec_phase[e] \in {"idle", "failed", "replied"} => exec_phase'[e] = exec_phase[e]
    BY ContractInvUnfolded, PhaseOf, PhaseOfNext, Zenon
  <2>2. exec_phase[e] = "queued" => exec_phase'[e] \in {"queued", "failed"}
    BY PhaseOf, PhaseOfNext, Zenon
  <2>3. exec_phase[e] = "sent" => exec_phase'[e] = "sent"
    BY PhaseOf, PhaseOfNext, Zenon
  <2>4. QED
    BY <2>1, <2>2, <2>3, PhaseOf DEF Service!Phase
<1>3. QED
  BY <1>1, <1>2, PhaseType DEF Service!Cancel, Service!Step

------------------------------------------------------------------------------
\* An error is noted exactly where there was one, or where it is notified.
LEMMA NotedWhere ==
  ASSUME NEW m, NEW S, NEW err, err # "none"
  PROVE  \A e \in Elem : Noted(m, S, err)[e] # "none" <=> m.ec[e] # "none" \/ e \in S
BY DEF Noted

(***************************************************************************)
(* The connection is lost after the elems of G were notified of a bad      *)
(* message and while the sent calls of C are cancelled.  If it was lost    *)
(* already, nothing is marked as sent, so nothing has to be done.          *)
(***************************************************************************)
LEMMA ConnLostContract ==
  ASSUME ContractInv, NEW n, WellFormed(n), NEW G \in SUBSET Queued(mpx),
         NEW C \in SUBSET started, C \cap (mpx.done \cup canceled) = {},
         Queued(n) = Queued(mpx), n.status = mpx.status,
         n.done = mpx.done \cup G, n.ec = Noted(mpx, G, "bad"),
         n.cancel_run_called = mpx.cancel_run_called,
         mpx' = cancel_on_conn_lost(n), started' = started, canceled' = canceled \cup C
  PROVE  NotifiedSound' /\ Service!Lose
<1>1. \A e \in Elem : n.ec[e] # "none" <=> mpx.ec[e] # "none" \/ e \in G
  BY NotedWhere
<1>2. Queued(mpx) \subseteq Elem
  BY ContractInvUnfolded
<1>3. CASE mpx.cancel_run_called
  <2>1. mpx' = n
    BY <1>3, ConnLostEffect, Zenon
  <2>2. \A e \in Queued(mpx) : is_waiting(mpx, e) /\ is_waiting(mpx', e)
    BY <1>3, <2>1, ContractInvUnfolded DEF is_waiting
  <2>3. QED
    BY <1>1, <2>1, <2>2, LoseStep
<1>4. CASE ~mpx.cancel_run_called
  <2> DEFINE S == lost_with_conn(n)
             D == G \cup S
  <2>1. /\ Queued(mpx') = Queued(mpx) \ S
        /\ mpx'.done = n.done \cup S
        /\ mpx'.ec = Noted(n, S, "aborted")
        /\ \A e \in Elem :
             mpx'.status[e] = IF e \in Queued(n) \ S THEN "waiting" ELSE n.status[e]
    BY <1>4, ConnLostEffect
  <2>2. \A e \in Queued(mpx) : e \in S <=>
          IF is_waiting(mpx, e) THEN e \in CancelOnConnectionLost ELSE e \in CancelIfUnresponded
    BY DEF lost_with_conn, is_waiting
  <2>3. S \subseteq Queued(mpx)
    BY DEF lost_with_conn
  <2> HIDE DEF S
  <2>4. \A e \in Elem : mpx'.ec[e] # "none" <=> n.ec[e] # "none" \/ e \in S
    BY <2>1, NotedWhere
  <2>5. \A e \in Queued(mpx) \ (C \cup D) :
          is_waiting(mpx', e) /\ (is_waiting(mpx, e) \/ e \notin CancelIfUnresponded)
    BY <1>2, <2>1, <2>2 DEF is_waiting
  <2>6. \A e \in Elem : mpx'.ec[e] # "none" <=> mpx.ec[e] # "none" \/ e \in D
    BY <1>1, <2>4
  <2>7. D \in SUBSET Queued(mpx) /\ mpx'.done = mpx.done \cup D /\ Queued(mpx') \subseteq Queued(mpx)
    BY <2>1, <2>3
  <2> HIDE DEF D
  <2>8. QED
    BY <2>5, <2>6, <2>7, LoseStep, Zenon
<1>5. QED
  BY <1>3, <1>4, ContractInvUnfolded DEF MultiplexerType

\* The same, when no bad message came before.
LEMMA OnlyLostContract ==
  ASSUME ContractInv, NEW C \in SUBSET started, C \cap (mpx.done \cup canceled) = {},
         mpx' = cancel_on_conn_lost(mpx), started' = started, canceled' = canceled \cup C
  PROVE  NotifiedSound' /\ Service!Lose
<1>1. mpx.ec = Noted(mpx, {}, "bad")
  BY ContractInvUnfolded DEF Noted, MultiplexerType
<1>2. mpx.done = mpx.done \cup {} /\ {} \in SUBSET Queued(mpx) /\ WellFormed(mpx)
  BY ContractInvUnfolded
<1>3. QED
  BY <1>1, <1>2, ConnLostContract

\* async_exec: one call more, and its request waits.
LEMMA ExecContractStep ==
  ASSUME ContractInv, NEW e \in Elem, Exec(e)
  PROVE  NotifiedSound' /\ Service!Call
<1>1. /\ e \notin started /\ started' = started \cup {e} /\ canceled' = canceled
      /\ mpx' = add(mpx, e)
  BY DEF Exec
<1>2. WellFormed(mpx) /\ e \notin Queued(mpx) /\ is_waiting(mpx, e)
  BY <1>1, ContractInvUnfolded, QueueInvUnfolded DEF ContractInv
<1>3. mpx'.ec = mpx.ec /\ mpx'.done = mpx.done /\ mpx'.status = mpx.status
  BY <1>1, <1>2, AddEffect
<1>4. Queued(mpx') = Queued(mpx) \cup {e}
  BY <1>1, <1>2, Add
<1>5. NotifiedSound'
  BY <1>1, <1>3, <1>4, ContractInvUnfolded DEF NotifiedSound
<1>6. ASSUME NEW x \in Elem, x # e
      PROVE  exec_phase'[x] = exec_phase[x]
  <2>1. /\ x \in started' <=> x \in started
        /\ is_waiting(mpx', x) <=> is_waiting(mpx, x)
    BY <1>1, <1>3, <1>6 DEF is_waiting
  <2>2. exec_phase'[x] = exec_phase[x]
    BY <1>1, <1>3, <2>1 DEF exec_phase, is_waiting
  <2>3. QED
    BY <2>2
<1>7. exec_phase[e] = "idle" /\ exec_phase'[e] = "queued"
  <2>1. is_waiting(mpx', e)
    BY <1>2, <1>3 DEF is_waiting
  <2>2. e \notin canceled /\ e \notin mpx.done /\ mpx.ec[e] = "none"
    BY <1>1, ContractInvUnfolded, Zenon
  <2>3. QED
    BY <1>1, <1>3, <2>1, <2>2, PhaseOf, PhaseOfNext, Zenon
<1>8. QED
  BY <1>5, <1>6, <1>7, PhaseType DEF Service!Call, Service!Step

\* Cancelling one call: its waiting request leaves alone, a sent one does not.
LEMMA CancelExecContractStep ==
  ASSUME ContractInv, NEW e \in Elem, CancelExec(e)
  PROVE  NotifiedSound' /\ (Service!Cancel \/ Service!Lose)
<1> DEFINE C == {e}
<1>1. /\ C \in SUBSET started /\ C \cap (mpx.done \cup canceled) = {}
      /\ started' = started /\ canceled' = canceled \cup C
  BY DEF CancelExec
<1>2. WellFormed(mpx)
  BY ContractInvUnfolded
<1>3. CASE is_waiting(mpx, e)
  <2>1. mpx' = remove(mpx, e) /\ \A x \in C \cup {} : is_waiting(mpx, x)
    BY <1>3 DEF CancelExec
  <2>2. /\ Queued(mpx') \subseteq Queued(mpx) /\ mpx'.done = mpx.done \cup {}
        /\ mpx'.status = mpx.status /\ mpx'.ec = mpx.ec
    BY <1>2, <1>3, <2>1, RemoveLemma, RemoveEffect, Zenon
  <2>3. \A x \in Elem : is_waiting(mpx, x) <=> is_waiting(mpx', x)
    BY <2>2 DEF is_waiting
  <2> HIDE DEF C
  <2>4. QED
    BY <1>1, <2>1, <2>2, <2>3, CancelStep, Zenon
<1>4. CASE ~is_waiting(mpx, e)
  <2>1. mpx' = cancel_on_conn_lost(mpx)
    BY <1>4 DEF CancelExec
  <2> HIDE DEF C
  <2>2. QED
    BY <1>1, <2>1, OnlyLostContract
<1>5. QED
  BY <1>3, <1>4

\* A failed write and cancel(operation::run) lose the connection.
LEMMA LostContractStep ==
  ASSUME ContractInv, WriteError \/ CancelRun
  PROVE  NotifiedSound' /\ Service!Lose
<1>1. /\ mpx' = cancel_on_conn_lost(mpx) /\ started' = started
      /\ canceled' = canceled \cup {} /\ {} \in SUBSET started
      /\ {} \cap (mpx.done \cup canceled) = {}
  BY DEF WriteError, CancelRun
<1>2. QED
  BY <1>1, OnlyLostContract, Zenon

\* cancel(operation::exec) cancels what waits and nothing else.
LEMMA CancelWaitingContractStep ==
  ASSUME ContractInv, CancelWaiting
  PROVE  NotifiedSound' /\ Service!Cancel
<1> DEFINE S == {e \in Queued(mpx) : is_waiting(mpx, e)}
<1>1. /\ mpx' = cancel_waiting(mpx) /\ started' = started /\ canceled' = canceled \cup {}
      /\ {} \in SUBSET started /\ {} \cap (mpx.done \cup canceled) = {}
  BY DEF CancelWaiting
<1>2. /\ Queued(mpx') = Queued(mpx) \ S /\ mpx'.done = mpx.done \cup S
      /\ mpx'.status = mpx.status /\ mpx'.ec = Noted(mpx, S, "aborted")
  BY <1>1, ContractInvUnfolded, CancelWaitingEffect, Zenon
<1>3. S \in SUBSET Queued(mpx) /\ \A e \in {} \cup S : is_waiting(mpx, e)
  OBVIOUS
<1> HIDE DEF S
<1>4. \A e \in Elem : mpx'.ec[e] # "none" <=> mpx.ec[e] # "none" \/ e \in S
  BY <1>2, NotedWhere
<1>5. \A e \in Elem : is_waiting(mpx, e) <=> is_waiting(mpx', e)
  BY <1>2 DEF is_waiting
<1>6. QED
  BY <1>1, <1>2, <1>3, <1>4, <1>5, CancelStep, Zenon

\* Requests are written.
LEMMA WriteContractStep ==
  ASSUME ContractInv, PrepareWrite \/ CommitWrite
  PROVE  NotifiedSound' /\ Service!Transfer
<1>1. started' = started /\ canceled' = canceled
  BY DEF PrepareWrite, CommitWrite
<1>2. CASE PrepareWrite
  <2>1. mpx' = prepare_write(mpx) /\ WellFormed(mpx)
    BY <1>2, ContractInvUnfolded, Zenon DEF PrepareWrite
  <2>2. Queued(mpx') = Queued(mpx) \ {} /\ mpx'.done = mpx.done \cup {}
    BY <2>1, PrepareWriteLemma
  <2>3. mpx'.ec = mpx.ec /\ \A e \in Elem : ~is_waiting(mpx, e) => ~is_waiting(mpx', e)
    BY <2>1, PrepareWriteEffect
  <2>4. {} \in SUBSET Queued(mpx) /\ \A e \in {} : ~is_waiting(mpx, e)
    OBVIOUS
  <2>5. QED
    BY <1>1, <2>2, <2>3, <2>4, TransferStep, Zenon
<1>3. CASE CommitWrite
  <2> DEFINE D == Queued(mpx) \ Queued(mpx')
  <2>1. mpx' = commit_write(mpx) /\ WellFormed(mpx)
    BY <1>3, ContractInvUnfolded, Zenon DEF CommitWrite
  <2>2. Queued(mpx') = Queued(mpx) \ D /\ mpx'.done = mpx.done \cup D
    BY <2>1, CommitWriteLemma, Zenon
  <2>3. /\ mpx'.ec = mpx.ec /\ \A e \in Elem : ~is_waiting(mpx, e) => ~is_waiting(mpx', e)
        /\ \A e \in D : ~is_waiting(mpx, e)
    BY <2>1, CommitWriteEffect
  <2>4. D \in SUBSET Queued(mpx)
    OBVIOUS
  <2> HIDE DEF D
  <2>5. QED
    BY <1>1, <2>2, <2>3, <2>4, TransferStep, Zenon
<1>4. QED
  BY <1>2, <1>3

\* A reply is committed, or a bad message ends the connection.
LEMMA CommitReadContractStep ==
  ASSUME ContractInv, CommitRead
  PROVE  NotifiedSound' /\ (Service!Transfer \/ Service!Lose)
<1> DEFINE n == commit_read(mpx)
<1>1. started' = started /\ canceled' = canceled /\ Len(mpx.read_buffer) > mpx.parsed
  BY Zenon DEF CommitRead
<1>2. WellFormed(mpx)
  BY ContractInvUnfolded
<1>3. /\ WellFormed(n) /\ Queued(n) \subseteq Queued(mpx) /\ n.status = mpx.status
      /\ n.cancel_run_called = mpx.cancel_run_called
  BY <1>1, <1>2, CommitReadLemma, Zenon
<1>4. CASE parse_outcome(mpx) # "bad"
  <2> DEFINE D == Queued(mpx) \ Queued(mpx')
  <2>1. mpx' = n
    BY <1>4, Zenon DEF CommitRead
  <2>2. /\ mpx'.ec = mpx.ec /\ mpx'.done = mpx.done \cup D
        /\ \A e \in D : ~is_waiting(mpx, e)
    BY <1>1, <1>2, <1>4, <2>1, CommitReadEffect, Zenon
  <2>3. \A e \in Elem : ~is_waiting(mpx, e) => ~is_waiting(mpx', e)
    BY <1>3, <2>1 DEF is_waiting
  <2>4. D \in SUBSET Queued(mpx) /\ Queued(mpx') = Queued(mpx) \ D
    BY <1>3, <2>1
  <2> HIDE DEF D
  <2>5. QED
    BY <1>1, <2>2, <2>3, <2>4, TransferStep, Zenon
<1>5. CASE parse_outcome(mpx) = "bad"
  <2>1. mpx' = cancel_on_conn_lost(n)
    BY <1>5, Zenon DEF CommitRead
  <2>2. PICK G \in SUBSET Queued(mpx) :
          Queued(n) = Queued(mpx) /\ n.done = mpx.done \cup G /\ n.ec = Noted(mpx, G, "bad")
    BY <1>1, <1>2, <1>5, CommitReadEffect, Zenon
  <2>3. canceled' = canceled \cup {} /\ {} \in SUBSET started
        /\ {} \cap (mpx.done \cup canceled) = {}
    BY <1>1
  <2> HIDE DEF n
  <2>4. QED
    BY <1>1, <1>3, <2>1, <2>2, <2>3, ConnLostContract, Zenon
<1>6. QED
  BY <1>4, <1>5

\* What no caller of async_exec notices: reset, and what only arrives.
LEMMA UnseenContractStep ==
  ASSUME ContractInv, started' = started, canceled' = canceled,
         mpx'.done = mpx.done, mpx'.ec = mpx.ec, mpx'.status = mpx.status,
         Queued(mpx') = Queued(mpx)
  PROVE  NotifiedSound' /\ UNCHANGED exec_phase
<1>1. NotifiedSound'
  BY ContractInvUnfolded, Zenon DEF NotifiedSound
<1>2. UNCHANGED exec_phase
  BY DEF exec_phase, is_waiting
<1>3. QED
  BY <1>1, <1>2

\* Connecting and reading are such steps.
LEMMA QuietContractStep ==
  ASSUME ContractInv,
         \/ Connect
         \/ \E end \in {"more", "done", "bad"} : ReadReply(end) \/ ReadPush(end)
         \/ UNCHANGED vars
  PROVE  NotifiedSound' /\ UNCHANGED exec_phase
<1>1. WellFormed(mpx) /\ mpx \in MultiplexerType
  BY ContractInvUnfolded
<1>2. CASE Connect
  <2>1. mpx' = reset(mpx) /\ started' = started /\ canceled' = canceled
    BY <1>2 DEF Connect
  <2>2. /\ Queued(mpx') = Queued(mpx) /\ mpx'.done = mpx.done
        /\ mpx'.status = mpx.status /\ mpx'.ec = mpx.ec
    BY <1>1, <2>1, ResetLemma, ResetEffect
  <2>3. QED
    BY <2>1, <2>2, UnseenContractStep
<1>3. ASSUME NEW part, Arrives(part)
      PROVE  NotifiedSound' /\ UNCHANGED exec_phase
  <2>1. /\ started' = started /\ canceled' = canceled
        /\ mpx' = [mpx EXCEPT !.read_buffer = Append(mpx.read_buffer, part)]
    BY <1>3 DEF Arrives
  <2>2. /\ mpx'.reqs = mpx.reqs /\ mpx'.done = mpx.done
        /\ mpx'.status = mpx.status /\ mpx'.ec = mpx.ec
    BY <1>1, <2>1 DEF MultiplexerType
  <2>3. Queued(mpx') = Queued(mpx)
    BY <2>2 DEF Queued
  <2>4. QED
    BY <2>1, <2>2, <2>3, UnseenContractStep
<1>4. CASE UNCHANGED vars
  BY <1>4, UnseenContractStep DEF vars, Queued
<1>5. ASSUME NEW end \in {"more", "done", "bad"}, ReadReply(end)
      PROVE  NotifiedSound' /\ UNCHANGED exec_phase
  <2>1. \E part : Arrives(part)
    BY <1>5 DEF ReadReply
  <2>2. QED
    BY <1>3, <2>1
<1>6. ASSUME NEW end \in {"more", "done", "bad"}, ReadPush(end)
      PROVE  NotifiedSound' /\ UNCHANGED exec_phase
  <2>1. \E part : Arrives(part)
    BY <1>6 DEF ReadPush
  <2>2. QED
    BY <1>3, <2>1
<1>7. QED
  BY <1>2, <1>4, <1>5, <1>6

(***************************************************************************)
(* Every step of the pipeline is a step of the service, or none.           *)
(***************************************************************************)
LEMMA NextContract ==
  ContractInv /\ [Next]_vars => ContractInv' /\ [Service!Next]_exec_phase
<1> SUFFICES ASSUME ContractInv, [Next]_vars
             PROVE  NotifiedSound' /\ [Service!Next]_exec_phase
  BY NextQueueInv DEF ContractInv
<1>1. ASSUME NEW e \in Elem, Exec(e) PROVE NotifiedSound' /\ [Service!Next]_exec_phase
  BY <1>1, ExecContractStep DEF Service!Next
<1>2. ASSUME NEW e \in Elem, CancelExec(e) PROVE NotifiedSound' /\ [Service!Next]_exec_phase
  BY <1>2, CancelExecContractStep DEF Service!Next
<1>3. CASE PrepareWrite \/ CommitWrite
  BY <1>3, WriteContractStep DEF Service!Next
<1>4. CASE WriteError \/ CancelRun
  BY <1>4, LostContractStep DEF Service!Next
<1>5. CASE CommitRead
  BY <1>5, CommitReadContractStep DEF Service!Next
<1>6. CASE CancelWaiting
  BY <1>6, CancelWaitingContractStep DEF Service!Next
<1>7. CASE Connect \/ UNCHANGED vars
  BY <1>7, QuietContractStep
<1>8. ASSUME NEW end \in {"more", "done", "bad"}, ReadReply(end) \/ ReadPush(end)
      PROVE  NotifiedSound' /\ [Service!Next]_exec_phase
  BY <1>8, QuietContractStep
<1>9. QED
  BY <1>1, <1>2, <1>3, <1>4, <1>5, <1>6, <1>7, <1>8 DEF Next

\* Before any call all requests are idle.
LEMMA InitContract == Init => ContractInv /\ Service!Init
<1> SUFFICES ASSUME Init PROVE ContractInv /\ Service!Init
  OBVIOUS
<1>1. QueueInv
  BY InitQueueInv
<1>2. mpx.done = {} /\ started = {} /\ canceled = {} /\ \A e \in Elem : mpx.ec[e] = "none"
  BY Zenon DEF Init, multiplexer
<1>3. NotifiedSound
  BY <1>2 DEF NotifiedSound
<1>4. exec_phase = [e \in Elem |-> "idle"]
  BY <1>2 DEF exec_phase
<1>5. QED
  BY <1>1, <1>3, <1>4 DEF ContractInv, Service!Init

\* Notifications are sound in every reachable state.
THEOREM NotifiedSoundHolds == Spec => []NotifiedSound
<1>1. ContractInv => NotifiedSound
  BY DEF ContractInv
<1>2. QED
  BY <1>1, InitContract, NextContract, PTL DEF Spec

(***************************************************************************)
(* The pipeline implements the contract of async_exec, whatever the        *)
(* requests, their configuration, the server, and the number of losses,    *)
(* cancellations and reconnections.                                        *)
(***************************************************************************)
THEOREM ContractHolds == Spec => ExecContract
<1>1. Spec => []ContractInv
  BY InitContract, NextContract, PTL DEF Spec
<1>2. QED
  BY <1>1, InitContract, NextContract, PTL DEF Spec, ExecContract, Service!Spec
==============================================================================
