-------------------------- MODULE OutboxRelayProofs -------------------------
(***************************************************************************)
(* The outbox guarantee, for any number of rows and dispatcher replicas    *)
(* and any number of faults.                                               *)
(***************************************************************************)
EXTENDS OutboxRelay, TLAPS

\* A failed or successful XADD never shrinks the number of copies, and the
\* one row it counts for is the row the dispatcher marks next.
LEMMA SendCounts ==
  ASSUME SentInv, NEW d \in Dispatcher, NEW h \in held[d], Current(d, h),
         NEW k \in Nat, sent' = [sent EXCEPT ![h.event] = @ + k]
  PROVE  /\ sent' \in [Events -> Nat]
         /\ \A e \in Events : sent[e] <= sent'[e]
         /\ k > 0 => \A g \in held[d] : Current(d, g) => sent'[g.event] > 0
PROOF
  <1>1. h.event \in Events /\ \A g \in held[d] : g.event \in Events
    BY DEF SentInv, RowsOK, Held
  <1>2. sent \in [Events -> Nat]
    BY DEF SentInv, RowsOK
  <1>3. sent'[h.event] = sent[h.event] + k
    BY <1>1, <1>2
  <1>4. \A g \in held[d] : Current(d, g) => g.event = h.event
    <2>1. SUFFICES ASSUME NEW g \in held[d], Current(d, g)
                   PROVE  g.event = h.event
      OBVIOUS
    <2>2. g.event \in Nat /\ h.event \in Nat
      BY <1>1, RelayAssumption
    <2>3. g.event <= h.event /\ h.event <= g.event
      BY <2>1 DEF Current
    <2>4. QED
      BY <2>2, <2>3
  <1>5. /\ sent' \in [Events -> Nat]
        /\ \A e \in Events : sent[e] <= sent'[e]
    BY <1>1, <1>2, <1>3
  <1>6. k > 0 => sent'[h.event] > 0
    <2>1. sent[h.event] \in Nat
      BY <1>1, <1>2
    <2>2. QED
      BY <1>3, <2>1
  <1>7. QED
    BY <1>4, <1>5, <1>6

\* Every step of a dispatcher preserves SentInv.
LEMMA DispatcherPreserves ==
  ASSUME SentInv, NEW d \in Dispatcher,
         Relay(d) \/ PublishFails(d) \/ DispatcherEnds(d) \/ Crash(d) \/ Restart(d)
  PROVE  SentInv'
PROOF
  <1>1. CASE Claim(d)
    <2>1. {[event |-> e, attempts |-> attempts[e]] : e \in FirstDue} \subseteq Held
      <3>1. FirstDue \subseteq Events
        BY DEF FirstDue, Due
      <3>2. \A e \in Events : [event |-> e, attempts |-> attempts[e]] \in Held
        BY DEF Held, SentInv, RowsOK
      <3>3. QED
        BY <3>1, <3>2
    <2>2. RowsOK' /\ DispatchedWasSent'
      BY <1>1, <2>1 DEF Claim, SentInv, RowsOK, DispatchedWasSent
    <2>3. MarkFollowsSend'
      BY <1>1 DEF Claim, SentInv, RowsOK, MarkFollowsSend, Current
    <2>4. QED
      BY <2>2, <2>3 DEF SentInv
  <1>2. CASE Publish(d)
    <2>1. PICK h \in held[d] : Current(d, h) /\ sent' = [sent EXCEPT ![h.event] = @ + 1]
      BY <1>2 DEF Publish
    <2>2. /\ sent' \in [Events -> Nat]
          /\ \A e \in Events : sent[e] <= sent'[e]
          /\ \A g \in held[d] : Current(d, g) => sent'[g.event] > 0
      <3>1. 1 \in Nat /\ 1 > 0
        OBVIOUS
      <3>2. QED
        BY <2>1, <3>1, SendCounts, Zenon
    <2>3. RowsOK'
      BY <1>2, <2>2 DEF Publish, SentInv, RowsOK
    <2>4. MarkFollowsSend'
      <3>1. SUFFICES ASSUME NEW c \in Dispatcher, pc'[c] = "mark",
                            NEW g \in held[c], Current(c, g)
                     PROVE  sent'[g.event] > 0
        BY <1>2 DEF Publish, MarkFollowsSend, Current
      <3>2. CASE c = d
        BY <2>2, <3>1, <3>2
      <3>3. CASE c # d
        <4>1. pc[c] = "mark"
          BY <1>2, <3>1, <3>3 DEF Publish, SentInv, RowsOK
        <4>2. g.event \in Events /\ sent[g.event] > 0
          BY <3>1, <4>1 DEF SentInv, RowsOK, Held, MarkFollowsSend
        <4>3. QED
          BY <2>2, <4>2 DEF SentInv, RowsOK
      <3>4. QED
        BY <3>2, <3>3
    <2>5. DispatchedWasSent'
      BY <1>2, <2>2 DEF Publish, SentInv, RowsOK, DispatchedWasSent
    <2>6. QED
      BY <2>3, <2>4, <2>5 DEF SentInv
  <1>3. CASE PublishFails(d)
    <2>1. PICK h \in held[d], k \in {0, 1} :
            Current(d, h) /\ sent' = [sent EXCEPT ![h.event] = @ + k]
      BY <1>3 DEF PublishFails
    <2>2. /\ sent' \in [Events -> Nat]
          /\ \A e \in Events : sent[e] <= sent'[e]
      BY <2>1, SendCounts
    <2>3. RowsOK'
      BY <1>3, <2>2 DEF PublishFails, SentInv, RowsOK
    <2>4. MarkFollowsSend'
      BY <1>3, <2>2 DEF PublishFails, SentInv, RowsOK, MarkFollowsSend, Current, Held
    <2>5. DispatchedWasSent'
      BY <1>3, <2>2 DEF PublishFails, SentInv, RowsOK, DispatchedWasSent
    <2>6. QED
      BY <2>3, <2>4, <2>5 DEF SentInv
  <1>4. CASE MarkDispatched(d)
    <2>1. PICK h \in held[d] : /\ Current(d, h)
                               /\ status' = [status EXCEPT ![h.event] = "dispatched"]
                               /\ Drop(d, h)
      BY <1>4 DEF MarkDispatched
    <2>2. sent[h.event] > 0
      BY <1>4, <2>1 DEF MarkDispatched, SentInv, MarkFollowsSend
    <2>3. RowsOK' /\ DispatchedWasSent'
      BY <1>4, <2>1, <2>2 DEF MarkDispatched, Drop, SentInv, RowsOK, DispatchedWasSent
    <2>4. MarkFollowsSend'
      BY <1>4, <2>1 DEF MarkDispatched, Drop, SentInv, RowsOK, MarkFollowsSend, Current
    <2>5. QED
      BY <2>3, <2>4 DEF SentInv
  <1>5. CASE MarkFailed(d)
    <2>1. PICK h \in held[d] : /\ \E x \in {"failed", "pending"} :
                                    status' = [status EXCEPT ![h.event] = x]
                               /\ Drop(d, h)
      BY <1>5 DEF MarkFailed
    <2>2. RowsOK' /\ DispatchedWasSent'
      BY <1>5, <2>1 DEF MarkFailed, Held, Drop, SentInv, RowsOK, DispatchedWasSent
    <2>3. MarkFollowsSend'
      BY <1>5, <2>1 DEF MarkFailed, Drop, SentInv, RowsOK, MarkFollowsSend, Current
    <2>4. QED
      BY <2>2, <2>3 DEF SentInv
  <1>6. CASE DispatcherEnds(d) \/ Crash(d) \/ Restart(d)
    BY <1>6 DEF DispatcherEnds, Crash, Restart, SentInv, RowsOK,
       MarkFollowsSend, DispatchedWasSent, Current
  <1>7. QED
    BY <1>1, <1>2, <1>3, <1>4, <1>5, <1>6 DEF Relay

\* No row counts as dispatched before its command is on the stream, however
\* many replicas publish, fail, die and retry the same rows.
THEOREM RelayIsSafe == Spec => []DispatchedWasSent
PROOF
  <1>1. Init => SentInv
    BY DEF Init, SentInv, RowsOK, MarkFollowsSend, DispatchedWasSent
  <1>2. SentInv /\ [Next]_vars => SentInv'
    <2>1. SUFFICES ASSUME SentInv, [Next]_vars PROVE SentInv'
      OBVIOUS
    <2>2. CASE UNCHANGED vars
      BY <2>1, <2>2 DEF vars, SentInv, RowsOK, MarkFollowsSend, DispatchedWasSent, Current
    <2>3. CASE Tick \/ \E e \in Events : Enqueue(e)
      BY <2>1, <2>3 DEF Tick, Enqueue, SentInv, RowsOK, MarkFollowsSend,
         DispatchedWasSent, Current
    <2>4. CASE \E d \in Dispatcher : \/ Relay(d) \/ PublishFails(d)
                                     \/ DispatcherEnds(d) \/ Crash(d) \/ Restart(d)
      BY <2>1, <2>4, DispatcherPreserves
    <2>5. QED
      BY <2>1, <2>2, <2>3, <2>4 DEF Next
  <1>3. SentInv => DispatchedWasSent
    BY DEF SentInv
  <1>4. QED
    BY <1>1, <1>2, <1>3, PTL DEF Spec

-----------------------------------------------------------------------------
(* The retry budget, with any number of dispatchers *)

\* Every step of a dispatcher preserves BudgetInv.
LEMMA BudgetPreserved ==
  ASSUME BudgetInv, NEW d \in Dispatcher,
         Relay(d) \/ PublishFails(d) \/ DispatcherEnds(d) \/ Crash(d) \/ Restart(d)
  PROVE  BudgetInv'
<1>0. /\ RowsOK /\ HeldIsBehind /\ FailedUsedBudget
      /\ MaxAttempts \in Nat \ {0}
  BY RelayAssumption DEF BudgetInv
<1>1. CASE Claim(d)
  <2> DEFINE batch == {[event |-> e, attempts |-> attempts[e]] : e \in FirstDue}
  <2>1. \A e \in FirstDue : e \in Events /\ attempts[e] \in Nat
    BY <1>0 DEF FirstDue, Due, RowsOK
  <2>2. \A h \in batch : h \in Held /\ h.attempts <= attempts[h.event]
    BY <2>1 DEF Held
  <2> HIDE DEF batch
  <2>3. held' = [held EXCEPT ![d] = batch] /\ pc' = [pc EXCEPT ![d] = "publish"]
        /\ UNCHANGED <<status, attempts, sent>>
    BY <1>1 DEF Claim, batch
  <2>4. RowsOK'
    BY <1>0, <2>2, <2>3 DEF RowsOK
  <2>5. HeldIsBehind'
    BY <1>0, <2>2, <2>3 DEF RowsOK, HeldIsBehind
  <2>6. QED
    BY <1>0, <2>3, <2>4, <2>5 DEF BudgetInv, FailedUsedBudget
<1>2. CASE Publish(d) \/ PublishFails(d)
  <2>1. PICK h \in held[d], k \in {0, 1} : sent' = [sent EXCEPT ![h.event] = @ + k]
    BY <1>2 DEF Publish, PublishFails
  <2>2. h.event \in Events
    BY <1>0 DEF RowsOK, Held
  <2>3. RowsOK'
    BY <1>0, <1>2, <2>1, <2>2 DEF RowsOK, Publish, PublishFails
  <2>4. HeldIsBehind' /\ FailedUsedBudget'
    BY <1>0, <1>2 DEF RowsOK, HeldIsBehind, FailedUsedBudget, Publish, PublishFails
  <2>5. QED
    BY <2>3, <2>4 DEF BudgetInv
<1>3. ASSUME NEW h \in held[d], Drop(d, h)
      PROVE  /\ h.event \in Events /\ h.attempts \in Nat
             /\ h.attempts <= attempts[h.event]
             /\ held' \in [Dispatcher -> SUBSET Held] /\ DOMAIN pc' = Dispatcher
             /\ \A c \in Dispatcher : held'[c] \subseteq held[c]
  <2>1. h \in Held /\ h.attempts <= attempts[h.event]
    BY <1>0, <1>3 DEF RowsOK, HeldIsBehind
  <2>2. held' \in [Dispatcher -> SUBSET Held] /\ DOMAIN pc' = Dispatcher
    BY <1>0, <1>3 DEF RowsOK, Drop
  <2>3. \A c \in Dispatcher : held'[c] \subseteq held[c]
    BY <1>0, <1>3 DEF RowsOK, Drop
  <2>4. QED
    BY <2>1, <2>2, <2>3 DEF Held
<1>4. CASE MarkDispatched(d)
  <2>1. PICK h \in held[d] : /\ status' = [status EXCEPT ![h.event] = "dispatched"]
                             /\ Drop(d, h)
    BY <1>4 DEF MarkDispatched
  <2>2. UNCHANGED <<attempts, sent>>
    BY <1>4 DEF MarkDispatched
  <2>3. RowsOK'
    BY <1>0, <1>3, <2>1, <2>2 DEF RowsOK
  <2>4. HeldIsBehind'
    BY <1>0, <1>3, <2>1, <2>2 DEF HeldIsBehind
  <2>5. FailedUsedBudget'
    BY <1>0, <1>3, <2>1, <2>2 DEF RowsOK, FailedUsedBudget
  <2>6. QED
    BY <2>3, <2>4, <2>5 DEF BudgetInv
<1>5. CASE MarkFailed(d)
  <2>1. PICK h \in held[d] :
          /\ status' = [status EXCEPT ![h.event] =
                          IF LastAttempt(h) THEN "failed" ELSE "pending"]
          /\ attempts' = [attempts EXCEPT ![h.event] = @ + 1]
          /\ Drop(d, h)
    BY <1>5 DEF MarkFailed
  <2>2. sent' = sent
    BY <1>5 DEF MarkFailed
  <2>3. /\ h.event \in Events /\ h.attempts \in Nat /\ attempts[h.event] \in Nat
        /\ h.attempts <= attempts[h.event]
    BY <1>0, <1>3, <2>1 DEF RowsOK
  <2>4. \A e \in Events : attempts[e] \in Nat /\ attempts'[e] \in Nat /\ attempts[e] <= attempts'[e]
    BY <1>0, <2>1, <2>3 DEF RowsOK
  <2>5. RowsOK'
    BY <1>0, <1>3, <2>1, <2>2, <2>3 DEF RowsOK
  <2>6. HeldIsBehind'
    <3>1. SUFFICES ASSUME NEW c \in Dispatcher, NEW g \in held'[c]
                   PROVE  g.attempts <= attempts'[g.event]
      BY DEF HeldIsBehind
    <3>2. g \in held[c] /\ g \in Held
      BY <1>0, <1>3, <2>1, <3>1 DEF RowsOK
    <3>3. g.attempts \in Nat /\ g.event \in Events /\ g.attempts <= attempts[g.event]
      BY <1>0, <3>2 DEF HeldIsBehind, Held
    <3>4. QED
      BY <2>4, <3>3
  <2>7. /\ attempts'[h.event] = attempts[h.event] + 1
        /\ status'[h.event] = IF h.attempts + 1 >= MaxAttempts THEN "failed" ELSE "pending"
    BY <1>0, <2>1, <2>3 DEF RowsOK, LastAttempt
  <2>8. FailedUsedBudget'
    <3>1. SUFFICES ASSUME NEW e \in Events, status'[e] = "failed"
                   PROVE  attempts'[e] >= MaxAttempts
      BY DEF FailedUsedBudget
    <3>2. CASE e = h.event
      BY <1>0, <2>3, <2>7, <3>1, <3>2
    <3>3. CASE e # h.event
      BY <1>0, <2>1, <3>1, <3>3 DEF RowsOK, FailedUsedBudget
    <3>4. QED
      BY <3>2, <3>3
  <2>9. QED
    BY <2>5, <2>6, <2>8 DEF BudgetInv
<1>6. CASE DispatcherEnds(d) \/ Crash(d) \/ Restart(d)
  BY <1>0, <1>6 DEF DispatcherEnds, Crash, Restart, BudgetInv, RowsOK,
     HeldIsBehind, FailedUsedBudget
<1>7. QED
  BY <1>1, <1>2, <1>4, <1>5, <1>6 DEF Relay

\* DispatcherConfig.max_attempts, for any number of rows, replicas, outages,
\* crashes and restarts: a row is given up only after that many failed
\* publishes.  The converse, that it is then not tried again, is refuted by
\* two dispatchers.
THEOREM BudgetIsUsed == Spec => []FailedUsedBudget
<1>1. Init => BudgetInv
  BY RelayAssumption DEF Init, BudgetInv, RowsOK, HeldIsBehind, FailedUsedBudget
<1>2. BudgetInv /\ [Next]_vars => BudgetInv'
  <2>1. SUFFICES ASSUME BudgetInv, [Next]_vars PROVE BudgetInv'
    OBVIOUS
  <2>2. CASE UNCHANGED vars
    BY <2>1, <2>2 DEF vars, BudgetInv, RowsOK, HeldIsBehind, FailedUsedBudget
  <2>3. CASE Tick
    BY <2>1, <2>3 DEF Tick, BudgetInv, RowsOK, HeldIsBehind, FailedUsedBudget
  <2>4. ASSUME NEW e \in Events, Enqueue(e) PROVE BudgetInv'
    <3>1. status' = [status EXCEPT ![e] = "pending"]
          /\ UNCHANGED <<attempts, sent, pc, held>>
      BY <2>4 DEF Enqueue
    <3>2. QED
      BY <2>1, <3>1 DEF BudgetInv, RowsOK, HeldIsBehind, FailedUsedBudget
  <2>5. QED
    BY <2>1, <2>2, <2>3, <2>4, BudgetPreserved DEF Next
<1>3. BudgetInv => FailedUsedBudget
  BY DEF BudgetInv
<1>4. QED
  BY <1>1, <1>2, <1>3, PTL DEF Spec

=============================================================================
