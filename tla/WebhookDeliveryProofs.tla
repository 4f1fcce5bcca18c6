----------------------- MODULE WebhookDeliveryProofs ------------------------
(***************************************************************************)
(* Proofs about WebhookDelivery, for every number of subscriptions, pauses *)
(* and dispatchers and every retry configuration.                          *)
(***************************************************************************)
EXTENDS WebhookDelivery, TLAPS

\* No row is queued yet and no dispatcher holds one.
LEMMA DeliveryInvInit == Init => DeliveryInv
BY WebhookAssumption
   DEF Init, DeliveryInv, RowsOK, HandInv, OpenInv, DispatchedWasAccepted, Held

\* A worker leaves the dispatchers alone, and only an enqueue writes a status.
LEMMA WorkFrame ==
  ASSUME NEW m \in Message, Work(m)
  PROVE  /\ UNCHANGED <<attempts, accepted, pc, held, cur>>
         /\ UNCHANGED status \/ Enqueue(m)
<1> USE DEF rowVars, dispVars
<1>1. CASE Recover(m)
  BY <1>1 DEF Recover, taskUnchanged
<1>2. CASE Deliver(m)
  BY <1>2 DEF Deliver, taskUnchanged
<1>3. CASE Write(m)
  BY <1>3 DEF Write, taskUnchanged
<1>4. CASE Park(m)
  BY <1>4 DEF Park, taskUnchanged
<1>5. CASE Abandon(m)
  BY <1>5 DEF Abandon, taskUnchanged
<1>6. CASE Emit(m)
  BY <1>6 DEF Emit
<1>7. CASE Lookup(m)
  BY <1>7 DEF Lookup
<1>8. CASE Enqueue(m)
  BY <1>8 DEF Enqueue
<1>9. CASE Ack(m)
  BY <1>9 DEF Ack, taskUnchanged
<1>10. CASE WorkerDies(m)
  BY <1>10 DEF WorkerDies, taskUnchanged
<1> QED
  BY <1>1, <1>2, <1>3, <1>4, <1>5, <1>6, <1>7, <1>8, <1>9, <1>10 DEF Work

\* So do operators and time.
LEMMA OtherFrame ==
  ASSUME (\E s \in Sub : Upsert(s)) \/ (\E p \in Pause : Decided(p)) \/ Tick \/ UNCHANGED vars
  PROVE  UNCHANGED <<status, attempts, accepted, pc, held, cur>>
BY DEF Upsert, Decided, taskUnchanged, Tick, rowVars, dispVars, vars

\* Steps of the fanout, operators and time leave the dispatchers alone; a new
\* row starts without attempts.
LEMMA FanoutPreserves ==
  ASSUME DeliveryInv,
         \/ \E s \in Sub : Upsert(s)
         \/ \E m \in Message : Work(m)
         \/ \E p \in Pause : Decided(p)
         \/ Tick \/ UNCHANGED vars
  PROVE  DeliveryInv'
<1>1. UNCHANGED <<attempts, accepted, pc, held, cur>>
  BY WorkFrame, OtherFrame
<1>2. /\ DOMAIN status' = Row
      /\ \A r \in Row : \/ status'[r] = status[r]
                        \/ status[r] = "absent" /\ status'[r] = "pending"
  <2>1. CASE \E m \in Message : Enqueue(m)
    BY <2>1 DEF Enqueue, DeliveryInv, RowsOK
  <2>2. CASE UNCHANGED status
    BY <2>2 DEF DeliveryInv, RowsOK
  <2>3. QED
    BY <2>1, <2>2, WorkFrame, OtherFrame
<1>3. RowsOK' /\ HandInv'
  BY <1>1, <1>2 DEF DeliveryInv, RowsOK, HandInv
<1>4. OpenInv' /\ DispatchedWasAccepted'
  BY <1>1, <1>2 DEF DeliveryInv, OpenInv, DispatchedWasAccepted
<1>5. QED
  BY <1>3, <1>4 DEF DeliveryInv

\* A dispatcher's step preserves the invariant whatever the others hold.
LEMMA DispatchPreserves ==
  ASSUME DeliveryInv, NEW d \in Dispatcher, Dispatch(d) \/ DispatcherDies(d)
  PROVE  DeliveryInv'
<1> USE DEF DeliveryInv, RowsOK, HandInv
<1>1. CASE Claim(d)
  <2>1. PICK S \in SUBSET Due :
          held' = [held EXCEPT ![d] =
                     {[row |-> r, attempts |-> attempts[r]] : r \in S}]
    BY <1>1 DEF Claim
  <2>2. UNCHANGED <<status, attempts, wait, accepted, pc, cur>>
    BY <1>1 DEF Claim, rowVars
  <2>3. \A r \in S : /\ r \in Row /\ attempts[r] \in Nat
                     /\ attempts[r] < MaxAttempts
    BY DEF Due, OpenInv
  <2>4. \A h \in {[row |-> r, attempts |-> attempts[r]] : r \in S} :
          h \in Held /\ h.attempts < MaxAttempts
    BY <2>3 DEF Held
  <2>5. RowsOK'
    BY <2>1, <2>2, <2>4
  <2>6. HandInv'
    BY <2>1, <2>2, <2>4
  <2>7. OpenInv' /\ DispatchedWasAccepted'
    BY <2>2 DEF OpenInv, DispatchedWasAccepted
  <2>8. QED
    BY <2>5, <2>6, <2>7
<1>2. CASE Resolve(d)
  <2>1. PICK h \in held[d] :
          /\ held' = [held EXCEPT ![d] = @ \ {h}]
          /\ cur' = [cur EXCEPT ![d] = h]
          /\ pc' = [pc EXCEPT ![d] = IF active[h.row[2]] THEN "post" ELSE "bury"]
    BY <1>2 DEF Resolve
  <2>2. UNCHANGED <<status, attempts, wait, accepted>>
    BY <1>2 DEF Resolve, rowVars
  <2>3. h \in Held /\ h.attempts < MaxAttempts
    OBVIOUS
  <2>4. RowsOK' /\ HandInv'
    BY <2>1, <2>2, <2>3
  <2>5. OpenInv' /\ DispatchedWasAccepted'
    BY <2>2 DEF OpenInv, DispatchedWasAccepted
  <2>6. QED
    BY <2>4, <2>5
<1>3. CASE Post(d)
  <2>1. cur[d] \in Held /\ cur[d].row \in Row
    BY <1>3 DEF Post, Held
  <2>2. \/ accepted' = [accepted EXCEPT ![cur[d].row] = @ + 1]
        \/ accepted' = accepted /\ pc' = [pc EXCEPT ![d] = "failed"]
    BY <1>3 DEF Post
  <2>3. /\ accepted' \in [Row -> Nat]
        /\ \A r \in Row : accepted'[r] >= accepted[r]
        /\ pc'[d] = "ok" => accepted'[cur[d].row] > 0
    BY <2>1, <2>2
  <2>4. /\ UNCHANGED <<status, attempts, wait, held, cur>>
        /\ pc' = [pc EXCEPT ![d] = "ok"] \/ pc' = [pc EXCEPT ![d] = "failed"]
    BY <1>3 DEF Post
  <2>5. RowsOK'
    BY <2>3, <2>4
  <2>6. HandInv'
    <3>1. \A c \in Dispatcher : pc'[c] = "ok" => accepted'[cur[c].row] > 0
      <4> TAKE c \in Dispatcher
      <4> HAVE pc'[c] = "ok"
      <4>1. CASE c = d
        BY <4>1, <2>3
      <4>2. CASE c # d
        <5>1. pc[c] = "ok" /\ cur[c].row \in Row
          BY <4>2, <2>4 DEF Held
        <5>2. QED
          BY <5>1, <2>3
      <4>3. QED
        BY <4>1, <4>2
    <3>2. QED
      BY <3>1, <2>1, <2>4, <1>3 DEF Post
  <2>7. OpenInv' /\ DispatchedWasAccepted'
    BY <2>3, <2>4 DEF OpenInv, DispatchedWasAccepted
  <2>8. QED
    BY <2>5, <2>6, <2>7
<1>4. CASE DispatcherDies(d)
  BY <1>4 DEF DispatcherDies, Finish, rowVars, OpenInv, DispatchedWasAccepted
<1>5. CASE MarkDispatched(d) \/ MarkDeadLetter(d) \/ MarkRetry(d)
  <2> DEFINE r == cur[d].row
  <2>1. /\ pc[d] # "poll" /\ r \in Row /\ cur[d].attempts \in Nat
        /\ cur[d].attempts < MaxAttempts
    BY <1>5 DEF MarkDispatched, MarkDeadLetter, MarkRetry, Held
  <2>2. Tried(d) \in Nat
    BY <2>1 DEF Tried
  <2>3. /\ Finish(d) /\ UNCHANGED <<accepted, held>>
    BY <1>5 DEF MarkDispatched, MarkDeadLetter, MarkRetry
  <2>4. /\ DOMAIN status' = Row /\ attempts' \in [Row -> Nat]
        /\ \A x \in Row \ {r} : status'[x] = status[x] /\ attempts'[x] = attempts[x]
    BY <1>5, <2>1, <2>2 DEF MarkDispatched, MarkDeadLetter, MarkRetry
  <2>5. /\ status'[r] \in {"absent", "pending"} => attempts'[r] < MaxAttempts
        /\ status'[r] = "dispatched" => accepted[r] > 0
    <3>1. CASE MarkDispatched(d)
      BY <3>1, <2>1 DEF MarkDispatched
    <3>2. CASE MarkDeadLetter(d)
      BY <3>2, <2>1 DEF MarkDeadLetter
    <3>3. CASE MarkRetry(d)
      BY <3>3, <2>1, <2>2, WebhookAssumption
         DEF MarkRetry, LastTry, OpenInv, DispatchedWasAccepted
    <3>4. QED
      BY <1>5, <3>1, <3>2, <3>3
  <2>6. RowsOK' /\ HandInv'
    BY <2>3, <2>4 DEF Finish
  <2>7. OpenInv' /\ DispatchedWasAccepted'
    BY <2>3, <2>4, <2>5 DEF OpenInv, DispatchedWasAccepted
  <2>8. QED
    BY <2>6, <2>7
<1>6. QED
  BY <1>1, <1>2, <1>3, <1>4, <1>5 DEF Dispatch

\* The invariant is inductive.
LEMMA DeliveryInvStep == DeliveryInv /\ [Next]_vars => DeliveryInv'
BY FanoutPreserves, DispatchPreserves DEF Next

\* With any number of dispatchers working on the same rows, a row counts as
\* dispatched only if its subscriber accepted it (mark_dispatched).
THEOREM DispatchedRowsWereAccepted == Spec => []DispatchedWasAccepted
<1>1. DeliveryInv => DispatchedWasAccepted
  BY DEF DeliveryInv
<1>2. QED
  BY <1>1, DeliveryInvInit, DeliveryInvStep, PTL DEF Spec

\* A pending row has attempts left, although marks write the attempts that
\* were read at the claim (mark_retry, mark_dead_letter).
THEOREM PendingRowsHaveBudget == Spec => []PendingHasBudget
<1>1. DeliveryInv => PendingHasBudget
  BY DEF DeliveryInv, OpenInv, PendingHasBudget
<1>2. QED
  BY <1>1, DeliveryInvInit, DeliveryInvStep, PTL DEF Spec

\* No step makes a decided delivery pending again (the guard of mark_retry).
THEOREM DecidedRowsAreNotRetried == Spec => TerminalIsNotRetried
<1> DEFINE Ended == {"dispatched", "dead_letter"}
<1>1. ASSUME DeliveryInv, [Next]_vars
      PROVE  \A r \in Row : status[r] \in Ended => status'[r] \in Ended
  <2>1. CASE UNCHANGED status
    BY <2>1
  <2>2. ASSUME NEW m \in Message, Enqueue(m)
        PROVE  \A r \in Row : status[r] \in Ended => status'[r] \in Ended
    BY <2>2, <1>1 DEF Enqueue, DeliveryInv, RowsOK
  <2>3. ASSUME NEW d \in Dispatcher, MarkDispatched(d) \/ MarkDeadLetter(d)
        PROVE  \A r \in Row : status[r] \in Ended => status'[r] \in Ended
    BY <2>3, <1>1 DEF MarkDispatched, MarkDeadLetter, DeliveryInv, RowsOK
  <2>4. ASSUME NEW d \in Dispatcher, Dispatch(d) \/ DispatcherDies(d)
        PROVE  UNCHANGED status \/ MarkDispatched(d) \/ MarkDeadLetter(d)
    BY <2>4 DEF Dispatch, Claim, Resolve, Post, MarkRetry, DispatcherDies, rowVars
  <2>5. QED
    BY <1>1, <2>1, <2>2, <2>3, <2>4, WorkFrame, OtherFrame DEF Next
<1>2. ASSUME DeliveryInv, [Next]_vars
      PROVE  [\A r \in Row : status[r] \in {"dispatched", "dead_letter"}
                => status'[r] \in {"dispatched", "dead_letter"}]_vars
  BY <1>1, <1>2
<1>3. QED
  BY <1>2, DeliveryInvInit, DeliveryInvStep, PTL DEF Spec, TerminalIsNotRetried

\* Whoever lets go of a delivery without dying has decided it or counted an
\* attempt (run_once over _dispatch).
THEOREM PassesAreCounted == Spec => PassesCount
<1> USE DEF DeliveryInv, RowsOK, HandInv, InHand
<1>1. ASSUME NEW d \in Dispatcher, NEW c \in Dispatcher, c # d, DeliveryInv,
             Dispatch(c) \/ DispatcherDies(c)
      PROVE  held'[d] = held[d] /\ cur'[d] = cur[d] /\ pc'[d] = pc[d]
  BY <1>1 DEF Dispatch, Claim, Resolve, Post, MarkDispatched, MarkDeadLetter, MarkRetry,
              DispatcherDies, Finish
<1>2. ASSUME [Next]_vars, ~(\E c \in Dispatcher : Dispatch(c) \/ DispatcherDies(c))
      PROVE  UNCHANGED <<held, cur, pc>>
  BY <1>2, WorkFrame, OtherFrame DEF Next
<1>3. ASSUME DeliveryInv, NEW d \in Dispatcher, Claim(d) \/ Resolve(d) \/ Post(d)
      PROVE  InHand(d) \subseteq InHand(d)'
  <2>1. CASE Claim(d)
    BY <2>1, <1>3 DEF Claim, InHand
  <2>2. CASE Resolve(d)
    <3>1. PICK h \in held[d] :
            /\ held' = [held EXCEPT ![d] = @ \ {h}]
            /\ cur' = [cur EXCEPT ![d] = h]
      BY <2>2 DEF Resolve
    <3>2. pc[d] = "poll" /\ pc'[d] # "poll"
      BY <1>3, <2>2 DEF Resolve
    <3> QED
      BY <3>1, <3>2, <1>3 DEF InHand
  <2>3. CASE Post(d)
    BY <2>3, <1>3 DEF Post, InHand
  <2> QED
    BY <1>3, <2>1, <2>2, <2>3
<1>4. ASSUME DeliveryInv, NEW d \in Dispatcher,
             MarkDispatched(d) \/ MarkDeadLetter(d) \/ MarkRetry(d),
             NEW h \in InHand(d), h \notin InHand(d)'
      PROVE  status'[h.row] # "pending" \/ attempts'[h.row] > h.attempts
  <2>1. pc[d] # "poll" /\ UNCHANGED held
    BY <1>4 DEF MarkDispatched, MarkDeadLetter, MarkRetry
  <2>2. h = cur[d] /\ h.row \in Row /\ h.attempts \in Nat
    BY <1>4, <2>1 DEF InHand, Held
  <2>3. CASE MarkDispatched(d) \/ MarkDeadLetter(d)
    BY <2>2, <2>3, <1>4 DEF MarkDispatched, MarkDeadLetter
  <2>4. CASE MarkRetry(d)
    BY <2>2, <2>4, <1>4 DEF MarkRetry, Tried
  <2> QED
    BY <1>4, <2>3, <2>4
<1>5. ASSUME DeliveryInv, [Next]_vars
      PROVE  [\A d \in Dispatcher : ~DispatcherDies(d) =>
                \A h \in InHand(d) \ InHand(d)' :
                  status'[h.row] # "pending" \/ attempts'[h.row] > h.attempts]_vars
  <2> SUFFICES ASSUME NEW d \in Dispatcher, ~DispatcherDies(d),
                      NEW h \in InHand(d), h \notin InHand(d)'
               PROVE  status'[h.row] # "pending" \/ attempts'[h.row] > h.attempts
    OBVIOUS
  <2>1. ~(held'[d] = held[d] /\ cur'[d] = cur[d] /\ pc'[d] = pc[d])
    BY DEF InHand
  <2>2. Dispatch(d)
    BY <1>1, <1>2, <1>5, <2>1
  <2> QED
    BY <1>3, <1>4, <1>5, <2>2 DEF Dispatch
<1>6. QED
  BY <1>5, DeliveryInvInit, DeliveryInvStep, PTL DEF Spec, PassesCount

-----------------------------------------------------------------------------
(* The announcement of a pause *)

\* Nothing has been announced, and every pause has a message in the queue.
LEMMA AnnounceInvInit == Init => AnnounceInv
<1> SUFFICES ASSUME Init PROVE AnnounceInv
  OBVIOUS
<1>1. FanoutOK
  BY WebhookAssumption DEF Init, FanoutOK, Points
<1>2. EventInv /\ FanInv
  BY DEF Init, EventInv, FanInv
<1>3. RaceInv
  BY DEF Init, RaceInv, NotStarted, Pending, Sure
<1> QED
  BY <1>1, <1>2, <1>3 DEF AnnounceInv

\* The event that enqueue writes a row for is one of m's own.
LEMMA EventOfIsOwn ==
  ASSUME AnnounceInv, NEW m \in Message, wpc[m] = "fan"
  PROVE  EventOf(m) \in 1 .. Len(origin) /\ origin[EventOf(m)] = m
BY DEF AnnounceInv, EventInv, EventOf

\* What a step of a worker leaves alone.
LEMMA WorkLocal ==
  ASSUME AnnounceInv, NEW m \in Message, Work(m)
  PROVE  /\ UNCHANGED <<active, touched>>
         /\ dropped' = dropped \/ dropped' = dropped + 1
         /\ \A n \in Message \ {m} : wpc'[n] = wpc[n] /\ targets'[n] = targets[n]
         /\ \A q \in Pause \ {PauseOf[m]} : task'[q] = task[q]
         /\ wpc' \in [Message -> Points] /\ targets' \in [Message -> SUBSET Sub]
         /\ task' \in [Pause -> {"pending", "running", "awaiting", "decided", "failed"}]
         /\ UNCHANGED origin \/ Emit(m)
<1> USE WebhookAssumption DEF AnnounceInv, FanoutOK, Goto, Points
<1>1. CASE Recover(m)
  BY <1>1 DEF Recover, taskUnchanged
<1>2. CASE Deliver(m)
  BY <1>2 DEF Deliver, taskUnchanged, Entry
<1>3. CASE Write(m)
  BY <1>3 DEF Write, taskUnchanged
<1>4. CASE Park(m)
  BY <1>4 DEF Park, taskUnchanged
<1>5. CASE Abandon(m)
  BY <1>5 DEF Abandon, taskUnchanged
<1>6. CASE Emit(m)
  BY <1>6 DEF Emit, msgVars
<1>7. CASE Lookup(m)
  BY <1>7 DEF Lookup, msgVars
<1>8. CASE Enqueue(m)
  BY <1>8 DEF Enqueue, msgVars
<1>9. CASE Ack(m)
  BY <1>9 DEF Ack, taskUnchanged
<1>10. CASE WorkerDies(m)
  BY <1>10 DEF WorkerDies, taskUnchanged
<1> QED
  BY <1>1, <1>2, <1>3, <1>4, <1>5, <1>6, <1>7, <1>8, <1>9, <1>10 DEF Work

\* A decision is about one task.
LEMMA DecidedLocal ==
  ASSUME AnnounceInv, NEW p \in Pause, Decided(p)
  PROVE  /\ UNCHANGED <<active, touched, dropped, wpc, targets, origin>>
         /\ task' = [task EXCEPT ![p] = "decided"]
BY DEF Decided, taskUnchanged

\* What an upsert, a dispatcher or time leaves alone.
LEMMA OthersLocal ==
  ASSUME AnnounceInv,
         \/ \E s \in Sub : Upsert(s)
         \/ \E d \in Dispatcher : Dispatch(d) \/ DispatcherDies(d)
         \/ Tick \/ UNCHANGED vars
  PROVE  UNCHANGED <<task, wpc, targets, dropped, origin>>
BY DEF Upsert, Dispatch, Claim, Resolve, Post, MarkDispatched, MarkDeadLetter, MarkRetry,
       DispatcherDies, Tick, vars, fanVars

\* A switch concerns a subscription that it marks as touched.
LEMMA SwitchIsTouched ==
  ASSUME AnnounceInv, [Next]_vars
  PROVE  touched \subseteq touched' /\ active' \in [Sub -> BOOLEAN]
         /\ \A s \in Sub \ touched' : active'[s]
<1>1. CASE \E t \in Sub : Upsert(t)
  BY <1>1 DEF Upsert, AnnounceInv, FanoutOK
<1>2. CASE UNCHANGED <<active, touched>>
  BY <1>2 DEF AnnounceInv, FanoutOK
<1>3. ASSUME \/ \E d \in Dispatcher : Dispatch(d) \/ DispatcherDies(d)
             \/ Tick \/ UNCHANGED vars
      PROVE  UNCHANGED <<active, touched>>
  BY <1>3 DEF Dispatch, Claim, Resolve, Post, MarkDispatched, MarkDeadLetter, MarkRetry,
              DispatcherDies, Tick, vars
<1> QED
  BY <1>1, <1>2, <1>3, WorkLocal, DecidedLocal DEF Next

\* No step takes a row out of the queue.
LEMMA RowsStay ==
  ASSUME DeliveryInv, [Next]_vars
  PROVE  \A r \in Row : status[r] # "absent" => status'[r] # "absent"
<1>1. CASE UNCHANGED status
  BY <1>1
<1>2. CASE \E m \in Message : Enqueue(m)
  BY <1>2 DEF Enqueue, DeliveryInv, RowsOK
<1>3. CASE \E d \in Dispatcher : MarkDispatched(d) \/ MarkDeadLetter(d)
  BY <1>3 DEF MarkDispatched, MarkDeadLetter, DeliveryInv, RowsOK
<1>4. ASSUME NEW d \in Dispatcher, Dispatch(d) \/ DispatcherDies(d)
      PROVE  UNCHANGED status \/ MarkDispatched(d) \/ MarkDeadLetter(d)
  BY <1>4 DEF Dispatch, Claim, Resolve, Post, MarkRetry, DispatcherDies, rowVars
<1> QED
  BY <1>1, <1>2, <1>3, <1>4, WorkFrame, OtherFrame DEF Next

\* Events are only appended.
LEMMA EventsStay ==
  ASSUME AnnounceInv, [Next]_vars
  PROVE  /\ origin' \in Seq(Message) /\ Len(origin') <= MaxEvents
         /\ Len(origin) \in Nat /\ Len(origin') \in Nat /\ Len(origin) <= Len(origin')
         /\ \A e \in 1 .. Len(origin) : origin'[e] = origin[e]
<1>1. CASE UNCHANGED origin
  BY <1>1, WebhookAssumption DEF AnnounceInv, FanoutOK
<1>2. ASSUME NEW m \in Message, Emit(m)
      PROVE  origin' = Append(origin, m) /\ Len(origin) < MaxEvents
  BY <1>2 DEF Emit
<1>3. ASSUME NEW m \in Message, Emit(m)
      PROVE  /\ origin' \in Seq(Message) /\ Len(origin') = Len(origin) + 1
             /\ Len(origin) \in Nat /\ Len(origin) < MaxEvents
             /\ \A e \in 1 .. Len(origin) : origin'[e] = origin[e]
  <2>1. origin' = Append(origin, m) /\ Len(origin) < MaxEvents /\ origin \in Seq(Message)
    BY <1>2, <1>3 DEF AnnounceInv, FanoutOK
  <2> QED
    BY <2>1
<1>4. CASE \E m \in Message : Emit(m)
  BY <1>3, <1>4, WebhookAssumption
<1> QED
  BY <1>1, <1>4, WorkLocal, DecidedLocal, OthersLocal DEF Next

\* What is queued stays queued.
LEMMA QueuedStays ==
  ASSUME AnnounceInv, DeliveryInv, [Next]_vars, NEW p \in Pause, NEW s \in Sub, QueuedFor(p, s)
  PROVE  QueuedFor(p, s)'
<1>1. PICK e \in 1 .. Len(origin) : PauseOf[origin[e]] = p /\ status[<<e, s>>] # "absent"
  BY DEF QueuedFor
<1>2. e \in 1 .. MaxEvents
  BY WebhookAssumption DEF AnnounceInv, FanoutOK
<1>3. <<e, s>> \in Row
  BY <1>2 DEF Row
<1>4. e \in 1 .. Len(origin') /\ PauseOf[origin'[e]] = p
  BY <1>1, EventsStay
<1>5. status'[<<e, s>>] # "absent"
  BY <1>1, <1>3, RowsStay
<1> QED
  BY <1>4, <1>5 DEF QueuedFor

\* So what is announced stays announced.
LEMMA AnnouncedStays ==
  ASSUME AnnounceInv, DeliveryInv, [Next]_vars, NEW p \in Pause, Announced(p)
  PROVE  Announced(p)'
BY QueuedStays, SwitchIsTouched DEF Announced

\* Shapes are kept.
LEMMA FanoutOKStep ==
  ASSUME AnnounceInv, [Next]_vars
  PROVE  FanoutOK' /\ (dropped' = 0 => dropped = 0)
<1>1. /\ wpc' \in [Message -> Points] /\ targets' \in [Message -> SUBSET Sub]
      /\ task' \in [Pause -> {"pending", "running", "awaiting", "decided", "failed"}]
      /\ dropped' = dropped \/ dropped' = dropped + 1
  <2>1. CASE \E m \in Message : Work(m)
    BY <2>1, WorkLocal
  <2>2. CASE \E p \in Pause : Decided(p)
    BY <2>2, DecidedLocal DEF AnnounceInv, FanoutOK
  <2>3. CASE UNCHANGED <<task, wpc, targets, dropped, origin>>
    BY <2>3 DEF AnnounceInv, FanoutOK
  <2> QED
    BY <2>1, <2>2, <2>3, OthersLocal DEF Next
<1>2. dropped' \in Nat /\ (dropped' = 0 => dropped = 0)
  BY <1>1 DEF AnnounceInv, FanoutOK
<1> QED
  BY <1>1, <1>2, EventsStay, SwitchIsTouched DEF FanoutOK

\* A new event is the last one of its message and leaves the others alone.
LEMMA EventInvStep ==
  ASSUME AnnounceInv, [Next]_vars
  PROVE  EventInv'
<1>1. ASSUME NEW m \in Message, wpc[m] \in {"lookup", "fan"}, UNCHANGED origin
      PROVE  \E e \in 1 .. Len(origin') :
               origin'[e] = m /\ \A f \in e + 1 .. Len(origin') : origin'[f] # m
  BY <1>1 DEF AnnounceInv, EventInv
<1>2. CASE UNCHANGED <<wpc, origin>>
  BY <1>1, <1>2 DEF EventInv
<1>3. ASSUME NEW m \in Message, Work(m), ~Emit(m)
      PROVE  EventInv'
  <2>1. UNCHANGED origin /\ \A n \in Message \ {m} : wpc'[n] = wpc[n]
    BY <1>3, WorkLocal
  <2>2. wpc'[m] \in {"lookup", "fan"} => wpc[m] \in {"lookup", "fan"}
    BY <1>3 DEF Work, Recover, Deliver, Write, Park, Abandon, Lookup, Enqueue, Ack, WorkerDies,
                Goto, Entry, AnnounceInv, FanoutOK
  <2> QED
    BY <1>1, <2>1, <2>2 DEF EventInv
<1>4. ASSUME NEW m \in Message, Emit(m)
      PROVE  EventInv'
  <2>1. /\ origin' = Append(origin, m) /\ wpc' = [wpc EXCEPT ![m] = "lookup"]
    BY <1>4 DEF Emit, Goto
  <2>2. /\ Len(origin') = Len(origin) + 1
        /\ Len(origin) \in Nat /\ origin'[Len(origin) + 1] = m
        /\ \A e \in 1 .. Len(origin) : origin'[e] = origin[e]
    BY <2>1 DEF AnnounceInv, FanoutOK
  <2> SUFFICES ASSUME NEW n \in Message, wpc'[n] \in {"lookup", "fan"}
               PROVE  \E e \in 1 .. Len(origin') :
                        origin'[e] = n /\ \A f \in e + 1 .. Len(origin') : origin'[f] # n
    BY DEF EventInv
  <2>3. CASE n = m
    <3>1. /\ Len(origin) + 1 \in 1 .. Len(origin')
          /\ \A f \in (Len(origin) + 1) + 1 .. Len(origin') : origin'[f] # n
      BY <2>2
    <3> QED
      BY <3>1, <2>3, <2>2
  <2>4. CASE n # m
    <3>1. wpc[n] \in {"lookup", "fan"}
      BY <2>4, <2>1 DEF AnnounceInv, FanoutOK
    <3>2. PICK e \in 1 .. Len(origin) :
            origin[e] = n /\ \A f \in e + 1 .. Len(origin) : origin[f] # n
      BY <3>1 DEF AnnounceInv, EventInv
    <3>3. \A f \in e + 1 .. Len(origin') : origin'[f] # n
      <4> TAKE f \in e + 1 .. Len(origin')
      <4>1. f \in e + 1 .. Len(origin) \/ f = Len(origin) + 1
        BY <2>2
      <4>2. f \in e + 1 .. Len(origin) => f \in 1 .. Len(origin)
        BY <2>2
      <4> QED
        BY <4>1, <4>2, <3>2, <2>4, <2>2
    <3>4. e \in 1 .. Len(origin') /\ origin'[e] = n
      BY <3>2, <2>2
    <3> QED
      BY <3>3, <3>4
  <2> QED
    BY <2>3, <2>4
<1> QED
  BY <1>2, <1>3, <1>4, DecidedLocal, OthersLocal DEF Next

\* A lookup finds every untouched subscription, and an enqueue queues the one
\* it takes off.
LEMMA FanInvStep ==
  ASSUME AnnounceInv, DeliveryInv, [Next]_vars
  PROVE  FanInv'
<1> SUFFICES ASSUME NEW n \in Message, wpc'[n] = "fan", dropped' = 0, NEW s \in Sub \ touched'
             PROVE  s \in targets'[n] \/ QueuedFor(PauseOf[n], s)'
  BY DEF FanInv
<1>1. /\ dropped = 0 /\ s \in Sub \ touched /\ PauseOf[n] \in Pause
      /\ QueuedFor(PauseOf[n], s) => QueuedFor(PauseOf[n], s)'
  BY FanoutOKStep, SwitchIsTouched, QueuedStays, WebhookAssumption
<1>2. wpc[n] = "fan" => s \in targets[n] \/ QueuedFor(PauseOf[n], s)
  BY <1>1 DEF AnnounceInv, FanInv
<1>3. CASE wpc'[n] = wpc[n] /\ targets'[n] = targets[n]
  BY <1>1, <1>2, <1>3
<1>4. CASE Work(n)
  <2>1. wpc'[n] = "fan" => Lookup(n) \/ Enqueue(n)
    BY <1>4 DEF Work, Recover, Deliver, Write, Park, Abandon, Emit, Ack, WorkerDies,
                Goto, Entry, AnnounceInv, FanoutOK
  <2>2. CASE Lookup(n)
    <3>1. active[s]
      BY <1>1 DEF AnnounceInv, FanoutOK
    <3>2. targets' = [targets EXCEPT ![n] = {t \in Sub : active[t]}]
      BY <2>2, <1>1 DEF Lookup
    <3> QED
      BY <3>1, <3>2, <1>1 DEF AnnounceInv, FanoutOK
  <2>3. CASE Enqueue(n)
    <3>1. PICK t \in targets[n] :
            /\ targets' = [targets EXCEPT ![n] = @ \ {t}]
            /\ \/ status' = [status EXCEPT ![<<EventOf(n), t>>] =
                               IF @ = "absent" THEN "pending" ELSE @]
               \/ dropped' = dropped + 1
      BY <2>3 DEF Enqueue
    <3>2. wpc[n] = "fan" /\ UNCHANGED origin
      BY <2>3 DEF Enqueue
    <3>3. EventOf(n) \in 1 .. Len(origin) /\ origin[EventOf(n)] = n
      BY <3>2, EventOfIsOwn
    <3>4. <<EventOf(n), s>> \in Row
      BY <3>3, <1>1, WebhookAssumption DEF Row, AnnounceInv, FanoutOK
    <3>5. CASE s = t
      <4>1. status'[<<EventOf(n), s>>] # "absent"
        BY <3>1, <3>4, <3>5, <1>1 DEF DeliveryInv, RowsOK
      <4> QED
        BY <4>1, <3>2, <3>3 DEF QueuedFor
    <3>6. CASE s # t
      BY <3>1, <3>2, <3>6, <1>1, <1>2 DEF AnnounceInv, FanoutOK
    <3> QED
      BY <3>5, <3>6
  <2> QED
    BY <2>1, <2>2, <2>3
<1> QED
  BY <1>3, <1>4, WorkLocal, DecidedLocal, OthersLocal DEF Next

\* A worker that acks without a word leaves one that is sure to announce, or
\* a task that needs no reviewer.
LEMMA WorkRaces ==
  ASSUME AnnounceInv, DeliveryInv, NEW m \in Message, Work(m), NEW p \in Pause, p = PauseOf[m]
  PROVE  NotStarted(p)' /\ (dropped' = 0 => Pending(p)' \/ Announced(p)')
<1>0. /\ \A n \in Message \ {m} : wpc'[n] = wpc[n]
      /\ dropped' = 0 => dropped = 0
      /\ NotStarted(p) /\ (dropped = 0 => Pending(p) \/ Announced(p))
      /\ Announced(p) => Announced(p)'
  <2>1. Next
    BY DEF Next
  <2> QED
    BY <2>1, WorkLocal, FanoutOKStep, AnnouncedStays DEF AnnounceInv, RaceInv
<1>1. ASSUME wpc'[m] \in Sure, wpc'[m] \in {"queued", "write", "abandon"} \/ task'[p] # "pending"
      PROVE  NotStarted(p)' /\ Pending(p)'
  <2>1. Pending(p)'
    BY <1>1 DEF Pending
  <2>2. ASSUME task[p] = "pending" PROVE NotStarted(p)'
    BY <2>2, <1>0, <1>1 DEF NotStarted
  <2>3. ASSUME task[p] # "pending" PROVE task'[p] # "pending"
    BY <2>3 DEF Work, Recover, Deliver, Write, Park, Abandon, Emit, Lookup, Enqueue, Ack,
                WorkerDies, msgVars, AnnounceInv, FanoutOK
  <2> QED
    BY <2>1, <2>2, <2>3 DEF NotStarted
<1> USE DEF Goto, AnnounceInv, FanoutOK
<1>2. CASE Recover(m)
  BY <1>1, <1>2 DEF Recover, Sure
<1>3. CASE Deliver(m)
  <2>1. UNCHANGED task
    BY <1>3 DEF Deliver
  <2>2. CASE wpc'[m] \in {"abandon", "write"}
    BY <1>1, <2>2 DEF Sure
  <2>3. CASE task[p] \in {"failed", "decided"}
    BY <2>1, <2>3 DEF NotStarted, Pending
  <2>4. CASE task[p] = "running" /\ wpc'[m] = "park"
    BY <2>1, <2>4 DEF NotStarted, Pending
  <2> QED
    BY <1>3, <2>2, <2>3, <2>4 DEF Deliver, Entry
<1>4. CASE Write(m)
  BY <1>4 DEF Write, NotStarted, Pending
<1>5. CASE Park(m)
  <2>1. task[p] # "pending"
    BY <1>5, <1>0 DEF Park, NotStarted
  <2>2. CASE task' = [task EXCEPT ![p] = "awaiting"] /\ wpc'[m] = "parked"
    BY <1>1, <2>2 DEF Sure
  <2>3. CASE UNCHANGED task /\ task[p] # "running" /\ wpc[m] = "park"
    <3>1. Pending(p) => Pending(p)'
      BY <2>3, <1>0 DEF Pending, Sure
    <3> QED
      BY <3>1, <2>1, <2>3, <1>0 DEF NotStarted
  <2> QED
    BY <1>5, <2>2, <2>3 DEF Park
<1>6. CASE Abandon(m)
  BY <1>6 DEF Abandon, NotStarted, Pending
<1>7. CASE Emit(m) \/ Lookup(m) \/ Enqueue(m)
  <2>1. /\ UNCHANGED task /\ wpc'[m] \in {"lookup", "fan"}
        /\ wpc[m] \in {"parked", "lookup", "fan"}
    BY <1>7 DEF Emit, Lookup, Enqueue, msgVars
  <2>2. task[p] # "pending"
    BY <2>1, <1>0 DEF NotStarted
  <2> QED
    BY <1>1, <2>1, <2>2 DEF Sure
<1>8. CASE Ack(m)
  <2>1. /\ UNCHANGED task /\ wpc[m] \in {"drain", "fan"}
        /\ wpc[m] = "fan" => targets[m] = {}
    BY <1>8 DEF Ack
  <2>2. task[p] # "pending"
    BY <2>1, <1>0 DEF NotStarted
  <2>3. CASE wpc[m] = "drain"
    <3>1. Pending(p) => Pending(p)'
      BY <2>1, <2>3, <1>0 DEF Pending, Sure
    <3> QED
      BY <3>1, <2>1, <2>2, <1>0 DEF NotStarted
  <2>4. CASE wpc[m] = "fan"
    <3>1. dropped = 0 => Announced(p)
      BY <2>1, <2>4 DEF FanInv, Announced
    <3> QED
      BY <3>1, <2>1, <2>2, <1>0 DEF NotStarted
  <2> QED
    BY <2>1, <2>3, <2>4
<1>9. CASE WorkerDies(m)
  BY <1>1, <1>9 DEF WorkerDies, Sure
<1> QED
  BY <1>2, <1>3, <1>4, <1>5, <1>6, <1>7, <1>8, <1>9 DEF Work

\* The race invariant is kept by every step.
LEMMA RaceInvStep ==
  ASSUME AnnounceInv, DeliveryInv, [Next]_vars
  PROVE  RaceInv'
<1> SUFFICES ASSUME NEW p \in Pause
             PROVE  NotStarted(p)' /\ (dropped' = 0 => Pending(p)' \/ Announced(p)')
  BY DEF RaceInv
<1>1. /\ dropped' = 0 => dropped = 0
      /\ NotStarted(p) /\ (dropped = 0 => Pending(p) \/ Announced(p))
      /\ Announced(p) => Announced(p)'
  BY FanoutOKStep, AnnouncedStays DEF AnnounceInv, RaceInv
<1>2. CASE /\ task'[p] = task[p]
           /\ \A n \in Message : PauseOf[n] = p => wpc'[n] = wpc[n]
  BY <1>1, <1>2 DEF NotStarted, Pending
<1>3. ASSUME NEW m \in Message, Work(m), PauseOf[m] # p
      PROVE  /\ task'[p] = task[p]
             /\ \A n \in Message : PauseOf[n] = p => wpc'[n] = wpc[n]
  BY <1>3, WorkLocal
<1>4. ASSUME NEW q \in Pause, Decided(q)
      PROVE  \/ task'[p] = "decided"
             \/ /\ task'[p] = task[p]
                /\ \A n \in Message : PauseOf[n] = p => wpc'[n] = wpc[n]
  BY <1>4, DecidedLocal DEF AnnounceInv, FanoutOK
<1>5. CASE task'[p] = "decided"
  BY <1>5 DEF NotStarted, Pending
<1> QED
  BY <1>2, <1>3, <1>4, <1>5, WorkRaces, OthersLocal DEF Next

\* When no message of a pause is left, its subscribers have been told or it
\* needs no reviewer (WorkerLoop._run_graph, _abandon, WebhookFanout.fanout),
\* whatever workers raced, lost, died and were out of deliveries, unless a
\* fanout error was swallowed.
THEOREM AckedPausesAreAnnounced == Spec => []AckedIsAnnounced
<1>1. AnnounceInv /\ DeliveryInv /\ [Next]_vars => AnnounceInv'
  BY FanoutOKStep, EventInvStep, FanInvStep, RaceInvStep DEF AnnounceInv
<1>2. AnnounceInv => AckedIsAnnounced
  BY DEF AnnounceInv, RaceInv, Pending, Sure, AckedIsAnnounced, NoMessage
<1>3. QED
  BY <1>1, <1>2, AnnounceInvInit, DeliveryInvInit, DeliveryInvStep, PTL DEF Spec
=============================================================================
