--------------------------- MODULE WebhookDelivery --------------------------
(***************************************************************************)
(* Outbound webhooks: the worker announces a pause with an audit event,    *)
(* WebhookFanout turns the event into one delivery row per active          *)
(* subscription, and WebhookDispatcher processes POST the rows to their    *)
(* subscribers with retries, backoff and dead letters.                     *)
(*                                                                         *)
(* The task of a pause may have several messages: the command it was       *)
(* submitted with and the ones that a starting worker publishes again for  *)
(* rows it finds RUNNING.  Each has a delivery count of its own, and each  *)
(* announcement an audit event, and so an idempotency key, of its own.     *)
(* The dispatcher's claim is a SELECT ... FOR UPDATE SKIP LOCKED whose     *)
(* transaction ends, with its row locks, before the first POST.  The loop  *)
(* that calls run_once is external: no process of the repository starts    *)
(* it.                                                                     *)
(***************************************************************************)
EXTENDS Naturals, Sequences, FiniteSets

CONSTANTS
  Pause,        \* the pauses to announce, each of a task of its own
  Message,      \* stream messages
  PauseOf,      \* the pause whose task a message is about
  MaxDeliveries,  \* WorkerConfig.max_attempts
  Sub,          \* webhook subscriptions listening to the action
  Dispatcher,   \* dispatcher processes
  NoRow,        \* no delivery in hand
  BatchSize,    \* WebhookDispatcherConfig.batch_size
  MaxAttempts,  \* WebhookDispatcherConfig.max_attempts
  BaseDelay, MaxDelay,  \* WebhookDispatcherConfig, in clock ticks
  MaxEvents,    \* bound: audit events
  MaxTouched,   \* bound: subscriptions an operator switches off
  MaxFaults     \* bound: deaths, lost answers and swallowed fanout errors

ASSUME WebhookAssumption ==
  /\ PauseOf \in [Message -> Pause] /\ MaxDeliveries \in Nat
  /\ BatchSize \in Nat \ {0} /\ MaxAttempts \in Nat \ {0}
  /\ BaseDelay \in Nat \ {0} /\ MaxDelay \in Nat \ {0}
  /\ MaxEvents \in Nat /\ MaxTouched \in Nat /\ MaxFaults \in Nat

VARIABLES
  active,    \* webhook_subscriptions.active
  touched,   \* subscriptions an operator has changed
  task,      \* tasks.state of the task of each pause; decided: an operator,
             \* the sweeper or a run that went on past the gate moved it on
  tries,     \* delivery count of each message
  wpc,       \* what the worker that holds a message does next
  origin,    \* audit_events: the message each event was written for, in order
  targets,   \* subscriptions the fanout of a message still has to write
  status,    \* webhook_deliveries.status, by idempotency key
  attempts,  \* webhook_deliveries.attempts
  wait,      \* ticks until next_attempt_at
  accepted,  \* how often the subscriber accepted the delivery
  pc,        \* control point of each dispatcher
  held,      \* rows of its batch still to do, with the attempts it read
  cur,       \* the row it is dispatching
  deaths,    \* deaths of workers and dispatchers so far
  lost,      \* POSTs a subscriber accepted without our knowing so far
  dropped    \* swallowed fanout errors so far

rowVars == <<status, attempts, wait, accepted>>
msgVars == <<task, tries>>
fanVars == <<task, tries, origin, wpc, targets, dropped>>
dispVars == <<pc, held, cur>>
vars == <<active, touched, task, tries, origin, wpc, targets, status, attempts,
          wait, accepted, pc, held, cur, deaths, lost, dropped>>

\* A delivery row is identified by its idempotency key (event, subscription).
Row == (1 .. MaxEvents) \X Sub
Held == [row : Row, attempts : Nat]

MayFail == deaths + lost + dropped < MaxFaults

Init ==
  /\ active = [s \in Sub |-> TRUE]
  /\ touched = {}
  /\ origin = <<>>
  /\ task = [p \in Pause |-> "pending"]
  /\ tries = [m \in Message |-> 0]
  /\ wpc \in [Message -> {"absent", "queued"}]
  /\ \A p \in Pause : \E m \in Message : PauseOf[m] = p /\ wpc[m] = "queued"
  /\ targets = [m \in Message |-> {}]
  /\ status = [r \in Row |-> "absent"]
  /\ attempts = [r \in Row |-> 0]
  /\ wait = [r \in Row |-> 0]
  /\ accepted = [r \in Row |-> 0]
  /\ pc = [d \in Dispatcher |-> "poll"]
  /\ held = [d \in Dispatcher |-> {}]
  /\ cur = [d \in Dispatcher |-> NoRow]
  /\ deaths = 0 /\ lost = 0 /\ dropped = 0

-----------------------------------------------------------------------------
(* Subscriptions *)

\* upsert: an operator switches a subscription off, or on again.
Upsert(s) ==
  /\ Cardinality(touched \cup {s}) <= MaxTouched
  /\ touched' = touched \cup {s}
  /\ active' = [active EXCEPT ![s] = ~@]
  /\ UNCHANGED <<fanVars, rowVars, dispVars, deaths, lost>>

-----------------------------------------------------------------------------
(* The task of a pause and its messages *)

taskUnchanged == UNCHANGED <<active, touched, origin, dropped, rowVars, dispVars, lost>>

\* The worker that holds m goes on at the given point.
Goto(m, point) == wpc' = [wpc EXCEPT ![m] = point]

\* recover_in_flight: a starting worker publishes the task of a RUNNING row
\* again, under a message with a fresh delivery count.
Recover(m) ==
  /\ wpc[m] = "absent" /\ task[PauseOf[m]] = "running"
  /\ Goto(m, "queued")
  /\ UNCHANGED <<task, tries, targets, deaths>> /\ taskUnchanged

\* Where _dispatch goes for the state it read: a task that has moved on has
\* nothing to announce here, and one that runs already is not written.
Entry(state) ==
  IF state \in {"failed", "decided"} THEN "drain"
  ELSE IF state = "running" THEN "park" ELSE "write"

\* _handle and _dispatch: a message delivered too often is abandoned, another
\* one has its row read.
Deliver(m) ==
  /\ wpc[m] = "queued"
  /\ tries' = [tries EXCEPT ![m] = @ + 1]
  /\ Goto(m, IF tries[m] + 1 > MaxDeliveries THEN "abandon" ELSE Entry(task[PauseOf[m]]))
  /\ UNCHANGED <<task, targets, deaths>> /\ taskUnchanged

\* update_state writes RUNNING, unguarded; the graph runs into the gate.
Write(m) ==
  /\ wpc[m] = "write"
  /\ task' = [task EXCEPT ![PauseOf[m]] = "running"]
  /\ Goto(m, "park")
  /\ UNCHANGED <<tries, targets, deaths>> /\ taskUnchanged

\* set_awaiting_approval wants a RUNNING row; another one is left alone and
\* the message is drained.  A run that went on past the gate may be RUNNING.
Park(m) ==
  /\ wpc[m] = "park"
  /\ \/ /\ task[PauseOf[m]] \in {"running", "decided"}
        /\ task' = [task EXCEPT ![PauseOf[m]] = "awaiting"]
        /\ Goto(m, "parked")
     \/ /\ task[PauseOf[m]] # "running"
        /\ Goto(m, "drain")
        /\ UNCHANGED task
  /\ UNCHANGED <<tries, targets, deaths>> /\ taskUnchanged

\* _abandon fails a task that has not ended.  The decided one may have.
Abandon(m) ==
  /\ wpc[m] = "abandon"
  /\ \/ task' = [task EXCEPT ![PauseOf[m]] = "failed"]
     \/ task[PauseOf[m]] = "decided" /\ UNCHANGED task
  /\ Goto(m, "drain")
  /\ UNCHANGED <<tries, targets, deaths>> /\ taskUnchanged

\* An operator approves, rejects or aborts, or the sweeper expires the pause.
Decided(p) ==
  /\ task[p] = "awaiting"
  /\ task' = [task EXCEPT ![p] = "decided"]
  /\ UNCHANGED <<tries, wpc, targets, deaths>> /\ taskUnchanged

-----------------------------------------------------------------------------
(* The announcement *)

\* The worker's _audit appends the event of the pause, under a fresh id.
Emit(m) ==
  /\ wpc[m] = "parked" /\ Len(origin) < MaxEvents
  /\ origin' = Append(origin, m)
  /\ Goto(m, "lookup")
  /\ UNCHANGED <<active, touched, msgVars, targets, dropped, rowVars, dispVars,
                 deaths, lost>>

\* The event being fanned out for m: the last one its worker appended.
EventOf(m) ==
  CHOOSE e \in 1 .. Len(origin) :
    origin[e] = m /\ \A f \in e + 1 .. Len(origin) : origin[f] # m

\* list_active_for_event; a lookup error is logged and swallowed.
Lookup(m) ==
  /\ wpc[m] = "lookup"
  /\ Goto(m, "fan")
  /\ \/ /\ targets' = [targets EXCEPT ![m] = {s \in Sub : active[s]}]
        /\ UNCHANGED dropped
     \/ /\ MayFail /\ dropped' = dropped + 1
        /\ UNCHANGED targets
  /\ UNCHANGED <<active, touched, msgVars, origin, rowVars, dispVars, deaths, lost>>

\* enqueue, ON CONFLICT DO NOTHING; an error is logged and swallowed.
Enqueue(m) ==
  /\ wpc[m] = "fan"
  /\ \E s \in targets[m] :
       /\ targets' = [targets EXCEPT ![m] = @ \ {s}]
       /\ \/ /\ status' = [status EXCEPT ![<<EventOf(m), s>>] =
                             IF @ = "absent" THEN "pending" ELSE @]
             /\ UNCHANGED dropped
          \/ /\ MayFail /\ dropped' = dropped + 1
             /\ UNCHANGED status
  /\ UNCHANGED <<active, touched, msgVars, origin, wpc, attempts, wait, accepted,
                 dispVars, deaths, lost>>

\* Mutant of Ack: the fanout runs in the background and nobody waits for it.
AckEarly(m) ==
  /\ wpc[m] \in {"drain", "lookup", "fan"}
  /\ Goto(m, "acked")
  /\ UNCHANGED <<task, tries, targets, deaths>> /\ taskUnchanged

\* The fanout returned, or there is nothing to announce: the message is acked.
Ack(m) ==
  /\ \/ wpc[m] = "drain"
     \/ wpc[m] = "fan" /\ targets[m] = {}
  /\ Goto(m, "acked")
  /\ UNCHANGED <<task, tries, targets, deaths>> /\ taskUnchanged

\* The worker dies before its ack, or a call of its own raises: the message
\* is delivered again.
WorkerDies(m) ==
  /\ wpc[m] \notin {"absent", "queued", "acked"} /\ MayFail
  /\ deaths' = deaths + 1
  /\ Goto(m, "queued")
  /\ targets' = [targets EXCEPT ![m] = {}]
  /\ UNCHANGED <<task, tries>> /\ taskUnchanged

-----------------------------------------------------------------------------
(* Dispatchers *)

Due == {r \in Row : status[r] = "pending" /\ wait[r] = 0}

\* claim_pending: due rows are read, nothing is written.  Their order by
\* next_attempt_at is left open.
Claim(d) ==
  /\ pc[d] = "poll" /\ held[d] = {} /\ Due # {}
  /\ \E S \in SUBSET Due :
       /\ \/ S = Due /\ Cardinality(S) < BatchSize
          \/ Cardinality(S) = BatchSize
       /\ held' = [held EXCEPT ![d] =
                     {[row |-> r, attempts |-> attempts[r]] : r \in S}]
  /\ UNCHANGED <<active, touched, fanVars, rowVars, pc, cur, deaths, lost>>

\* Mutant of Resolve: a delivery whose subscription is gone is skipped.
ResolveSkips(d) ==
  /\ pc[d] = "poll"
  /\ \E h \in held[d] :
       /\ held' = [held EXCEPT ![d] = @ \ {h}]
       /\ cur' = [cur EXCEPT ![d] = IF active[h.row[2]] THEN h ELSE NoRow]
       /\ pc' = [pc EXCEPT ![d] = IF active[h.row[2]] THEN "post" ELSE "poll"]
  /\ UNCHANGED <<active, touched, fanVars, rowVars, deaths, lost>>

\* _dispatch reads the subscription of the next row of the batch: an inactive
\* one ends the delivery.
Resolve(d) ==
  /\ pc[d] = "poll"
  /\ \E h \in held[d] :
       /\ held' = [held EXCEPT ![d] = @ \ {h}]
       /\ cur' = [cur EXCEPT ![d] = h]
       /\ pc' = [pc EXCEPT ![d] = IF active[h.row[2]] THEN "post" ELSE "bury"]
  /\ UNCHANGED <<active, touched, fanVars, rowVars, deaths, lost>>

\* Mutant of Post: any response counts as success.
PostAnyResponse(d) ==
  /\ pc[d] = "post"
  /\ \E n \in {0, 1} :
       accepted' = [accepted EXCEPT ![cur[d].row] = @ + n]
  /\ pc' = [pc EXCEPT ![d] = "ok"]
  /\ UNCHANGED <<active, touched, fanVars, status, attempts, wait, held, cur,
                 deaths, lost>>

\* The POST: a 2xx response; a refusal or an error before the subscriber saw
\* it; or a request it accepted although the answer was a timeout.
Post(d) ==
  /\ pc[d] = "post"
  /\ \/ /\ accepted' = [accepted EXCEPT ![cur[d].row] = @ + 1]
        /\ pc' = [pc EXCEPT ![d] = "ok"]
        /\ UNCHANGED lost
     \/ /\ pc' = [pc EXCEPT ![d] = "failed"]
        /\ UNCHANGED <<accepted, lost>>
     \/ /\ MayFail /\ lost' = lost + 1
        /\ accepted' = [accepted EXCEPT ![cur[d].row] = @ + 1]
        /\ pc' = [pc EXCEPT ![d] = "failed"]
  /\ UNCHANGED <<active, touched, fanVars, status, attempts, wait, held, cur,
                 deaths>>

\* The row in hand is done with.
Finish(d) ==
  /\ cur' = [cur EXCEPT ![d] = NoRow]
  /\ pc' = [pc EXCEPT ![d] = "poll"]

\* The attempts a dispatcher writes: one more than it read.
Tried(d) == cur[d].attempts + 1

\* mark_dispatched: no guard on the status.
MarkDispatched(d) ==
  /\ pc[d] = "ok"
  /\ status' = [status EXCEPT ![cur[d].row] = "dispatched"]
  /\ attempts' = [attempts EXCEPT ![cur[d].row] = Tried(d)]
  /\ Finish(d)
  /\ UNCHANGED <<active, touched, fanVars, wait, accepted, held, deaths, lost>>

LastTry(n) == n >= MaxAttempts

\* compute_next_attempt_at.
Delay(n) ==
  LET raw == BaseDelay * 2 ^ (n - 1) IN IF raw < MaxDelay THEN raw ELSE MaxDelay

\* mark_dead_letter: no guard on the status.  The row is buried because its
\* subscription is inactive or its last attempt failed.
MarkDeadLetter(d) ==
  /\ \/ pc[d] = "bury"
     \/ pc[d] = "failed" /\ LastTry(Tried(d))
  /\ status' = [status EXCEPT ![cur[d].row] = "dead_letter"]
  /\ attempts' = [attempts EXCEPT ![cur[d].row] = Tried(d)]
  /\ Finish(d)
  /\ UNCHANGED <<active, touched, fanVars, wait, accepted, held, deaths, lost>>

\* Mutant of MarkRetry: the guard on pending is missing.
MarkRetryUnguarded(d) ==
  /\ pc[d] = "failed" /\ ~LastTry(Tried(d))
  /\ status' = [status EXCEPT ![cur[d].row] = "pending"]
  /\ attempts' = [attempts EXCEPT ![cur[d].row] = Tried(d)]
  /\ wait' = [wait EXCEPT ![cur[d].row] = Delay(Tried(d))]
  /\ Finish(d)
  /\ UNCHANGED <<active, touched, fanVars, accepted, held, deaths, lost>>

\* mark_retry, which writes only a row that is still pending.
MarkRetry(d) ==
  /\ pc[d] = "failed" /\ ~LastTry(Tried(d))
  /\ LET r == cur[d].row
     IN IF status[r] = "pending"
        THEN /\ attempts' = [attempts EXCEPT ![r] = Tried(d)]
             /\ wait' = [wait EXCEPT ![r] = Delay(Tried(d))]
        ELSE UNCHANGED <<attempts, wait>>
  /\ Finish(d)
  /\ UNCHANGED <<active, touched, fanVars, status, accepted, held, deaths, lost>>

\* The process dies, or a repository call raises out of run_once; the loop
\* around it starts over.
DispatcherDies(d) ==
  /\ held[d] # {} \/ cur[d] # NoRow
  /\ MayFail
  /\ deaths' = deaths + 1
  /\ held' = [held EXCEPT ![d] = {}]
  /\ Finish(d)
  /\ UNCHANGED <<active, touched, fanVars, rowVars, lost>>

Tick ==
  /\ \E r \in Row : wait[r] > 0
  /\ wait' = [r \in Row |-> IF wait[r] > 0 THEN wait[r] - 1 ELSE 0]
  /\ UNCHANGED <<active, touched, fanVars, status, attempts, accepted, dispVars,
                 deaths, lost>>

-----------------------------------------------------------------------------

Work(m) ==
  \/ Recover(m) \/ Deliver(m) \/ Write(m) \/ Park(m) \/ Abandon(m)
  \/ Emit(m) \/ Lookup(m) \/ Enqueue(m) \/ Ack(m) \/ WorkerDies(m)

Dispatch(d) ==
  \/ Claim(d) \/ Resolve(d) \/ Post(d)
  \/ MarkDispatched(d) \/ MarkDeadLetter(d) \/ MarkRetry(d)

Next ==
  \/ \E s \in Sub : Upsert(s)
  \/ \E m \in Message : Work(m)
  \/ \E p \in Pause : Decided(p)
  \/ \E d \in Dispatcher : Dispatch(d) \/ DispatcherDies(d)
  \/ Tick

Spec == Init /\ [][Next]_vars

-----------------------------------------------------------------------------
(* Properties *)

\* Control points of a worker, with a message that is not there yet.
Points == {"absent", "queued", "write", "park", "parked", "lookup", "fan",
           "abandon", "drain", "acked"}

\* Type invariant: subscriptions, fanouts, delivery rows and dispatchers.
TypeOK ==
  /\ active \in [Sub -> BOOLEAN] /\ touched \subseteq Sub
  /\ task \in [Pause -> {"pending", "running", "awaiting", "decided", "failed"}]
  /\ tries \in [Message -> Nat]
  /\ wpc \in [Message -> Points]
  /\ origin \in Seq(Message) /\ Len(origin) <= MaxEvents
  /\ targets \in [Message -> SUBSET Sub]
  /\ status \in [Row -> {"absent", "pending", "dispatched", "dead_letter"}]
  /\ attempts \in [Row -> 0 .. MaxAttempts]
  /\ wait \in [Row -> 0 .. MaxDelay]
  /\ accepted \in [Row -> Nat]
  /\ pc \in [Dispatcher -> {"poll", "post", "ok", "failed", "bury"}]
  /\ held \in [Dispatcher -> SUBSET Held]
  /\ cur \in [Dispatcher -> Held \cup {NoRow}]
  /\ deaths \in Nat /\ lost \in Nat /\ dropped \in Nat

(***************************************************************************)
(* A row counts as dispatched only if its subscriber accepted it, also     *)
(* when two dispatchers work on the row and their marks cross.             *)
(***************************************************************************)
DispatchedWasAccepted ==
  \A r \in Row : status[r] = "dispatched" => accepted[r] > 0

(***************************************************************************)
(* A row that will be tried again has attempts left, although every        *)
(* dispatcher writes one more than the attempts it read when it claimed    *)
(* the row, which another one may have overtaken.                          *)
(***************************************************************************)
PendingHasBudget ==
  \A r \in Row : status[r] = "pending" => attempts[r] < MaxAttempts

(***************************************************************************)
(* A terminal row is never pending again: a late failure of a second       *)
(* dispatcher does not reopen a delivery that has been decided.            *)
(***************************************************************************)
TerminalIsNotRetried ==
  [][\A r \in Row : status[r] \in {"dispatched", "dead_letter"}
       => status'[r] \in {"dispatched", "dead_letter"}]_vars

\* Some event about p has a delivery row for s.
QueuedFor(p, s) ==
  \E e \in 1 .. Len(origin) :
    PauseOf[origin[e]] = p /\ status[<<e, s>>] # "absent"

\* No message about p is in the queue or in the hands of a worker.
NoMessage(p) == \A m \in Message : PauseOf[m] = p => wpc[m] \in {"absent", "acked"}

Announced(p) == \A s \in Sub \ touched : QueuedFor(p, s)

(***************************************************************************)
(* No reviewer is left waiting in silence.  When the last message of a     *)
(* pause is acked, the pause has been queued for every subscription that   *)
(* was active all along, or it needs no reviewer any more: its task was    *)
(* abandoned, or somebody has decided.  Workers that race for the row,     *)
(* lose and ack without a word, or die between the row, the audit event,   *)
(* the fanout and the ack, do not break this; a swallowed fanout error     *)
(* does.                                                                   *)
(***************************************************************************)
AckedIsAnnounced ==
  \A p \in Pause : dropped = 0 /\ NoMessage(p) =>
    task[p] \in {"failed", "decided"} \/ Announced(p)

\* The deliveries a dispatcher has claimed and not yet dealt with.
InHand(d) == held[d] \cup (IF pc[d] = "poll" THEN {} ELSE {cur[d]})

(***************************************************************************)
(* A dispatcher that is done with a delivery has decided it or has counted *)
(* an attempt against it, also when the subscription was switched off or   *)
(* another dispatcher had the same row: no pass over a row goes without a  *)
(* trace, so that none is picked up for ever (the comment in _dispatch).   *)
(***************************************************************************)
PassesCount ==
  [][\A d \in Dispatcher : ~DispatcherDies(d) =>
       \A h \in InHand(d) \ InHand(d)' :
         status'[h.row] # "pending" \/ attempts'[h.row] > h.attempts]_vars

-----------------------------------------------------------------------------
(* The inductive strengthening of the safety properties, for the proofs *)

RowsOK ==
  /\ DOMAIN status = Row /\ DOMAIN attempts = Row
  /\ attempts \in [Row -> Nat] /\ accepted \in [Row -> Nat]
  /\ DOMAIN pc = Dispatcher
  /\ held \in [Dispatcher -> SUBSET Held]
  /\ DOMAIN cur = Dispatcher

\* What a dispatcher holds was claimed with attempts left, and what it is
\* about to mark dispatched has been accepted.
HandInv ==
  \A d \in Dispatcher :
    /\ \A h \in held[d] : h.attempts < MaxAttempts
    /\ pc[d] # "poll" => cur[d] \in Held /\ cur[d].attempts < MaxAttempts
    /\ pc[d] = "ok" => accepted[cur[d].row] > 0

\* A row that may be tried, now or once it is queued, has attempts left.
OpenInv ==
  \A r \in Row : status[r] \in {"absent", "pending"} => attempts[r] < MaxAttempts

DeliveryInv == RowsOK /\ HandInv /\ OpenInv /\ DispatchedWasAccepted

FanoutOK ==
  /\ active \in [Sub -> BOOLEAN] /\ dropped \in Nat
  /\ origin \in Seq(Message) /\ Len(origin) <= MaxEvents
  /\ task \in [Pause -> {"pending", "running", "awaiting", "decided", "failed"}]
  /\ wpc \in [Message -> Points] /\ targets \in [Message -> SUBSET Sub]
  /\ \A s \in Sub \ touched : active[s]

\* The message that is being fanned out has a last event of its own.
EventInv ==
  \A m \in Message : wpc[m] \in {"lookup", "fan"} =>
    \E e \in 1 .. Len(origin) :
      origin[e] = m /\ \A f \in e + 1 .. Len(origin) : origin[f] # m

\* A fanout under way has queued what it no longer has to write.
FanInv ==
  \A m \in Message : wpc[m] = "fan" /\ dropped = 0 =>
    \A s \in Sub \ touched : s \in targets[m] \/ QueuedFor(PauseOf[m], s)

\* The points at which a worker has still to announce the pause, whatever the
\* others do: a worker about to park may lose the row to somebody else.
Sure == {"queued", "write", "parked", "lookup", "fan", "abandon"}

\* Whoever lost the race left it to one that has not announced yet.
Pending(p) ==
  \/ task[p] \in {"failed", "decided"}
  \/ \E m \in Message : PauseOf[m] = p /\ wpc[m] \in Sure
  \/ task[p] = "running" /\ \E m \in Message : PauseOf[m] = p /\ wpc[m] = "park"

\* Nobody parks before somebody has written RUNNING.
NotStarted(p) ==
  task[p] = "pending" =>
    \A m \in Message : PauseOf[m] = p => wpc[m] \in {"absent", "queued", "write", "abandon"}

RaceInv ==
  \A p \in Pause : NotStarted(p) /\ (dropped = 0 => Pending(p) \/ Announced(p))

AnnounceInv == FanoutOK /\ EventInv /\ FanInv /\ RaceInv
=============================================================================
