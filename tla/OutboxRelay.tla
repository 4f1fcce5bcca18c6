----------------------------- MODULE OutboxRelay ----------------------------
(***************************************************************************)
(* The outbox relay: OutboxDispatcher replicas (one per API process) that  *)
(* poll the outbox table, publish due rows to the Redis stream and mark    *)
(* them dispatched or failed, with the retry budget and the exponential    *)
(* backoff.  TaskSystem uses it through its effect alone: an event that is *)
(* in the outbox reaches the stream, possibly more than once.              *)
(*                                                                         *)
(* The claim is a SELECT ... FOR UPDATE SKIP LOCKED in a transaction of    *)
(* its own: the row locks are gone and the rows are still pending when the *)
(* dispatcher starts to publish them.  Time is kept per row, as the delay  *)
(* left until next_attempt_at.                                             *)
(***************************************************************************)
EXTENDS Naturals, FiniteSets

CONSTANTS
  Events,       \* outbox rows, numbered in the order of created_at
  Dispatcher,   \* dispatcher replicas
  BatchSize,    \* DispatcherConfig.batch_size
  MaxAttempts,  \* DispatcherConfig.max_attempts
  BaseBackoff, MaxBackoff,  \* DispatcherConfig, in clock ticks
  MaxOutages,   \* bound: failed XADD calls
  MaxCrashes,   \* bound: API process deaths
  MaxDbErrors   \* bound: database errors of a dispatcher

ASSUME RelayAssumption ==
  /\ Events \subseteq Nat
  /\ BatchSize \in Nat \ {0} /\ MaxAttempts \in Nat \ {0}
  /\ BaseBackoff \in Nat \ {0} /\ MaxBackoff \in Nat \ {0}
  /\ MaxOutages \in Nat /\ MaxCrashes \in Nat /\ MaxDbErrors \in Nat

VARIABLES
  status,    \* outbox_events.status ("absent" before the insert)
  attempts,  \* outbox_events.attempts
  wait,      \* ticks until next_attempt_at
  sent,      \* how often the event was appended to the stream
  pc,        \* control point of each dispatcher
  held,      \* rows of its batch still to do, with the attempts it read
  outages, crashes, dbErrors

vars == <<status, attempts, wait, sent, pc, held, outages, crashes, dbErrors>>

Held == [event : Events, attempts : Nat]

Init ==
  /\ status = [e \in Events |-> "absent"]
  /\ attempts = [e \in Events |-> 0]
  /\ wait = [e \in Events |-> 0]
  /\ sent = [e \in Events |-> 0]
  /\ pc = [d \in Dispatcher |-> "poll"]
  /\ held = [d \in Dispatcher |-> {}]
  /\ outages = 0
  /\ crashes = 0
  /\ dbErrors = 0

\* A producer commits the next row.
Enqueue(e) ==
  /\ status[e] = "absent" /\ \A f \in Events : f < e => status[f] # "absent"
  /\ status' = [status EXCEPT ![e] = "pending"]
  /\ UNCHANGED <<attempts, wait, sent, pc, held, outages, crashes, dbErrors>>

\* The rows the claim selects: pending and due.
Due == {e \in Events : status[e] = "pending" /\ wait[e] = 0}

\* ORDER BY created_at LIMIT batch_size.
FirstDue == {e \in Due : Cardinality({f \in Due : f < e}) < BatchSize}

\* Mutant of Claim: rows are marked in flight, with nothing that would return
\* them to pending.
ClaimMarksInFlight(d) ==
  /\ pc[d] = "poll" /\ Due # {}
  /\ held' = [held EXCEPT ![d] =
                {[event |-> e, attempts |-> attempts[e]] : e \in FirstDue}]
  /\ status' = [e \in Events |-> IF e \in FirstDue THEN "in_flight" ELSE status[e]]
  /\ pc' = [pc EXCEPT ![d] = "publish"]
  /\ UNCHANGED <<attempts, wait, sent, outages, crashes, dbErrors>>

\* claim_pending: the rows are read, nothing is written.
Claim(d) ==
  /\ pc[d] = "poll" /\ Due # {}
  /\ held' = [held EXCEPT ![d] =
                {[event |-> e, attempts |-> attempts[e]] : e \in FirstDue}]
  /\ pc' = [pc EXCEPT ![d] = "publish"]
  /\ UNCHANGED <<status, attempts, wait, sent, outages, crashes, dbErrors>>

\* The row a dispatcher works on: its batch in order.
Current(d, h) == h \in held[d] /\ \A g \in held[d] : h.event <= g.event

\* The row is done with: on to the next of the batch, or to the next poll.
Drop(d, h) ==
  /\ held' = [held EXCEPT ![d] = @ \ {h}]
  /\ pc' = [pc EXCEPT ![d] = IF held[d] = {h} THEN "poll" ELSE "publish"]

\* Mutant of Publish: the row is marked before its XADD is sent.
PublishMarksFirst(d) ==
  /\ pc[d] = "publish"
  /\ \E h \in held[d] :
       /\ Current(d, h)
       /\ status' = [status EXCEPT ![h.event] = "dispatched"]
  /\ pc' = [pc EXCEPT ![d] = "mark"]
  /\ UNCHANGED <<attempts, wait, sent, held, outages, crashes, dbErrors>>

\* XADD succeeds.
Publish(d) ==
  /\ pc[d] = "publish"
  /\ \E h \in held[d] :
       /\ Current(d, h)
       /\ sent' = [sent EXCEPT ![h.event] = @ + 1]
  /\ pc' = [pc EXCEPT ![d] = "mark"]
  /\ UNCHANGED <<status, attempts, wait, held, outages, crashes, dbErrors>>

\* publish raises: the entry was not appended, or it was and the reply was
\* lost.
PublishFails(d) ==
  /\ pc[d] = "publish" /\ outages < MaxOutages
  /\ outages' = outages + 1
  /\ \E h \in held[d], applied \in {0, 1} :
       /\ Current(d, h)
       /\ sent' = [sent EXCEPT ![h.event] = @ + applied]
  /\ pc' = [pc EXCEPT ![d] = "fail"]
  /\ UNCHANGED <<status, attempts, wait, held, crashes, dbErrors>>

\* mark_dispatched: no guard on the row's status.
MarkDispatched(d) ==
  /\ pc[d] = "mark"
  /\ \E h \in held[d] :
       /\ Current(d, h)
       /\ status' = [status EXCEPT ![h.event] = "dispatched"]
       /\ Drop(d, h)
  /\ UNCHANGED <<attempts, wait, sent, outages, crashes, dbErrors>>

\* The delay before the next attempt of a row read with n attempts.
Backoff(n) ==
  IF BaseBackoff * 2 ^ n < MaxBackoff THEN BaseBackoff * 2 ^ n ELSE MaxBackoff

\* Mutant of LastAttempt: the attempt is counted twice.
LastAttemptEarly(h) == h.attempts + 2 >= MaxAttempts

\* _handle_failure decides on the attempts it read ...
LastAttempt(h) == h.attempts + 1 >= MaxAttempts

\* ... and mark_failed bumps the attempts of the row, again without a guard.
MarkFailed(d) ==
  /\ pc[d] = "fail"
  /\ \E h \in held[d] :
       /\ Current(d, h)
       /\ status' = [status EXCEPT ![h.event] =
                       IF LastAttempt(h) THEN "failed" ELSE "pending"]
       /\ attempts' = [attempts EXCEPT ![h.event] = @ + 1]
       /\ wait' = [wait EXCEPT ![h.event] =
                     IF LastAttempt(h) THEN 0 ELSE Backoff(h.attempts)]
       /\ Drop(d, h)
  /\ UNCHANGED <<sent, outages, crashes, dbErrors>>

\* claim_pending, mark_dispatched or mark_failed raises: nothing in
\* run_forever catches it, the background task ends, and _log_dispatcher_done
\* only logs it.
DispatcherEnds(d) ==
  /\ pc[d] \in {"poll", "mark", "fail"} /\ dbErrors < MaxDbErrors
  /\ dbErrors' = dbErrors + 1
  /\ pc' = [pc EXCEPT ![d] = "ended"]
  /\ held' = [held EXCEPT ![d] = {}]
  /\ UNCHANGED <<status, attempts, wait, sent, outages, crashes>>

\* The API process dies, or its shutdown cancels the dispatcher.
Crash(d) ==
  /\ pc[d] # "dead" /\ crashes < MaxCrashes
  /\ crashes' = crashes + 1
  /\ pc' = [pc EXCEPT ![d] = "dead"]
  /\ held' = [held EXCEPT ![d] = {}]
  /\ UNCHANGED <<status, attempts, wait, sent, outages, dbErrors>>

\* The API process is restarted and with it its dispatcher.
Restart(d) ==
  /\ pc[d] = "dead"
  /\ pc' = [pc EXCEPT ![d] = "poll"]
  /\ UNCHANGED <<status, attempts, wait, sent, held, outages, crashes, dbErrors>>

Tick ==
  /\ \E e \in Events : wait[e] > 0
  /\ wait' = [e \in Events |-> IF wait[e] > 0 THEN wait[e] - 1 ELSE 0]
  /\ UNCHANGED <<status, attempts, sent, pc, held, outages, crashes, dbErrors>>

Relay(d) ==
  \/ Claim(d) \/ Publish(d) \/ MarkDispatched(d) \/ MarkFailed(d)

Next ==
  \/ \E e \in Events : Enqueue(e)
  \/ \E d \in Dispatcher : \/ Relay(d) \/ PublishFails(d)
                           \/ DispatcherEnds(d) \/ Crash(d) \/ Restart(d)
  \/ Tick

Spec == Init /\ [][Next]_vars

\* run_forever polls without end, time passes, and a dead API process is
\* restarted by its supervisor.  Nothing restarts a dispatcher that ended
\* inside a live API process.
Fairness ==
  /\ \A d \in Dispatcher : WF_vars(Relay(d)) /\ WF_vars(Restart(d))
  /\ WF_vars(Tick)

FairSpec == Spec /\ Fairness

-----------------------------------------------------------------------------
(* Properties *)

\* Type invariant: outbox rows, and the dispatchers' local batches.
TypeOK ==
  /\ status \in [Events -> {"absent", "pending", "dispatched", "failed"}]
  /\ attempts \in [Events -> Nat]
  /\ wait \in [Events -> 0 .. MaxBackoff]
  /\ sent \in [Events -> Nat]
  /\ pc \in [Dispatcher -> {"poll", "publish", "mark", "fail", "ended", "dead"}]
  /\ held \in [Dispatcher -> SUBSET Held]
  /\ outages \in 0 .. MaxOutages
  /\ crashes \in 0 .. MaxCrashes
  /\ dbErrors \in 0 .. MaxDbErrors

(***************************************************************************)
(* The outbox guarantee, with any number of replicas, crashes and lost     *)
(* replies: a row counts as dispatched only if its command really is on    *)
(* the stream.                                                             *)
(***************************************************************************)
DispatchedWasSent ==
  \A e \in Events : status[e] = "dispatched" => sent[e] > 0

(***************************************************************************)
(* No command is given up early: however many replicas hold the same row,  *)
(* decide on the attempts they read and write over each other's marks, a   *)
(* row is failed only after max_attempts of its publishes have failed.     *)
(***************************************************************************)
FailedUsedBudget ==
  \A e \in Events : status[e] = "failed" => attempts[e] >= MaxAttempts


(***************************************************************************)
(* Crashes, outages and retries leave no row behind: while a database      *)
(* error has not ended every dispatcher, a committed row is eventually on  *)
(* the stream or given up for good.                                        *)
(***************************************************************************)
RowsSettleWhileRelayed ==
  \A e \in Events :
    status[e] = "pending" ~> \/ status[e] \in {"dispatched", "failed"}
                             \/ \A d \in Dispatcher : pc[d] = "ended"

(***************************************************************************)
(* Every committed row settles: the relay works until shutdown (the        *)
(* docstring of _default_lifespan).  A database error that ends the        *)
(* dispatcher of a live API process refutes it.                            *)
(***************************************************************************)
EveryRowSettles ==
  \A e \in Events : status[e] = "pending" ~> status[e] \in {"dispatched", "failed"}

-----------------------------------------------------------------------------
(* The inductive strengthening of DispatchedWasSent, for the proof *)

\* The part of the types the argument needs.
RowsOK ==
  /\ DOMAIN status = Events
  /\ attempts \in [Events -> Nat]
  /\ sent \in [Events -> Nat]
  /\ DOMAIN pc = Dispatcher
  /\ held \in [Dispatcher -> SUBSET Held]

\* A dispatcher about to mark a row has appended that row to the stream.
MarkFollowsSend ==
  \A d \in Dispatcher : pc[d] = "mark" =>
    \A h \in held[d] : Current(d, h) => sent[h.event] > 0

SentInv == RowsOK /\ MarkFollowsSend /\ DispatchedWasSent

\* What a dispatcher read may be stale, but attempts only grow.
HeldIsBehind ==
  \A d \in Dispatcher : \A h \in held[d] : h.attempts <= attempts[h.event]

BudgetInv == RowsOK /\ HeldIsBehind /\ FailedUsedBudget
=============================================================================
