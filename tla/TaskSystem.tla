----------------------------- MODULE TaskSystem -----------------------------
(***************************************************************************)
(* The task execution core of meta-agent: the HTTP side that submits,      *)
(* approves and aborts tasks, the transactional outbox, the Redis stream   *)
(* with its per-consumer pending lists, the workers that run task graphs   *)
(* step by step from checkpoints, startup recovery, task chaining and the  *)
(* approval-expiry sweeper.                                                *)
(*                                                                         *)
(* Every statement that touches PostgreSQL or Redis is an atomic step of   *)
(* its own; what a process read earlier is kept in its local variables and *)
(* may be stale when it is used.                                           *)
(***************************************************************************)
EXTENDS GraphRun, FiniteSets

CONSTANTS
  Task,          \* task ids
  Worker,        \* worker processes, named by their consumer name
  Operator,      \* concurrent approve / reject requests of the API
  Sweeper,       \* processes running AwaitingApprovalSweeper.run_once
  ChildOf,       \* the follow-up task of each task, or NoTask
  NoTask, NoWorker, NoEvent,
  MaxAttempts,   \* WorkerConfig.max_attempts
  BatchSize,     \* XREADGROUP COUNT
  RecoverLimit,  \* LIMIT of list_running_for_resume
  SweepBatch,    \* LIMIT of list_awaiting_approval_older_than
  FaultKinds,    \* the faults that may happen
  StableNames,   \* does a restarted worker come back with its old name?
  MaxSeq,        \* bound: no graph step beyond this sequence
  MaxResumes,    \* bound: operators stop after this many decisions on a task
  MaxEntries,    \* bound: stream entries
  MaxPubs,       \* bound: publications of one outbox event
  MaxStamp,      \* bound: distinct clock seconds of recovery keys
  MaxFaults      \* bound: crashes, handler errors and lost acks

\* Outbox events, by idempotency key.
Event == Task \X {"submit", "resume", "recover"} \X Nat

ASSUME SystemAssumption ==
  /\ ChildOf \in [Task -> Task \cup {NoTask}]
  /\ \A p, q \in Task : ChildOf[p] = ChildOf[q] /\ p # q => ChildOf[p] = NoTask
  /\ NoTask \notin Task
  /\ NoEvent \notin Event
  /\ NoWorker \notin Worker
  /\ MaxAttempts \in Nat /\ MaxSeq \in Nat /\ MaxEntries \in Nat
  /\ MaxResumes \in Nat
  /\ MaxPubs \in Nat /\ MaxStamp \in Nat /\ MaxFaults \in Nat
  /\ BatchSize \in Nat \ {0}
  /\ StableNames \in BOOLEAN
  /\ FaultKinds \subseteq {"crash", "handler", "chain", "recover"}

VARIABLES
  tstate,   \* tasks.state ("absent" before the row exists)
  tresult,  \* tasks.result_json, reduced to its kind
  ckpts,    \* task_checkpoints: the set of snapshots of each task
  outbox,   \* outbox rows, identified by their idempotency key
  stream,   \* the Redis stream and the consumer group's pending list
  pc,       \* control point of each worker
  batch,    \* claimed messages a worker has not started on
  cur,      \* entry a worker is handling (0: none)
  seen,     \* task.state as the worker read it in _dispatch
  run,      \* the worker's in-memory TaskRunState
  todo,     \* tasks recover_in_flight listed and has not re-enqueued
  opPc, opTask, opBase,  \* an approve / reject request in progress
  listed,   \* rows a sweeper listed and has not reached
  faults    \* faults so far

taskVars   == <<tstate, tresult>>
workerVars == <<pc, batch, cur, seen, run, todo>>
opVars     == <<opPc, opTask, opBase>>
vars == <<tstate, tresult, ckpts, outbox, stream, pc, batch, cur, seen, run,
          todo, opPc, opTask, opBase, listed, faults>>

-----------------------------------------------------------------------------

Terminal == {"SUCCEEDED", "FAILED", "CANCELLED", "EXPIRED"}
TaskState == {"absent", "PENDING", "RUNNING", "AWAITING_APPROVAL"} \cup Terminal
ResultKind == {"none", "succeeded", "graph_error", "abandoned"}

Slot == 1 .. MaxEntries
EntryRec ==
  [status : {"free", "queued", "pending", "acked"},
   event  : Event \cup {NoEvent},
   owner  : Worker \cup {NoWorker},
   count  : Nat]

FreeEntry ==
  [status |-> "free", event |-> NoEvent, owner |-> NoWorker, count |-> 0]

WorkerPc == {"down", "recover", "idle", "load", "mark", "step", "chain",
             "ack", "abandon"}

TaskOf(e) == e[1]
Submitted(t) == <<t, "submit", 0>>
Resumed(t, n) == <<t, "resume", n>>
Recovered(t, n) == <<t, "recover", n>>

\* The task a worker is handling.
Job(w) == TaskOf(stream[cur[w]].event)

Root(t) == \A p \in Task : ChildOf[p] # t

\* PgCheckpointRepository.latest, with _load_state's fresh run when the log
\* is empty.
LatestOf(S) ==
  IF S = {} THEN InitialRun
  ELSE CHOOSE c \in S : \A d \in S : d.seq <= c.seq
Latest(t) == LatestOf(ckpts[t])

\* UNIQUE (task_id, sequence) of task_checkpoints.
SeqFree(t, n) == \A c \in ckpts[t] : c.seq # n

Running == {t \in Task : tstate[t] = "RUNNING"}
Awaiting == {t \in Task : tstate[t] = "AWAITING_APPROVAL"}

\* The first BatchSize entries of S in stream order.
Take(S) == {i \in S : Cardinality({j \in S : j < i}) < BatchSize}

OwnPending(w) ==
  {i \in Slot : stream[i].status = "pending" /\ stream[i].owner = w}
Queued == {i \in Slot : stream[i].status = "queued"}
Resumes(t) == {e \in outbox : e[1] = t /\ e[2] = "resume"}
Copies(e) == {i \in Slot : stream[i].event = e}

\* One more fault of kind k.
Fault(k) ==
  /\ k \in FaultKinds /\ faults < MaxFaults
  /\ faults' = faults + 1

-----------------------------------------------------------------------------

Init ==
  /\ tstate = [t \in Task |-> "absent"]
  /\ tresult = [t \in Task |-> "none"]
  /\ ckpts = [t \in Task |-> {}]
  /\ outbox = {}
  /\ stream = [i \in Slot |-> FreeEntry]
  /\ pc = [w \in Worker |-> "down"]
  /\ batch = [w \in Worker |-> {}]
  /\ cur = [w \in Worker |-> 0]
  /\ seen = [w \in Worker |-> "absent"]
  /\ run = [w \in Worker |-> InitialRun]
  /\ todo = [w \in Worker |-> {}]
  /\ opPc = [o \in Operator |-> "idle"]
  /\ opTask = [o \in Operator |-> NoTask]
  /\ opBase = [o \in Operator |-> InitialRun]
  /\ listed = [v \in Sweeper |-> {}]
  /\ faults = 0

\* submit_task_transaction: the row and its outbox command in one transaction.
Submit(t) ==
  /\ Root(t) /\ tstate[t] = "absent"
  /\ tstate' = [tstate EXCEPT ![t] = "PENDING"]
  /\ outbox' = outbox \cup {Submitted(t)}
  /\ UNCHANGED <<tresult, ckpts, stream, workerVars, opVars, listed, faults>>

\* The outbox relay appends the command of e to the stream.  It may do so
\* more than once (see OutboxRelay).
Publish(e) ==
  /\ e \in outbox /\ Cardinality(Copies(e)) < MaxPubs
  /\ \E i \in Slot :
       /\ stream[i].status = "free"
       /\ \A j \in Slot : j < i => stream[j].status # "free"
       /\ stream' = [stream EXCEPT ![i] =
                       [FreeEntry EXCEPT !.status = "queued", !.event = e]]
  /\ UNCHANGED <<taskVars, ckpts, outbox, workerVars, opVars, listed, faults>>

-----------------------------------------------------------------------------
(* Worker startup *)

\* build_worker: recover_in_flight lists RUNNING rows of every tenant.
Start(w) ==
  /\ pc[w] = "down"
  /\ \E S \in SUBSET Running :
       /\ \/ S = Running /\ Cardinality(Running) <= RecoverLimit
          \/ Cardinality(S) = RecoverLimit
       /\ todo' = [todo EXCEPT ![w] = S]
       /\ pc' = [pc EXCEPT ![w] = IF S = {} THEN "idle" ELSE "recover"]
  /\ UNCHANGED <<taskVars, ckpts, outbox, stream, batch, cur, seen, run,
                 opVars, listed, faults>>

\* One row is re-enqueued under a key made of the clock second.  A key that
\* exists already, or any other enqueue error, is audited and skipped.
RecoverOne(w) ==
  /\ pc[w] = "recover"
  /\ \E t \in todo[w] :
       /\ todo' = [todo EXCEPT ![w] = @ \ {t}]
       /\ pc' = [pc EXCEPT ![w] = IF todo[w] = {t} THEN "idle" ELSE @]
       /\ \/ /\ \E n \in 1 .. MaxStamp : outbox' = outbox \cup {Recovered(t, n)}
             /\ UNCHANGED faults
          \/ /\ Fault("recover")
             /\ UNCHANGED outbox
  /\ UNCHANGED <<taskVars, ckpts, stream, batch, cur, seen, run, opVars,
                 listed>>

-----------------------------------------------------------------------------
(* The worker loop *)

\* Mutant of Claim: only new entries are read, never the pending list.
ClaimNewOnly(w) ==
  LET got == Take(Queued)
  IN  /\ pc[w] = "idle" /\ batch[w] = {} /\ got # {}
      /\ batch' = [batch EXCEPT ![w] = got]
      /\ stream' = [i \in Slot |->
                      IF i \in got
                      THEN [stream[i] EXCEPT !.status = "pending",
                                             !.owner = w,
                                             !.count = @ + 1]
                      ELSE stream[i]]
      /\ UNCHANGED <<taskVars, ckpts, outbox, pc, cur, seen, run, todo,
                     opVars, listed, faults>>

\* claim_batch: the worker's own unacked entries, then new ones.  Both reads
\* count as a delivery.
Claim(w) ==
  LET got == Take(OwnPending(w)) \cup Take(Queued)
  IN  /\ pc[w] = "idle" /\ batch[w] = {} /\ got # {}
      /\ batch' = [batch EXCEPT ![w] = got]
      /\ stream' = [i \in Slot |->
                      IF i \in got
                      THEN [stream[i] EXCEPT !.status = "pending",
                                             !.owner = w,
                                             !.count = @ + 1]
                      ELSE stream[i]]
      /\ UNCHANGED <<taskVars, ckpts, outbox, pc, cur, seen, run, todo,
                     opVars, listed, faults>>

\* Mutant of Dispatch: a RUNNING row is taken for another worker's task and
\* its message is drained.
DispatchDrainsRunning(w) ==
  /\ pc[w] = "idle"
  /\ \E i \in batch[w] :
       LET t == TaskOf(stream[i].event)
       IN /\ \A j \in batch[w] : i <= j
          /\ batch' = [batch EXCEPT ![w] = @ \ {i}]
          /\ cur' = [cur EXCEPT ![w] = i]
          /\ seen' = [seen EXCEPT ![w] = tstate[t]]
          /\ pc' = [pc EXCEPT ![w] =
                      IF stream[i].count > MaxAttempts THEN "abandon"
                      ELSE IF tstate[t] \in Terminal \cup {"RUNNING"}
                           THEN "ack" ELSE "load"]
  /\ UNCHANGED <<taskVars, ckpts, outbox, stream, run, todo, opVars, listed,
                 faults>>

\* _handle and the first read of _dispatch / _abandon for the next message.
Dispatch(w) ==
  /\ pc[w] = "idle"
  /\ \E i \in batch[w] :
       LET t == TaskOf(stream[i].event)
           tired == stream[i].count > MaxAttempts
       IN /\ \A j \in batch[w] : i <= j
          /\ batch' = [batch EXCEPT ![w] = @ \ {i}]
          /\ cur' = [cur EXCEPT ![w] = i]
          /\ seen' = [seen EXCEPT ![w] = tstate[t]]
          /\ pc' = [pc EXCEPT ![w] =
                      IF tired
                      THEN IF tstate[t] \in Terminal \ {"EXPIRED"}
                           THEN "ack" ELSE "abandon"
                      ELSE IF tstate[t] \in Terminal THEN "ack" ELSE "load"]
  /\ UNCHANGED <<taskVars, ckpts, outbox, stream, run, todo, opVars, listed,
                 faults>>

\* _run_graph reads the latest checkpoint ...
LoadState(w) ==
  /\ pc[w] = "load"
  /\ run' = [run EXCEPT ![w] = Latest(Job(w))]
  /\ pc' = [pc EXCEPT ![w] = IF seen[w] = "RUNNING" THEN "step" ELSE "mark"]
  /\ UNCHANGED <<taskVars, ckpts, outbox, stream, batch, cur, seen, todo,
                 opVars, listed, faults>>

\* ... and then writes RUNNING, without a guard on the current state.
MarkRunning(w) ==
  /\ pc[w] = "mark"
  /\ tstate' = [tstate EXCEPT ![Job(w)] = "RUNNING"]
  /\ pc' = [pc EXCEPT ![w] = "step"]
  /\ UNCHANGED <<tresult, ckpts, outbox, stream, batch, cur, seen, run, todo,
                 opVars, listed, faults>>

\* The message is done with, acknowledged or not; the worker goes on to the
\* next one of its batch.
Release(w) ==
  /\ pc' = [pc EXCEPT ![w] = "idle"]
  /\ cur' = [cur EXCEPT ![w] = 0]
  /\ seen' = [seen EXCEPT ![w] = "absent"]
  /\ run' = [run EXCEPT ![w] = InitialRun]

\* Mutant of PersistStep: no unique key on (task_id, sequence).
PersistStepNoKey(w) ==
  /\ pc[w] = "step" /\ ~AtRest(run[w])
  /\ \E s \in StepResults(run[w]) :
       /\ s.seq <= MaxSeq
       /\ ckpts' = [ckpts EXCEPT ![Job(w)] = @ \cup {s}]
       /\ run' = [run EXCEPT ![w] = s]
  /\ UNCHANGED <<taskVars, outbox, stream, pc, cur, seen, batch, todo, opVars,
                 listed, faults>>

\* Mutant of PersistStep: the taken sequence is ignored and the next free one
\* used, as an append that recomputes max(sequence) + 1 would.
PersistStepRenumbers(w) ==
  /\ pc[w] = "step" /\ ~AtRest(run[w])
  /\ \E s \in StepResults(run[w]) :
       LET n == [s EXCEPT !.seq = Latest(Job(w)).seq + 1]
       IN  /\ n.seq <= MaxSeq
           /\ ckpts' = [ckpts EXCEPT ![Job(w)] = @ \cup {n}]
           /\ run' = [run EXCEPT ![w] = n]
  /\ UNCHANGED <<taskVars, outbox, stream, pc, cur, seen, batch, todo, opVars,
                 listed, faults>>

\* graph.step followed by _persist_step.  A sequence that is taken raises
\* out of the handler: the entry stays in the pending list.
PersistStep(w) ==
  /\ pc[w] = "step" /\ ~AtRest(run[w])
  /\ \E s \in StepResults(run[w]) :
       /\ s.seq <= MaxSeq
       /\ \/ /\ SeqFree(Job(w), s.seq)
             /\ ckpts' = [ckpts EXCEPT ![Job(w)] = @ \cup {s}]
             /\ run' = [run EXCEPT ![w] = s]
             /\ UNCHANGED <<pc, cur, seen>>
          \/ /\ ~SeqFree(Job(w), s.seq)
             /\ Release(w)
             /\ UNCHANGED ckpts
  /\ UNCHANGED <<taskVars, outbox, stream, batch, todo, opVars, listed, faults>>

\* set_awaiting_approval, guarded by RUNNING; either way the message is acked.
Pause(w) ==
  /\ pc[w] = "step" /\ run[w].awaiting
  /\ tstate' = [tstate EXCEPT ![Job(w)] =
                  IF @ = "RUNNING" THEN "AWAITING_APPROVAL" ELSE @]
  /\ pc' = [pc EXCEPT ![w] = "ack"]
  /\ UNCHANGED <<tresult, ckpts, outbox, stream, batch, cur, seen, run, todo,
                 opVars, listed, faults>>

\* Mutant of Outcome: state and result arguments swapped.
OutcomeSwapped(s) ==
  IF s.error THEN [state |-> "graph_error", result |-> "FAILED"]
  ELSE [state |-> "succeeded", result |-> "SUCCEEDED"]

\* _build_result.
Outcome(s) == IF s.error THEN [state |-> "FAILED", result |-> "graph_error"]
              ELSE [state |-> "SUCCEEDED", result |-> "succeeded"]

\* Mutant of Complete: the loop is left after its first step.
CompleteEarly(w) ==
  LET t == Job(w)
      o == Outcome(run[w])
      written == tstate[t] \notin Terminal
  IN  /\ pc[w] = "step" /\ ~run[w].awaiting /\ run[w].seq > 0
      /\ tstate' = [tstate EXCEPT ![t] = IF written THEN o.state ELSE @]
      /\ tresult' = [tresult EXCEPT ![t] = IF written THEN o.result ELSE @]
      /\ pc' = [pc EXCEPT ![w] = "ack"]
      /\ UNCHANGED <<ckpts, outbox, stream, batch, cur, seen, run, todo,
                     opVars, listed, faults>>

\* Mutant of Complete: the chain hook runs for failed parents too.
CompleteChainsAlways(w) ==
  LET t == Job(w)
      o == Outcome(run[w])
      written == tstate[t] \notin Terminal
  IN  /\ pc[w] = "step" /\ Finished(run[w]) /\ ~run[w].awaiting
      /\ tstate' = [tstate EXCEPT ![t] = IF written THEN o.state ELSE @]
      /\ tresult' = [tresult EXCEPT ![t] = IF written THEN o.result ELSE @]
      /\ pc' = [pc EXCEPT ![w] =
                  IF written /\ ChildOf[t] # NoTask THEN "chain" ELSE "ack"]
      /\ UNCHANGED <<ckpts, outbox, stream, batch, cur, seen, run, todo,
                     opVars, listed, faults>>

\* complete(): a guarded terminal write; a row that is terminal already is
\* left alone and the message is drained.
Complete(w) ==
  LET t == Job(w)
      o == Outcome(run[w])
      written == tstate[t] \notin Terminal
  IN  /\ pc[w] = "step" /\ Finished(run[w]) /\ ~run[w].awaiting
      /\ tstate' = [tstate EXCEPT ![t] = IF written THEN o.state ELSE @]
      /\ tresult' = [tresult EXCEPT ![t] = IF written THEN o.result ELSE @]
      /\ pc' = [pc EXCEPT ![w] =
                  IF written /\ ~run[w].error /\ ChildOf[t] # NoTask
                  THEN "chain" ELSE "ack"]
      /\ UNCHANGED <<ckpts, outbox, stream, batch, cur, seen, run, todo,
                     opVars, listed, faults>>

\* _maybe_enqueue_follow_up: the child row and its command in one
\* transaction, keyed so that it is written once.
Chain(w) ==
  LET child == ChildOf[Job(w)]
  IN  /\ pc[w] = "chain"
      /\ IF tstate[child] = "absent"
         THEN /\ tstate' = [tstate EXCEPT ![child] = "PENDING"]
              /\ outbox' = outbox \cup {Submitted(child)}
         ELSE UNCHANGED <<tstate, outbox>>
      /\ pc' = [pc EXCEPT ![w] = "ack"]
      /\ UNCHANGED <<tresult, ckpts, stream, batch, cur, seen, run, todo,
                     opVars, listed, faults>>

\* The follow-up transaction failed: audited, and the parent is acked.
ChainFails(w) ==
  /\ pc[w] = "chain" /\ Fault("chain")
  /\ pc' = [pc EXCEPT ![w] = "ack"]
  /\ UNCHANGED <<taskVars, ckpts, outbox, stream, batch, cur, seen, run, todo,
                 opVars, listed>>

\* _abandon's guarded terminal write.
Abandon(w) ==
  LET t == Job(w)
      written == tstate[t] \notin Terminal
  IN  /\ pc[w] = "abandon"
      /\ tstate' = [tstate EXCEPT ![t] = IF written THEN "FAILED" ELSE @]
      /\ tresult' = [tresult EXCEPT ![t] = IF written THEN "abandoned" ELSE @]
      /\ pc' = [pc EXCEPT ![w] = "ack"]
      /\ UNCHANGED <<ckpts, outbox, stream, batch, cur, seen, run, todo,
                     opVars, listed, faults>>

\* XACK.
Ack(w) ==
  /\ pc[w] = "ack"
  /\ stream' = [stream EXCEPT ![cur[w]] =
                  [@ EXCEPT !.status = "acked", !.owner = NoWorker, !.count = 0]]
  /\ Release(w)
  /\ UNCHANGED <<taskVars, ckpts, outbox, batch, todo, opVars, listed, faults>>

-----------------------------------------------------------------------------
(* Faults of a worker *)

\* A node, an audit insert, a workspace or a repository call raises, or the
\* XACK fails: the entry stays in the worker's pending list.
HandlerFails(w) ==
  /\ pc[w] \in {"load", "mark", "step", "chain", "ack"} /\ Fault("handler")
  /\ Release(w)
  /\ UNCHANGED <<taskVars, ckpts, outbox, stream, batch, todo, opVars, listed>>

\* The process dies.  Its pending entries belong to its consumer name: they
\* are read again only by a worker that comes back with that name.
Crash(w) ==
  /\ pc[w] # "down" /\ Fault("crash")
  /\ pc' = [pc EXCEPT ![w] = "down"]
  /\ batch' = [batch EXCEPT ![w] = {}]
  /\ cur' = [cur EXCEPT ![w] = 0]
  /\ seen' = [seen EXCEPT ![w] = "absent"]
  /\ run' = [run EXCEPT ![w] = InitialRun]
  /\ todo' = [todo EXCEPT ![w] = {}]
  /\ stream' = IF StableNames THEN stream
               ELSE [i \in Slot |-> IF i \in OwnPending(w)
                                    THEN [stream[i] EXCEPT !.owner = NoWorker]
                                    ELSE stream[i]]
  /\ UNCHANGED <<taskVars, ckpts, outbox, opVars, listed>>

-----------------------------------------------------------------------------
(* Operators: ApprovalGateway *)

\* _resolve reads the row ...
OpRead(o, t) ==
  /\ opPc[o] = "idle"
  /\ tstate[t] = "AWAITING_APPROVAL"
  /\ Cardinality(Resumes(t)) < MaxResumes
  /\ opPc' = [opPc EXCEPT ![o] = "read"]
  /\ opTask' = [opTask EXCEPT ![o] = t]
  /\ UNCHANGED <<taskVars, ckpts, outbox, stream, workerVars, opBase, listed,
                 faults>>

\* ... then the latest checkpoint, which a paused row always has ...
OpLatest(o) ==
  /\ opPc[o] = "read"
  /\ opPc' = [opPc EXCEPT ![o] = "commit"]
  /\ opBase' = [opBase EXCEPT ![o] = Latest(opTask[o])]
  /\ UNCHANGED <<taskVars, ckpts, outbox, stream, workerVars, opTask, listed,
                 faults>>

\* ... and commits checkpoint, state and resume command in one transaction,
\* which a taken sequence, a taken key or a changed row rolls back.
OpCommit(o) ==
  /\ opPc[o] = "commit"
  /\ opPc' = [opPc EXCEPT ![o] = "idle"]
  /\ opTask' = [opTask EXCEPT ![o] = NoTask]
  /\ opBase' = [opBase EXCEPT ![o] = InitialRun]
  /\ LET t == opTask[o]
         n == opBase[o].seq + 1
         allowed == /\ SeqFree(t, n)
                    /\ tstate[t] = "AWAITING_APPROVAL"
                    /\ Resumed(t, n) \notin outbox
     IN \/ /\ allowed
           /\ \E s \in DecisionResults(opBase[o]) :
                ckpts' = [ckpts EXCEPT ![t] = @ \cup {s}]
           /\ tstate' = [tstate EXCEPT ![t] = "RUNNING"]
           /\ outbox' = outbox \cup {Resumed(t, n)}
        \/ /\ ~allowed
           /\ UNCHANGED <<ckpts, tstate, outbox>>
  /\ UNCHANGED <<tresult, stream, workerVars, listed, faults>>

\* abort: one guarded write.
Abort(t) ==
  /\ Operator # {} /\ tstate[t] = "AWAITING_APPROVAL"
  /\ tstate' = [tstate EXCEPT ![t] = "CANCELLED"]
  /\ UNCHANGED <<tresult, ckpts, outbox, stream, workerVars, opVars, listed,
                 faults>>

-----------------------------------------------------------------------------
(* The expiry sweeper *)

\* run_once lists rows paused for longer than the expiry.
SweepList(v) ==
  /\ listed[v] = {}
  /\ \E S \in SUBSET Awaiting :
       /\ S # {} /\ Cardinality(S) <= SweepBatch
       /\ listed' = [listed EXCEPT ![v] = S]
  /\ UNCHANGED <<taskVars, ckpts, outbox, stream, workerVars, opVars, faults>>

\* Each listed row is expired if it is awaiting approval now, also when the
\* pause that was listed is over and the run has paused again since.
SweepOne(v) ==
  /\ \E t \in listed[v] :
       /\ listed' = [listed EXCEPT ![v] = @ \ {t}]
       /\ tstate' = [tstate EXCEPT ![t] =
                       IF @ = "AWAITING_APPROVAL" THEN "EXPIRED" ELSE @]
  /\ UNCHANGED <<tresult, ckpts, outbox, stream, workerVars, opVars, faults>>

-----------------------------------------------------------------------------

\* What a live worker does when nothing goes wrong.
Work(w) ==
  \/ RecoverOne(w) \/ Claim(w) \/ Dispatch(w) \/ LoadState(w)
  \/ MarkRunning(w) \/ PersistStep(w) \/ Pause(w) \/ Complete(w)
  \/ Chain(w) \/ Abandon(w) \/ Ack(w)

Next ==
  \/ \E t \in Task : Submit(t) \/ Abort(t)
  \/ \E e \in outbox : Publish(e)
  \/ \E w \in Worker : \/ Start(w) \/ Work(w)
                       \/ ChainFails(w) \/ HandlerFails(w) \/ Crash(w)
  \/ \E o \in Operator : \/ \E t \in Task : OpRead(o, t)
                         \/ OpLatest(o) \/ OpCommit(o)
  \/ \E v \in Sweeper : SweepList(v) \/ SweepOne(v)

Spec == Init /\ [][Next]_vars

(***************************************************************************)
(* Fairness.  A process that can take its next step eventually does: the   *)
(* worker loop runs until the process dies and its supervisor restarts it, *)
(* an HTTP request runs to its end, and the relay polls for rows it has    *)
(* not published yet.  Nothing obliges an operator to act, the sweeper to  *)
(* run, or the relay to publish an event twice.                            *)
(***************************************************************************)
Fairness ==
  /\ \A w \in Worker : WF_vars(Start(w)) /\ WF_vars(Work(w))
  /\ WF_vars(\E e \in outbox : Copies(e) = {} /\ Publish(e))
  /\ \A o \in Operator : WF_vars(OpLatest(o)) /\ WF_vars(OpCommit(o))

FairSpec == Spec /\ Fairness

-----------------------------------------------------------------------------
(* Properties *)

\* Type invariant: rows, log, outbox, stream and the locals of each process.
TypeOK ==
  /\ tstate \in [Task -> TaskState]
  /\ tresult \in [Task -> ResultKind]
  /\ ckpts \in [Task -> SUBSET RunState]
  /\ outbox \subseteq Event
  /\ stream \in [Slot -> EntryRec]
  /\ pc \in [Worker -> WorkerPc]
  /\ batch \in [Worker -> SUBSET Slot]
  /\ cur \in [Worker -> Slot \cup {0}]
  /\ seen \in [Worker -> TaskState]
  /\ run \in [Worker -> RunState]
  /\ todo \in [Worker -> SUBSET Task]
  /\ opPc \in [Operator -> {"idle", "read", "commit"}]
  /\ opTask \in [Operator -> Task \cup {NoTask}]
  /\ opBase \in [Operator -> RunState]
  /\ listed \in [Sweeper -> SUBSET Task]
  /\ faults \in 0 .. MaxFaults

\* c is what one graph step or one decision makes of p.
Follows(p, c) ==
  \/ ~AtRest(p) /\ c \in StepResults(p)
  \/ c \in DecisionResults(p)

(***************************************************************************)
(* The checkpoint log of a task is one linear history: no two snapshots    *)
(* share a sequence, and each is what one step or one decision made of the *)
(* snapshot before it.  It is what lets two workers that were handed the   *)
(* same task, and an operator deciding meanwhile, race without forking the *)
(* run (PersistStep and OpCommit against the unique key).                  *)
(***************************************************************************)
LinearHistory ==
  \A t \in Task : \A c \in ckpts[t] :
    /\ \A d \in ckpts[t] : d.seq = c.seq => d = c
    /\ \E p \in ckpts[t] \cup {InitialRun} : p.seq + 1 = c.seq /\ Follows(p, c)

(***************************************************************************)
(* A stored outcome is the outcome of the log: a task is SUCCEEDED, or has *)
(* a graph error, only when its latest checkpoint is finished that way,    *)
(* whichever of the racing workers wrote the row and whatever decision was *)
(* merged later.                                                           *)
(***************************************************************************)
OutcomeMatchesLog ==
  \A t \in Task :
    /\ tstate[t] = "SUCCEEDED" => Finished(Latest(t)) /\ ~Latest(t).error
    /\ tstate[t] = "FAILED" /\ tresult[t] = "graph_error"
         => Finished(Latest(t)) /\ Latest(t).error

\* Something still makes a worker look at t: a command that is not yet on
\* the stream, not yet delivered, or delivered and not yet decided about by
\* the worker that holds it.
Carries(i, t) ==
  /\ stream[i].status \in {"queued", "pending"}
  /\ TaskOf(stream[i].event) = t
  /\ stream[i].status = "pending" => stream[i].owner \in Worker
  /\ \A w \in Worker : ~(pc[w] \in {"chain", "ack"} /\ cur[w] = i)

Carried(t) ==
  \/ \E e \in outbox : TaskOf(e) = t /\ Copies(e) = {}
  \/ \E i \in Slot : Carries(i, t)

(***************************************************************************)
(* No task is ever forgotten: while a row is PENDING or RUNNING, a command *)
(* for it exists that will reach a worker.  The handler acks early on      *)
(* several paths (terminal row, lost pause, lost completion), each on the  *)
(* strength of a read that may be stale.                                   *)
(***************************************************************************)
NoLostTask ==
  \A t \in Task : tstate[t] \in {"PENDING", "RUNNING"} => Carried(t)

(***************************************************************************)
(* A follow-up task exists only after its parent's run ended in success.   *)
(***************************************************************************)
ChildAfterSuccess ==
  \A t \in Task : ChildOf[t] # NoTask /\ tstate[ChildOf[t]] # "absent"
    => Finished(Latest(t)) /\ ~Latest(t).error

Log == INSTANCE SequentialRun WITH run <- [t \in Task |-> Latest(t)]

(***************************************************************************)
(* The system implements SequentialRun with the latest checkpoint as run:  *)
(* whatever races and crashes happen, what latest() returns advances by    *)
(* whole steps and decisions, never back and never sideways.               *)
(***************************************************************************)
LogIsSequential == Log!Spec

(***************************************************************************)
(* A finalised row is never revived: once a task is terminal its state     *)
(* stays what it is (the comment above the terminal check of _dispatch).   *)
(* The unguarded update_state of _run_graph breaks it.                     *)
(***************************************************************************)
TerminalIsFinal ==
  [][\A t \in Task : tstate[t] \in Terminal => tstate'[t] = tstate[t]]_vars

(***************************************************************************)
(* A worker parks a task for approval only while its latest checkpoint is  *)
(* a pause (the comment on _SET_AWAITING_APPROVAL): a redelivered worker   *)
(* cannot pause a task that was advanced past the gate.  A worker that     *)
(* loaded the paused snapshot before the operator's decision does.         *)
(***************************************************************************)
PauseMatchesLog ==
  [][\A t \in Task :
       tstate[t] # "AWAITING_APPROVAL" /\ tstate'[t] = "AWAITING_APPROVAL"
         => Latest(t).awaiting]_vars

(***************************************************************************)
(* A task that succeeded gets its follow-up submitted, also when the       *)
(* worker dies in between (the comment on the chain hook in _run_graph).   *)
(* The redelivery finds a terminal row and never reaches the hook.         *)
(***************************************************************************)
FollowUpSurvivesCrash ==
  \A t \in {p \in Task : ChildOf[p] # NoTask} :
    tstate[t] = "SUCCEEDED" ~> tstate[ChildOf[t]] # "absent"

(***************************************************************************)
(* Every submitted task is eventually decided or parked at a gate,         *)
(* whatever the bounded number of crashes, handler errors and lost acks.   *)
(***************************************************************************)
EveryTaskSettles ==
  \A t \in Task : tstate[t] \in {"PENDING", "RUNNING"}
                  ~> tstate[t] \in Terminal \cup {"AWAITING_APPROVAL"}

-----------------------------------------------------------------------------
(* The inductive strengthening of the safety properties, for the proofs *)

\* A log: typed, one snapshot per sequence 1, 2, ..., m, each following from
\* the one before, and final once it is finished.
Contiguous(S) ==
  S # {} => \E m \in S : /\ \A c \in S : c.seq \in 1 .. m.seq
                         /\ \A k \in 1 .. m.seq : \E c \in S : c.seq = k
Linear(S) ==
  \A c \in S :
    /\ \A d \in S : d.seq = c.seq => d = c
    /\ \E p \in S \cup {InitialRun} : p.seq + 1 = c.seq /\ Follows(p, c)
FinalOnceFinished(S) ==
  \A c, d \in S : Finished(c) /\ c.seq <= d.seq
                   => Finished(d) /\ d.error = c.error
ValidLog(S) ==
  S \subseteq RunState /\ Contiguous(S) /\ Linear(S) /\ FinalOnceFinished(S)

LogInv == \A t \in Task : ValidLog(ckpts[t])

\* The stream carries outbox events, and a worker handles only entries that
\* are pending under its own name.
Busy == {"load", "mark", "step", "chain", "ack", "abandon"}
HeldBy(w) == batch[w] \cup ({cur[w]} \ {0})
EntryInv ==
  /\ \A i \in Slot : IF stream[i].status = "free" THEN stream[i].event = NoEvent
                     ELSE stream[i].event \in outbox
  /\ \A w \in Worker : /\ pc[w] \in Busy <=> cur[w] # 0
                       /\ cur[w] \notin batch[w]
                       /\ \A i \in HeldBy(w) : /\ stream[i].status = "pending"
                                                /\ stream[i].owner = w

\* What a worker steps from, and what a decision is merged into, is in the log.
BaseInv ==
  /\ \A w \in Worker :
       /\ pc[w] \in {"mark", "step", "chain"}
            => run[w] \in ckpts[Job(w)] \cup {InitialRun}
       /\ pc[w] = "chain"
            => Finished(run[w]) /\ ~run[w].error /\ ChildOf[Job(w)] \in Task
  /\ \A o \in Operator :
       /\ opPc[o] # "idle" => opTask[o] \in Task
       /\ opPc[o] = "commit" => opBase[o] \in ckpts[opTask[o]] \cup {InitialRun}

\* No command, written or about to be, without its task row.
RowInv ==
  /\ \A e \in outbox : tstate[TaskOf(e)] # "absent"
  /\ \A w \in Worker : \A t \in todo[w] : tstate[t] # "absent"

SafetyInv ==
  /\ TypeOK /\ LogInv /\ EntryInv /\ BaseInv /\ RowInv
  /\ OutcomeMatchesLog /\ ChildAfterSuccess

\* Past update_state, or about to skip it: the row is not PENDING any more.
PastMark(w) == pc[w] = "step" \/ (pc[w] = "load" /\ seen[w] = "RUNNING")
MarkInv ==
  \A w \in Worker : PastMark(w) => tstate[Job(w)] # "PENDING"

DeliveryInv == MarkInv /\ NoLostTask
=============================================================================
