-------------------------- MODULE TaskSystemProofs --------------------------
(***************************************************************************)
(* Proofs about TaskSystem, for every number of tasks, workers, operators  *)
(* and sweepers, every graph, and every value of the bounds.               *)
(***************************************************************************)
EXTENDS TaskSystem, TLAPS

-----------------------------------------------------------------------------
(* The graph runtime *)

\* A fresh run is well formed, not paused and not finished.
LEMMA InitialRunFacts ==
  /\ InitialRun \in RunState
  /\ InitialRun.seq = 0
  /\ ~Finished(InitialRun)
BY GraphAssumption DEF InitialRun, RunState, Finished

\* TaskRunState.advance yields a well-formed state one sequence further.
LEMMA AdvanceFacts ==
  ASSUME NEW s \in RunState, NEW n \in Node \cup {END}
  PROVE  /\ Advance(s, n) \in RunState
         /\ Advance(s, n).seq = s.seq + 1
PROOF
  <1>1. s.seq + 1 \in Nat
    BY DEF RunState
  <1>2. Advance(s, n) \in RunState
    BY <1>1, Zenon DEF Advance, RunState
  <1>3. Advance(s, n).seq = s.seq + 1
    BY DEF Advance, RunState
  <1>4. QED
    BY <1>2, <1>3

\* One graph step of a live run yields a well-formed state one sequence
\* further.
LEMMA StepFacts ==
  ASSUME NEW s \in RunState, ~AtRest(s), NEW c \in StepResults(s)
  PROVE  c \in RunState /\ c.seq = s.seq + 1
PROOF
  <1> DEFINE n == IF s.node = START THEN Entry ELSE s.node
  <1>1. n \in Node
    BY GraphAssumption DEF AtRest, Finished, RunState
  <1>2. c \in NodeSteps(s, n)
    BY DEF StepResults
  <1>3. \A m \in Node \cup {END} :
          Advance(s, m) \in RunState /\ Advance(s, m).seq = s.seq + 1
    BY AdvanceFacts
  <1>4. CASE n \in HumanGates
    <2>1. c = HumanGateStep(s, n)
      BY <1>2, <1>4 DEF NodeSteps
    <2>2. ApproveTo[n] \in Node \cup {END} /\ RejectTo[n] \in Node \cup {END}
      BY <1>4, GraphAssumption
    <2>3. QED
      BY <1>1, <1>3, <2>1, <2>2
         DEF HumanGateStep, Consumed, Paused, RunState, Decision
  <1>5. CASE n \notin HumanGates
    <2>1. \A x \in WorkSteps(s, n) : x \in RunState /\ x.seq = s.seq + 1
      BY <1>1, <1>3, GraphAssumption DEF WorkSteps
    <2>a. Paused(s, n, "budget") \in RunState /\ Paused(s, n, "budget").seq = s.seq + 1
      BY <1>1, <1>3 DEF Paused, RunState
    <2>b. FailedRun(s) \in RunState /\ FailedRun(s).seq = s.seq + 1
      BY <1>3 DEF FailedRun, RunState
    <2>2. \A x \in OverBudgetSteps(s, n) : x \in RunState /\ x.seq = s.seq + 1
      BY <2>a, <2>b DEF OverBudgetSteps
    <2>3. [Consumed(Advance(s, n)) EXCEPT !.passed = TRUE] \in RunState
      BY <1>1, <1>3 DEF Consumed, RunState
    <2>4. [Consumed(Advance(s, n)) EXCEPT !.passed = TRUE].seq = s.seq + 1
      BY <1>1, <1>3 DEF Consumed, RunState
    <2>5. Consumed(FailedRun(s)) \in RunState /\ Consumed(FailedRun(s)).seq = s.seq + 1
      BY <1>3 DEF Consumed, FailedRun, RunState
    <2>6. \A x \in BudgetedSteps(s, n) : x \in RunState /\ x.seq = s.seq + 1
      BY <2>1, <2>2, <2>3, <2>4, <2>5 DEF BudgetedSteps
    <2>7. QED
      BY <1>2, <1>5, <2>1, <2>6 DEF NodeSteps
  <1>6. QED
    BY <1>4, <1>5

\* An operator's decision yields a well-formed state one sequence further,
\* with the cursor and the error of the snapshot it was merged into.
LEMMA DecisionFacts ==
  ASSUME NEW s \in RunState, NEW c \in DecisionResults(s)
  PROVE  /\ c \in RunState /\ c.seq = s.seq + 1
         /\ c.node = s.node /\ c.error = s.error
PROOF
  <1>1. PICK d \in Decision : c = Decided(s, d)
    BY DEF DecisionResults
  <1>2. s.seq + 1 \in Nat
    BY DEF RunState
  <1>3. c \in RunState
    BY <1>1, <1>2, Zenon DEF Decided, RunState
  <1>4. c.seq = s.seq + 1 /\ c.node = s.node /\ c.error = s.error
    BY <1>1 DEF Decided, RunState
  <1>5. QED
    BY <1>3, <1>4

-----------------------------------------------------------------------------
(* Checkpoint logs *)

\* A successor is well formed and one sequence further; the successor of a
\* finished snapshot is finished, with the same error.
LEMMA FollowsFacts ==
  ASSUME NEW p \in RunState, NEW c, Follows(p, c)
  PROVE  /\ c \in RunState /\ c.seq = p.seq + 1
         /\ Finished(p) => Finished(c) /\ c.error = p.error
PROOF
  <1>1. CASE ~AtRest(p) /\ c \in StepResults(p)
    BY <1>1, StepFacts DEF AtRest
  <1>2. CASE c \in DecisionResults(p)
    BY <1>2, DecisionFacts DEF Finished
  <1>3. QED
    BY <1>1, <1>2 DEF Follows

\* latest() returns the snapshot with the highest sequence.
LEMMA LatestFacts ==
  ASSUME NEW S, ValidLog(S)
  PROVE  /\ LatestOf(S) \in S \cup {InitialRun}
         /\ S # {} => LatestOf(S) \in S
         /\ LatestOf(S) \in RunState
         /\ \A c \in S : c.seq <= LatestOf(S).seq
PROOF
  <1>1. CASE S = {}
    BY <1>1, InitialRunFacts DEF LatestOf
  <1>2. CASE S # {}
    <2>1. PICK m \in S : \A c \in S : c.seq \in 1 .. m.seq
      BY <1>2 DEF ValidLog, Contiguous
    <2>2. \A c \in S : c.seq <= m.seq
      BY <2>1 DEF ValidLog, RunState
    <2>3. LatestOf(S) \in S /\ \A c \in S : c.seq <= LatestOf(S).seq
      BY <1>2, <2>2 DEF LatestOf
    <2>4. QED
      BY <2>3 DEF ValidLog
  <1>3. QED
    BY <1>1, <1>2

\* A snapshot that follows from p and whose sequence is free can only extend
\* the log at its end: p was the latest snapshot and c is the latest now.
LEMMA AppendFacts ==
  ASSUME NEW S, ValidLog(S), NEW p \in S \cup {InitialRun}, NEW c,
         Follows(p, c), \A d \in S : d.seq # c.seq
  PROVE  /\ ValidLog(S \cup {c})
         /\ LatestOf(S) = p
         /\ LatestOf(S \cup {c}) = c
PROOF
  <1> DEFINE R == S \cup {c}
  <1>1. p \in RunState /\ S \subseteq RunState
    BY InitialRunFacts DEF ValidLog
  <1>2. /\ c \in RunState /\ c.seq = p.seq + 1
        /\ Finished(p) => Finished(c) /\ c.error = p.error
    BY <1>1, FollowsFacts
  <1>3. p.seq \in Nat /\ c.seq \in Nat /\ \A d \in S : d.seq \in Nat
    BY <1>1, <1>2 DEF RunState
  <1>4. \A d \in S : d.seq \in 1 .. p.seq
    <2>1. SUFFICES ASSUME S # {} PROVE \A d \in S : d.seq \in 1 .. p.seq
      OBVIOUS
    <2>2. PICK m \in S : /\ \A d \in S : d.seq \in 1 .. m.seq
                         /\ \A k \in 1 .. m.seq : \E d \in S : d.seq = k
      BY <2>1 DEF ValidLog, Contiguous
    <2>3. p.seq <= m.seq
      BY <2>2, <1>3, InitialRunFacts
    <2>4. p.seq + 1 \notin 1 .. m.seq
      BY <2>2, <1>2
    <2>5. m.seq = p.seq
      BY <2>3, <2>4, <1>3
    <2>6. QED
      BY <2>2, <2>5
  <1>5. \A k \in 1 .. p.seq : \E d \in S : d.seq = k
    <2>1. CASE p \in S
      <3>1. PICK m \in S : /\ \A d \in S : d.seq \in 1 .. m.seq
                           /\ \A k \in 1 .. m.seq : \E d \in S : d.seq = k
        BY <2>1 DEF ValidLog, Contiguous
      <3>2. m.seq = p.seq
        BY <3>1, <2>1, <1>3, <1>4
      <3>3. QED
        BY <3>1, <3>2
    <2>2. CASE p = InitialRun
      BY <2>2, InitialRunFacts
    <2>3. QED
      BY <2>1, <2>2
  <1>6. Contiguous(R)
    <2>1. \A d \in R : d.seq \in 1 .. c.seq
      BY <1>2, <1>3, <1>4
    <2>2. \A k \in 1 .. c.seq : \E d \in R : d.seq = k
      <3>1. SUFFICES ASSUME NEW k \in 1 .. c.seq PROVE \E d \in R : d.seq = k
        OBVIOUS
      <3>2. CASE k = c.seq
        BY <3>2
      <3>3. CASE k # c.seq
        <4>1. k \in 1 .. p.seq
          BY <3>3, <1>2, <1>3
        <4>2. QED
          BY <4>1, <1>5
      <3>4. QED
        BY <3>2, <3>3
    <2>3. QED
      BY <2>1, <2>2 DEF Contiguous
  <1>7. Linear(R)
    <2>1. SUFFICES ASSUME NEW d \in R
                   PROVE  /\ \A e \in R : e.seq = d.seq => e = d
                          /\ \E q \in R \cup {InitialRun} :
                               q.seq + 1 = d.seq /\ Follows(q, d)
      BY DEF Linear
    <2>2. CASE d \in S
      <3>1. /\ \A e \in S : e.seq = d.seq => e = d
            /\ \E q \in S \cup {InitialRun} : q.seq + 1 = d.seq /\ Follows(q, d)
        BY <2>2 DEF ValidLog, Linear
      <3>2. QED
        BY <2>2, <3>1
    <2>3. CASE d = c
      <3>1. p.seq + 1 = c.seq /\ Follows(p, c)
        BY <1>2
      <3>2. QED
        BY <2>3, <3>1
    <2>4. QED
      BY <2>2, <2>3
  <1>8. FinalOnceFinished(R)
    <2>1. SUFFICES ASSUME NEW a \in R, NEW b \in R, Finished(a), a.seq <= b.seq
                   PROVE  Finished(b) /\ b.error = a.error
      BY DEF FinalOnceFinished
    <2>2. CASE a \in S /\ b \in S
      BY <2>1, <2>2 DEF ValidLog, FinalOnceFinished
    <2>3. CASE a \in S /\ b = c
      <3>1. p \in S
        <4>1. a.seq \in 1 .. p.seq
          BY <2>3, <1>4
        <4>2. p.seq # 0
          BY <4>1, <1>3
        <4>3. QED
          BY <4>2, InitialRunFacts
      <3>2. a.seq <= p.seq
        BY <2>3, <1>3, <1>4
      <3>3. Finished(p) /\ p.error = a.error
        BY <2>1, <2>3, <3>1, <3>2 DEF ValidLog, FinalOnceFinished
      <3>4. QED
        BY <2>3, <3>3, <1>2
    <2>4. CASE a = c
      <3>1. b = c
        BY <2>1, <2>4, <1>2, <1>3, <1>4
      <3>2. QED
        BY <2>1, <2>4, <3>1
    <2>5. QED
      BY <2>2, <2>3, <2>4
  <1>9. ValidLog(R)
    BY <1>1, <1>2, <1>6, <1>7, <1>8 DEF ValidLog
  <1>10. LatestOf(R) = c
    <2>1. \A d \in S : d.seq < c.seq
      BY <1>2, <1>3, <1>4
    <2>2. LatestOf(R) \in R /\ c.seq <= LatestOf(R).seq
      BY <1>9, LatestFacts
    <2>3. QED
      BY <2>1, <2>2, <1>3
  <1>11. LatestOf(S) = p
    <2>1. CASE S = {}
      BY <2>1 DEF LatestOf
    <2>2. CASE S # {}
      <3>1. p \in S
        <4>1. PICK d \in S : TRUE
          BY <2>2
        <4>2. p.seq # 0
          BY <4>1, <1>3, <1>4
        <4>3. QED
          BY <4>2, InitialRunFacts
      <3>2. LatestOf(S) \in S /\ p.seq <= LatestOf(S).seq
        BY <2>2, <3>1, LatestFacts
      <3>3. LatestOf(S).seq = p.seq
        BY <3>2, <1>3, <1>4
      <3>4. QED
        BY <3>1, <3>2, <3>3 DEF ValidLog, Linear
    <2>3. QED
      BY <2>1, <2>2
  <1>12. QED
    BY <1>9, <1>10, <1>11

-----------------------------------------------------------------------------
(* Facts about a reachable state *)

\* A busy worker holds a pending entry of an existing task.
LEMMA JobFacts ==
  ASSUME SafetyInv, NEW w \in Worker, pc[w] \in Busy
  PROVE  /\ cur[w] \in Slot
         /\ stream[cur[w]].status = "pending"
         /\ stream[cur[w]].owner = w
         /\ stream[cur[w]].event \in outbox
         /\ Job(w) \in Task
         /\ tstate[Job(w)] # "absent"
PROOF
  <1>1. cur[w] # 0 /\ cur[w] \in Slot /\ cur[w] \in HeldBy(w)
    BY DEF SafetyInv, TypeOK, EntryInv, HeldBy
  <1>2. stream[cur[w]].status = "pending" /\ stream[cur[w]].owner = w
    BY <1>1 DEF SafetyInv, EntryInv
  <1>3. stream[cur[w]].event \in outbox
    BY <1>1, <1>2 DEF SafetyInv, EntryInv
  <1>4. Job(w) \in Task /\ tstate[Job(w)] # "absent"
    BY <1>3 DEF SafetyInv, TypeOK, RowInv, Event, Job, TaskOf
  <1>5. QED
    BY <1>1, <1>2, <1>3, <1>4

\* The latest snapshot of a task is well formed and in its log.
LEMMA LogFacts ==
  ASSUME SafetyInv, NEW t \in Task
  PROVE  /\ ValidLog(ckpts[t])
         /\ Latest(t) \in RunState
         /\ Latest(t).seq \in Nat
         /\ Latest(t) \in ckpts[t] \cup {InitialRun}
PROOF
  <1>1. ValidLog(ckpts[t])
    BY DEF SafetyInv, LogInv
  <1>2. Latest(t) \in RunState /\ Latest(t) \in ckpts[t] \cup {InitialRun}
    BY <1>1, LatestFacts DEF Latest
  <1>3. QED
    BY <1>1, <1>2 DEF RunState

\* Once some snapshot of a task is finished, the latest one is, alike.
LEMMA FinishedFacts ==
  ASSUME SafetyInv, NEW t \in Task, NEW c \in ckpts[t] \cup {InitialRun},
         Finished(c)
  PROVE  Finished(Latest(t)) /\ Latest(t).error = c.error
PROOF
  <1>1. c \in ckpts[t]
    BY InitialRunFacts
  <1>2. ValidLog(ckpts[t])
    BY LogFacts
  <1>3. Latest(t) \in ckpts[t] /\ c.seq <= Latest(t).seq
    BY <1>1, <1>2, LatestFacts DEF Latest
  <1>4. QED
    BY <1>1, <1>2, <1>3 DEF ValidLog, FinalOnceFinished

-----------------------------------------------------------------------------
(* Each action preserves the safety invariant *)

\* submit_task_transaction preserves the invariant.
LEMMA SubmitPreserves ==
  ASSUME SafetyInv, NEW t \in Task, Submit(t)
  PROVE  SafetyInv'
PROOF
  <1>1. TypeOK'
    BY DEF SafetyInv, Submit, TypeOK, RunState, TaskState, Terminal,
       ResultKind, EntryRec, FreeEntry, WorkerPc, Event, Submitted, Recovered,
       Resumed, Running, Awaiting, Release, Fault, taskVars, workerVars,
       opVars
  <1>2. LogInv'
    BY DEF SafetyInv, Submit, LogInv, taskVars, workerVars, opVars
  <1>3. EntryInv'
    BY DEF SafetyInv, Submit, TypeOK, EntryInv, EntryRec, FreeEntry, HeldBy,
       Busy, OwnPending, WorkerPc, Release, Fault, taskVars, workerVars,
       opVars
  <1>4. BaseInv'
    BY DEF SafetyInv, Submit, TypeOK, EntryInv, EntryRec, Job, TaskOf, HeldBy,
       Busy, BaseInv, Release, Fault, taskVars, workerVars, opVars
  <1>5. RowInv'
    BY DEF SafetyInv, Submit, TypeOK, TaskState, Terminal, Event, RowInv,
       TaskOf, Submitted, Recovered, Resumed, Running, Fault, taskVars,
       workerVars, opVars
  <1>6. OutcomeMatchesLog'
    BY DEF SafetyInv, Submit, TypeOK, TaskState, Terminal, OutcomeMatchesLog,
       Latest, taskVars, workerVars, opVars
  <1>7. ChildAfterSuccess'
    BY DEF SafetyInv, Submit, Root, TypeOK, TaskState, Terminal,
       ChildAfterSuccess, Latest, taskVars, workerVars, opVars
  <1>8. QED
    BY <1>1, <1>2, <1>3, <1>4, <1>5, <1>6, <1>7 DEF SafetyInv

\* An operator's abort preserves the invariant.
LEMMA AbortPreserves ==
  ASSUME SafetyInv, NEW t \in Task, Abort(t)
  PROVE  SafetyInv'
PROOF
  <1>1. TypeOK'
    BY DEF SafetyInv, Abort, TypeOK, RunState, TaskState, Terminal,
       ResultKind, EntryRec, FreeEntry, WorkerPc, Event, Submitted, Recovered,
       Resumed, Running, Awaiting, Release, Fault, taskVars, workerVars,
       opVars
  <1>2. LogInv'
    BY DEF SafetyInv, Abort, LogInv, taskVars, workerVars, opVars
  <1>3. EntryInv'
    BY DEF SafetyInv, Abort, TypeOK, EntryInv, EntryRec, FreeEntry, HeldBy,
       Busy, OwnPending, WorkerPc, Release, Fault, taskVars, workerVars,
       opVars
  <1>4. BaseInv'
    BY DEF SafetyInv, Abort, TypeOK, EntryInv, EntryRec, Job, TaskOf, HeldBy,
       Busy, BaseInv, Release, Fault, taskVars, workerVars, opVars
  <1>5. RowInv'
    BY DEF SafetyInv, Abort, TypeOK, TaskState, Terminal, Event, RowInv,
       TaskOf, Submitted, Recovered, Resumed, Running, Fault, taskVars,
       workerVars, opVars
  <1>6. OutcomeMatchesLog'
    BY DEF SafetyInv, Abort, TypeOK, TaskState, Terminal, OutcomeMatchesLog,
       Latest, taskVars, workerVars, opVars
  <1>7. ChildAfterSuccess'
    BY DEF SafetyInv, Abort, TypeOK, TaskState, Terminal, ChildAfterSuccess,
       Latest, taskVars, workerVars, opVars
  <1>8. QED
    BY <1>1, <1>2, <1>3, <1>4, <1>5, <1>6, <1>7 DEF SafetyInv

\* A publication of the relay preserves the invariant.
LEMMA PublishPreserves ==
  ASSUME SafetyInv, NEW e \in outbox, Publish(e)
  PROVE  SafetyInv'
PROOF
  <1>a. PICK i \in Slot :
          /\ stream[i].status = "free"
          /\ stream' = [stream EXCEPT ![i] =
                          [FreeEntry EXCEPT !.status = "queued", !.event = e]]
    BY DEF Publish
  <1>b. /\ [FreeEntry EXCEPT !.status = "queued", !.event = e] \in EntryRec
        /\ [FreeEntry EXCEPT !.status = "queued", !.event = e].event = e
        /\ [FreeEntry EXCEPT !.status = "queued", !.event = e].status = "queued"
    BY DEF SafetyInv, TypeOK, FreeEntry, EntryRec
  <1>1. TypeOK'
    BY <1>a, <1>b DEF SafetyInv, Publish, TypeOK, taskVars, workerVars, opVars
  <1>2. LogInv'
    BY DEF SafetyInv, Publish, LogInv, taskVars, workerVars, opVars
  <1>3. EntryInv'
    BY DEF SafetyInv, Publish, TypeOK, EntryInv, EntryRec, FreeEntry, HeldBy,
       Busy, OwnPending, WorkerPc, Release, Fault, taskVars, workerVars,
       opVars
  <1>4. BaseInv'
    BY DEF SafetyInv, Publish, TypeOK, EntryInv, EntryRec, Job, TaskOf,
       HeldBy, Busy, BaseInv, Release, Fault, taskVars, workerVars, opVars
  <1>5. RowInv'
    BY DEF SafetyInv, Publish, TypeOK, TaskState, Terminal, Event, RowInv,
       TaskOf, Submitted, Recovered, Resumed, Running, Fault, taskVars,
       workerVars, opVars
  <1>6. OutcomeMatchesLog'
    BY DEF SafetyInv, Publish, TypeOK, TaskState, Terminal, OutcomeMatchesLog,
       Latest, taskVars, workerVars, opVars
  <1>7. ChildAfterSuccess'
    BY DEF SafetyInv, Publish, TypeOK, TaskState, Terminal, ChildAfterSuccess,
       Latest, taskVars, workerVars, opVars
  <1>8. QED
    BY <1>1, <1>2, <1>3, <1>4, <1>5, <1>6, <1>7 DEF SafetyInv

\* Worker startup preserves the invariant.
LEMMA StartPreserves ==
  ASSUME SafetyInv, NEW w \in Worker, Start(w)
  PROVE  SafetyInv'
PROOF
  <1>1. TypeOK'
    BY DEF SafetyInv, Start, TypeOK, RunState, TaskState, Terminal,
       ResultKind, EntryRec, FreeEntry, WorkerPc, Event, Submitted, Recovered,
       Resumed, Running, Awaiting, Release, Fault, taskVars, workerVars,
       opVars
  <1>2. LogInv'
    BY DEF SafetyInv, Start, LogInv, taskVars, workerVars, opVars
  <1>3. EntryInv'
    BY DEF SafetyInv, Start, TypeOK, EntryInv, EntryRec, FreeEntry, HeldBy,
       Busy, OwnPending, WorkerPc, Release, Fault, taskVars, workerVars,
       opVars
  <1>4. BaseInv'
    BY DEF SafetyInv, Start, TypeOK, EntryInv, EntryRec, Job, TaskOf, HeldBy,
       Busy, BaseInv, Release, Fault, taskVars, workerVars, opVars
  <1>5. RowInv'
    BY DEF SafetyInv, Start, TypeOK, TaskState, Terminal, Event, RowInv,
       TaskOf, Submitted, Recovered, Resumed, Running, Fault, taskVars,
       workerVars, opVars
  <1>6. OutcomeMatchesLog'
    BY DEF SafetyInv, Start, TypeOK, TaskState, Terminal, OutcomeMatchesLog,
       Latest, taskVars, workerVars, opVars
  <1>7. ChildAfterSuccess'
    BY DEF SafetyInv, Start, TypeOK, TaskState, Terminal, ChildAfterSuccess,
       Latest, taskVars, workerVars, opVars
  <1>8. QED
    BY <1>1, <1>2, <1>3, <1>4, <1>5, <1>6, <1>7 DEF SafetyInv

\* A step of recover_in_flight preserves the invariant.
LEMMA RecoverOnePreserves ==
  ASSUME SafetyInv, NEW w \in Worker, RecoverOne(w)
  PROVE  SafetyInv'
PROOF
  <1>1. TypeOK'
    BY SystemAssumption DEF SafetyInv, RecoverOne, TypeOK, WorkerPc, Event,
       Recovered, Fault, taskVars, workerVars, opVars
  <1>2. LogInv'
    BY DEF SafetyInv, RecoverOne, LogInv, taskVars, workerVars, opVars
  <1>3. EntryInv'
    BY DEF SafetyInv, RecoverOne, TypeOK, EntryInv, EntryRec, FreeEntry,
       HeldBy, Busy, OwnPending, WorkerPc, Release, Fault, taskVars,
       workerVars, opVars
  <1>4. BaseInv'
    BY DEF SafetyInv, RecoverOne, TypeOK, EntryInv, EntryRec, Job, TaskOf,
       HeldBy, Busy, BaseInv, Release, Fault, taskVars, workerVars, opVars
  <1>5. RowInv'
    BY DEF SafetyInv, RecoverOne, TypeOK, RowInv, TaskOf, Recovered, Event,
       taskVars
  <1>6. OutcomeMatchesLog'
    BY DEF SafetyInv, RecoverOne, TypeOK, TaskState, Terminal,
       OutcomeMatchesLog, Latest, taskVars, workerVars, opVars
  <1>7. ChildAfterSuccess'
    BY DEF SafetyInv, RecoverOne, TypeOK, TaskState, Terminal,
       ChildAfterSuccess, Latest, taskVars, workerVars, opVars
  <1>8. QED
    BY <1>1, <1>2, <1>3, <1>4, <1>5, <1>6, <1>7 DEF SafetyInv

\* claim_batch preserves the invariant.
LEMMA ClaimPreserves ==
  ASSUME SafetyInv, NEW w \in Worker, Claim(w)
  PROVE  SafetyInv'
PROOF
  <1>a. PICK got \in SUBSET Slot :
          /\ pc[w] = "idle" /\ batch[w] = {}
          /\ \A i \in got : \/ stream[i].status = "queued"
                            \/ stream[i].status = "pending" /\ stream[i].owner = w
          /\ batch' = [batch EXCEPT ![w] = got]
          /\ stream' = [i \in Slot |->
                          IF i \in got
                          THEN [stream[i] EXCEPT !.status = "pending",
                                                 !.owner = w, !.count = @ + 1]
                          ELSE stream[i]]
    <2>1. Take(OwnPending(w)) \cup Take(Queued) \in SUBSET Slot
      BY DEF Take, OwnPending, Queued
    <2>2. \A i \in Take(OwnPending(w)) \cup Take(Queued) :
            \/ stream[i].status = "queued"
            \/ stream[i].status = "pending" /\ stream[i].owner = w
      BY DEF Take, OwnPending, Queued
    <2>3. QED
      BY <2>1, <2>2 DEF Claim
  <1>b. \A i \in Slot : stream[i] \in EntryRec /\ stream[i].count + 1 \in Nat
    BY DEF SafetyInv, TypeOK, EntryRec
  <1>c. \A i \in Slot : /\ stream'[i] \in EntryRec
                        /\ stream'[i].event = stream[i].event
    <2>1. SUFFICES ASSUME NEW i \in Slot
                   PROVE  /\ stream'[i] \in EntryRec
                          /\ stream'[i].event = stream[i].event
      OBVIOUS
    <2>2. CASE i \notin got
      BY <1>a, <1>b, <2>2
    <2>3. CASE i \in got
      <3>1. stream'[i] = [stream[i] EXCEPT !.status = "pending",
                                           !.owner = w, !.count = @ + 1]
        BY <1>a, <2>3
      <3>2. [stream[i] EXCEPT !.status = "pending",
                              !.owner = w, !.count = @ + 1] \in EntryRec
        BY <1>b, Zenon DEF EntryRec
      <3>3. QED
        BY <3>1, <3>2, <1>b DEF EntryRec
    <2>4. QED
      BY <2>2, <2>3
  <1>d. \A i \in got : stream'[i].status = "pending" /\ stream'[i].owner = w
    BY <1>a, <1>b DEF EntryRec
  <1>e. \A i \in Slot \ got : stream'[i] = stream[i]
    BY <1>a
  <1>1. TypeOK'
    BY <1>a, <1>c DEF SafetyInv, Claim, TypeOK, taskVars, workerVars, opVars
  <1>2. LogInv'
    BY DEF SafetyInv, Claim, LogInv, taskVars, workerVars, opVars
  <1>3. EntryInv'
    <2>1. \A i \in Slot : IF stream'[i].status = "free"
                          THEN stream'[i].event = NoEvent
                          ELSE stream'[i].event \in outbox
      BY <1>a, <1>c, <1>d, <1>e DEF SafetyInv, EntryInv
    <2>2. SUFFICES ASSUME NEW v \in Worker
                   PROVE  /\ pc[v] \in Busy <=> cur[v] # 0
                          /\ cur[v] \notin batch'[v]
                          /\ \A i \in HeldBy(v)' : /\ stream'[i].status = "pending"
                                                    /\ stream'[i].owner = v
      <3>1. UNCHANGED <<outbox, pc, cur>>
        BY DEF Claim
      <3>2. QED
        BY <2>1, <3>1 DEF EntryInv
    <2>3. /\ pc[v] \in Busy <=> cur[v] # 0
          /\ cur[v] \notin batch[v]
          /\ \A i \in HeldBy(v) : /\ stream[i].status = "pending"
                                   /\ stream[i].owner = v
          /\ HeldBy(v) \subseteq Slot
      BY DEF SafetyInv, EntryInv, TypeOK, HeldBy
    <2>4. CASE v = w
      <3>1. cur[w] = 0
        BY <1>a, <2>3, <2>4 DEF Busy
      <3>2. batch'[w] = got /\ cur'[w] = 0 /\ HeldBy(w)' = got
        BY <1>a, <3>1 DEF Claim, HeldBy, SafetyInv, TypeOK
      <3>3. 0 \notin got
        BY SystemAssumption DEF Slot
      <3>4. /\ pc[v] \in Busy <=> cur[v] # 0
            /\ cur[v] \notin batch'[v]
        BY <2>3, <2>4, <3>1, <3>2, <3>3
      <3>5. \A i \in HeldBy(v)' : /\ stream'[i].status = "pending"
                                    /\ stream'[i].owner = v
        BY <1>d, <2>4, <3>2
      <3>6. QED
        BY <3>4, <3>5
    <2>5. CASE v # w
      <3>1. batch'[v] = batch[v] /\ HeldBy(v)' = HeldBy(v)
        BY <1>a, <2>5 DEF Claim, HeldBy, SafetyInv, TypeOK
      <3>2. \A i \in HeldBy(v) : i \notin got
        BY <1>a, <2>3, <2>5
      <3>3. QED
        BY <1>e, <2>3, <3>1, <3>2
    <2>6. QED
      BY <2>4, <2>5
  <1>4. BaseInv'
    <2>1. \A v \in Worker : pc[v] \in {"mark", "step", "chain"} => Job(v)' = Job(v)
      BY <1>c, JobFacts DEF Claim, Job, TaskOf, Busy
    <2>2. QED
      BY <2>1 DEF SafetyInv, BaseInv, Claim, taskVars, opVars
  <1>5. RowInv'
    BY DEF SafetyInv, Claim, TypeOK, TaskState, Terminal, Event, RowInv,
       TaskOf, Submitted, Recovered, Resumed, Running, Fault, taskVars,
       workerVars, opVars
  <1>6. OutcomeMatchesLog'
    BY DEF SafetyInv, Claim, TypeOK, TaskState, Terminal, OutcomeMatchesLog,
       Latest, taskVars, workerVars, opVars
  <1>7. ChildAfterSuccess'
    BY DEF SafetyInv, Claim, TypeOK, TaskState, Terminal, ChildAfterSuccess,
       Latest, taskVars, workerVars, opVars
  <1>8. QED
    BY <1>1, <1>2, <1>3, <1>4, <1>5, <1>6, <1>7 DEF SafetyInv

\* _handle and the row read of _dispatch preserve the invariant.
LEMMA DispatchPreserves ==
  ASSUME SafetyInv, NEW w \in Worker, Dispatch(w)
  PROVE  SafetyInv'
PROOF
  <1>a. PICK i \in batch[w] :
          /\ batch' = [batch EXCEPT ![w] = @ \ {i}]
          /\ cur' = [cur EXCEPT ![w] = i]
          /\ seen' = [seen EXCEPT ![w] = tstate[TaskOf(stream[i].event)]]
          /\ \E p \in {"ack", "abandon", "load"} : pc' = [pc EXCEPT ![w] = p]
    BY DEF Dispatch
  <1>b. i \in Slot /\ stream[i].status = "pending" /\ stream[i].event \in outbox
    BY DEF SafetyInv, TypeOK, EntryInv, HeldBy
  <1>c. tstate[TaskOf(stream[i].event)] \in TaskState
    BY <1>b DEF SafetyInv, TypeOK, Event, TaskOf
  <1>1. TypeOK'
    BY <1>a, <1>b, <1>c DEF SafetyInv, Dispatch, TypeOK, WorkerPc, taskVars,
       workerVars, opVars
  <1>2. LogInv'
    BY DEF SafetyInv, Dispatch, LogInv, taskVars, workerVars, opVars
  <1>3. EntryInv'
    <2>1. SUFFICES ASSUME NEW v \in Worker
                   PROVE  /\ pc'[v] \in Busy <=> cur'[v] # 0
                          /\ cur'[v] \notin batch'[v]
                          /\ \A j \in HeldBy(v)' : /\ stream[j].status = "pending"
                                                    /\ stream[j].owner = v
      BY DEF SafetyInv, EntryInv, Dispatch
    <2>2. /\ pc[v] \in Busy <=> cur[v] # 0
          /\ cur[v] \notin batch[v]
          /\ \A j \in HeldBy(v) : /\ stream[j].status = "pending"
                                   /\ stream[j].owner = v
      BY DEF SafetyInv, EntryInv
    <2>3. CASE v = w
      <3>1. cur'[w] = i /\ batch'[w] = batch[w] \ {i} /\ pc'[w] \in {"ack", "abandon", "load"}
        BY <1>a DEF SafetyInv, TypeOK
      <3>2. HeldBy(w)' \subseteq HeldBy(w) /\ i # 0
        BY <1>b, <3>1 DEF HeldBy, Slot
      <3>3. QED
        BY <2>2, <2>3, <3>1, <3>2 DEF Busy
    <2>4. CASE v # w
      <3>1. cur'[v] = cur[v] /\ batch'[v] = batch[v] /\ pc'[v] = pc[v]
        BY <1>a, <2>4 DEF SafetyInv, TypeOK
      <3>2. QED
        BY <2>2, <3>1 DEF HeldBy
    <2>5. QED
      BY <2>3, <2>4
  <1>4. BaseInv'
    BY DEF SafetyInv, Dispatch, TypeOK, EntryInv, EntryRec, Job, TaskOf,
       HeldBy, Busy, BaseInv, Release, Fault, taskVars, workerVars, opVars
  <1>5. RowInv'
    BY DEF SafetyInv, Dispatch, TypeOK, TaskState, Terminal, Event, RowInv,
       TaskOf, Submitted, Recovered, Resumed, Running, Fault, taskVars,
       workerVars, opVars
  <1>6. OutcomeMatchesLog'
    BY DEF SafetyInv, Dispatch, TypeOK, TaskState, Terminal,
       OutcomeMatchesLog, Latest, taskVars, workerVars, opVars
  <1>7. ChildAfterSuccess'
    BY DEF SafetyInv, Dispatch, TypeOK, TaskState, Terminal,
       ChildAfterSuccess, Latest, taskVars, workerVars, opVars
  <1>8. QED
    BY <1>1, <1>2, <1>3, <1>4, <1>5, <1>6, <1>7 DEF SafetyInv

\* _load_state preserves the invariant: the worker's run is in the log.
LEMMA LoadStatePreserves ==
  ASSUME SafetyInv, NEW w \in Worker, LoadState(w)
  PROVE  SafetyInv'
PROOF
  <1>a. /\ cur[w] \in Slot /\ stream[cur[w]].status = "pending"
        /\ stream[cur[w]].owner = w /\ stream[cur[w]].event \in outbox
        /\ Job(w) \in Task /\ tstate[Job(w)] # "absent"
    BY JobFacts DEF LoadState, Busy
  <1>b. Latest(Job(w)) \in RunState /\ Latest(Job(w)) \in ckpts[Job(w)] \cup {InitialRun}
    BY <1>a, LogFacts
  <1>1. TypeOK'
    BY <1>b DEF SafetyInv, LoadState, TypeOK, WorkerPc, taskVars, workerVars,
       opVars
  <1>2. LogInv'
    BY DEF SafetyInv, LoadState, LogInv, taskVars, workerVars, opVars
  <1>3. EntryInv'
    BY DEF SafetyInv, LoadState, TypeOK, EntryInv, EntryRec, FreeEntry,
       HeldBy, Busy, OwnPending, WorkerPc, Release, Fault, taskVars,
       workerVars, opVars
  <1>4. BaseInv'
    <2>1. \A v \in Worker : Job(v)' = Job(v)
      BY DEF LoadState, Job
    <2>2. QED
      BY <1>b, <2>1 DEF SafetyInv, LoadState, TypeOK, BaseInv, taskVars, opVars
  <1>5. RowInv'
    BY DEF SafetyInv, LoadState, TypeOK, TaskState, Terminal, Event, RowInv,
       TaskOf, Submitted, Recovered, Resumed, Running, Fault, taskVars,
       workerVars, opVars
  <1>6. OutcomeMatchesLog'
    BY DEF SafetyInv, LoadState, TypeOK, TaskState, Terminal,
       OutcomeMatchesLog, Latest, taskVars, workerVars, opVars
  <1>7. ChildAfterSuccess'
    BY DEF SafetyInv, LoadState, TypeOK, TaskState, Terminal,
       ChildAfterSuccess, Latest, taskVars, workerVars, opVars
  <1>8. QED
    BY <1>1, <1>2, <1>3, <1>4, <1>5, <1>6, <1>7 DEF SafetyInv

\* The unguarded update_state preserves the invariant.
LEMMA MarkRunningPreserves ==
  ASSUME SafetyInv, NEW w \in Worker, MarkRunning(w)
  PROVE  SafetyInv'
PROOF
  <1>a. /\ cur[w] \in Slot /\ stream[cur[w]].status = "pending"
        /\ stream[cur[w]].owner = w /\ stream[cur[w]].event \in outbox
        /\ Job(w) \in Task /\ tstate[Job(w)] # "absent"
    BY JobFacts DEF MarkRunning, Busy
  <1>1. TypeOK'
    BY DEF SafetyInv, MarkRunning, TypeOK, RunState, TaskState, Terminal,
       ResultKind, EntryRec, FreeEntry, WorkerPc, Event, Submitted, Recovered,
       Resumed, Running, Awaiting, Release, Fault, taskVars, workerVars,
       opVars
  <1>2. LogInv'
    BY DEF SafetyInv, MarkRunning, LogInv, taskVars, workerVars, opVars
  <1>3. EntryInv'
    BY DEF SafetyInv, MarkRunning, TypeOK, EntryInv, EntryRec, FreeEntry,
       HeldBy, Busy, OwnPending, WorkerPc, Release, Fault, taskVars,
       workerVars, opVars
  <1>4. BaseInv'
    BY DEF SafetyInv, MarkRunning, TypeOK, EntryInv, EntryRec, Job, TaskOf,
       HeldBy, Busy, BaseInv, Release, Fault, taskVars, workerVars, opVars
  <1>5. RowInv'
    BY <1>a DEF SafetyInv, MarkRunning, TypeOK, TaskState, Terminal, Event,
       RowInv, TaskOf, Submitted, Recovered, Resumed, Running, Fault,
       taskVars, workerVars, opVars
  <1>6. OutcomeMatchesLog'
    BY DEF SafetyInv, MarkRunning, TypeOK, TaskState, Terminal,
       OutcomeMatchesLog, Latest, taskVars, workerVars, opVars
  <1>7. ChildAfterSuccess'
    BY <1>a DEF SafetyInv, MarkRunning, TypeOK, TaskState, Terminal,
       ChildAfterSuccess, Latest, taskVars, workerVars, opVars
  <1>8. QED
    BY <1>1, <1>2, <1>3, <1>4, <1>5, <1>6, <1>7 DEF SafetyInv

\* A graph step with its checkpoint preserves the invariant.
LEMMA PersistStepPreserves ==
  ASSUME SafetyInv, NEW w \in Worker, PersistStep(w)
  PROVE  SafetyInv'
PROOF
  <1>a. /\ cur[w] \in Slot /\ stream[cur[w]].status = "pending"
        /\ stream[cur[w]].owner = w /\ stream[cur[w]].event \in outbox
        /\ Job(w) \in Task /\ tstate[Job(w)] # "absent"
    BY JobFacts DEF PersistStep, Busy
  <1>b. PICK s \in StepResults(run[w]) :
          \/ /\ SeqFree(Job(w), s.seq)
             /\ ckpts' = [ckpts EXCEPT ![Job(w)] = @ \cup {s}]
             /\ run' = [run EXCEPT ![w] = s]
             /\ UNCHANGED <<pc, cur, seen>>
          \/ Release(w) /\ UNCHANGED ckpts
    BY DEF PersistStep
  <1>c. run[w] \in RunState /\ run[w] \in ckpts[Job(w)] \cup {InitialRun}
    BY DEF SafetyInv, TypeOK, BaseInv, PersistStep
  <1>d. ~AtRest(run[w]) /\ Follows(run[w], s)
    BY DEF PersistStep, Follows
  <1>e. s \in RunState
    BY <1>c, <1>d, FollowsFacts
  <1>f. \A v \in Worker : cur'[v] = cur[v] => Job(v)' = Job(v)
    BY DEF PersistStep, Job
  <1>g. ASSUME SeqFree(Job(w), s.seq),
               ckpts' = [ckpts EXCEPT ![Job(w)] = @ \cup {s}]
        PROVE  /\ ckpts'[Job(w)] = ckpts[Job(w)] \cup {s}
               /\ ValidLog(ckpts'[Job(w)])
               /\ Latest(Job(w)) = run[w]
               /\ \A t \in Task : t # Job(w) => ckpts'[t] = ckpts[t]
    <2>1. \A d \in ckpts[Job(w)] : d.seq # s.seq
      BY <1>g DEF SeqFree
    <2>2. /\ ckpts'[Job(w)] = ckpts[Job(w)] \cup {s}
          /\ \A t \in Task : t # Job(w) => ckpts'[t] = ckpts[t]
      BY <1>a, <1>g DEF SafetyInv, TypeOK
    <2>3. ValidLog(ckpts[Job(w)])
      BY <1>a, LogFacts
    <2>4. QED
      BY <1>c, <1>d, <2>1, <2>2, <2>3, AppendFacts DEF Latest
  <1>h. ~Finished(run[w])
    BY <1>d DEF AtRest
  <1>1. TypeOK'
    BY <1>b, <1>e, InitialRunFacts DEF SafetyInv, PersistStep, Release,
       TypeOK, TaskState, WorkerPc, taskVars, workerVars, opVars
  <1>2. LogInv'
    BY <1>b, <1>g DEF SafetyInv, LogInv
  <1>3. EntryInv'
    <2>1. CASE UNCHANGED <<pc, cur>>
      BY <2>1 DEF SafetyInv, PersistStep, EntryInv, HeldBy, taskVars, opVars
    <2>2. CASE Release(w)
      BY <2>2 DEF SafetyInv, PersistStep, Release, TypeOK, EntryInv, HeldBy, Busy, Slot, taskVars, opVars
    <2>3. QED
      BY <1>b, <2>1, <2>2
  <1>4. BaseInv'
    <2>1. CASE SeqFree(Job(w), s.seq) /\ ckpts' = [ckpts EXCEPT ![Job(w)] = @ \cup {s}]
                /\ run' = [run EXCEPT ![w] = s] /\ UNCHANGED <<pc, cur, seen>>
      <3>1. \A t \in Task : ckpts[t] \subseteq ckpts'[t]
        BY <1>g, <2>1
      <3>2. \A v \in Worker : pc[v] \in {"mark", "step", "chain"}
              => Job(v) \in Task /\ Job(v)' = Job(v)
        BY <1>f, <2>1, JobFacts DEF Busy
      <3>3. \A v \in Worker : pc'[v] \in {"mark", "step", "chain"}
              => run'[v] \in ckpts'[Job(v)'] \cup {InitialRun}
        BY <1>a, <1>g, <2>1, <3>1, <3>2 DEF SafetyInv, TypeOK, BaseInv
      <3>4. pc[w] # "chain"
        BY DEF PersistStep
      <3>5. \A v \in Worker : pc'[v] = "chain"
              => Finished(run'[v]) /\ ~run'[v].error /\ ChildOf[Job(v)'] \in Task
        BY <2>1, <3>2, <3>4 DEF SafetyInv, TypeOK, BaseInv
      <3>6. \A o \in Operator :
              /\ opPc'[o] # "idle" => opTask'[o] \in Task
              /\ opPc'[o] = "commit" => opBase'[o] \in ckpts'[opTask'[o]] \cup {InitialRun}
        BY <3>1 DEF SafetyInv, BaseInv, PersistStep, opVars
      <3>7. QED
        BY <3>3, <3>5, <3>6 DEF BaseInv
    <2>2. CASE Release(w) /\ UNCHANGED ckpts
      <3>1. pc' = [pc EXCEPT ![w] = "idle"] /\ run' = [run EXCEPT ![w] = InitialRun]
            /\ cur' = [cur EXCEPT ![w] = 0]
        BY <2>2 DEF Release
      <3>2. \A v \in Worker : v # w => Job(v)' = Job(v)
        BY <1>f, <3>1 DEF SafetyInv, TypeOK
      <3>3. QED
        BY <2>2, <3>1, <3>2 DEF SafetyInv, TypeOK, BaseInv, PersistStep, opVars
    <2>3. QED
      BY <1>b, <2>1, <2>2
  <1>5. RowInv'
    BY DEF SafetyInv, PersistStep, TypeOK, TaskState, Terminal, Event, RowInv,
       TaskOf, Submitted, Recovered, Resumed, Running, Fault, taskVars,
       workerVars, opVars
  <1>6. OutcomeMatchesLog'
    <2>1. \A t \in Task : Finished(Latest(t)) => Latest(t)' = Latest(t)
      BY <1>b, <1>g, <1>h DEF Latest
    <2>2. QED
      BY <2>1 DEF SafetyInv, PersistStep, OutcomeMatchesLog, taskVars
  <1>7. ChildAfterSuccess'
    <2>1. \A t \in Task : Finished(Latest(t)) => Latest(t)' = Latest(t)
      BY <1>b, <1>g, <1>h DEF Latest
    <2>2. QED
      BY <2>1 DEF SafetyInv, PersistStep, ChildAfterSuccess, taskVars
  <1>8. QED
    BY <1>1, <1>2, <1>3, <1>4, <1>5, <1>6, <1>7 DEF SafetyInv

\* set_awaiting_approval preserves the invariant.
LEMMA PausePreserves ==
  ASSUME SafetyInv, NEW w \in Worker, Pause(w)
  PROVE  SafetyInv'
PROOF
  <1>a. /\ cur[w] \in Slot /\ stream[cur[w]].status = "pending"
        /\ stream[cur[w]].owner = w /\ stream[cur[w]].event \in outbox
        /\ Job(w) \in Task /\ tstate[Job(w)] # "absent"
    BY JobFacts DEF Pause, Busy
  <1>1. TypeOK'
    BY DEF SafetyInv, Pause, TypeOK, RunState, TaskState, Terminal,
       ResultKind, EntryRec, FreeEntry, WorkerPc, Event, Submitted, Recovered,
       Resumed, Running, Awaiting, Release, Fault, taskVars, workerVars,
       opVars
  <1>2. LogInv'
    BY DEF SafetyInv, Pause, LogInv, taskVars, workerVars, opVars
  <1>3. EntryInv'
    BY DEF SafetyInv, Pause, TypeOK, EntryInv, EntryRec, FreeEntry, HeldBy,
       Busy, OwnPending, WorkerPc, Release, Fault, taskVars, workerVars,
       opVars
  <1>4. BaseInv'
    BY DEF SafetyInv, Pause, TypeOK, EntryInv, EntryRec, Job, TaskOf, HeldBy,
       Busy, BaseInv, Release, Fault, taskVars, workerVars, opVars
  <1>5. RowInv'
    BY DEF SafetyInv, Pause, TypeOK, TaskState, Terminal, Event, RowInv,
       TaskOf, Submitted, Recovered, Resumed, Running, Fault, taskVars,
       workerVars, opVars
  <1>6. OutcomeMatchesLog'
    BY DEF SafetyInv, Pause, TypeOK, TaskState, Terminal, OutcomeMatchesLog,
       Latest, taskVars, workerVars, opVars
  <1>7. ChildAfterSuccess'
    BY DEF SafetyInv, Pause, TypeOK, TaskState, Terminal, ChildAfterSuccess,
       Latest, taskVars, workerVars, opVars
  <1>8. QED
    BY <1>1, <1>2, <1>3, <1>4, <1>5, <1>6, <1>7 DEF SafetyInv

\* complete() preserves the invariant: the outcome is the log's.
LEMMA CompletePreserves ==
  ASSUME SafetyInv, NEW w \in Worker, Complete(w)
  PROVE  SafetyInv'
PROOF
  <1>a. /\ cur[w] \in Slot /\ stream[cur[w]].status = "pending"
        /\ stream[cur[w]].owner = w /\ stream[cur[w]].event \in outbox
        /\ Job(w) \in Task /\ tstate[Job(w)] # "absent"
    BY JobFacts DEF Complete, Busy
  <1>b. run[w] \in RunState /\ run[w] \in ckpts[Job(w)] \cup {InitialRun}
    BY DEF SafetyInv, TypeOK, BaseInv, Complete
  <1>c. Finished(Latest(Job(w))) /\ Latest(Job(w)).error = run[w].error
    BY <1>a, <1>b, FinishedFacts DEF Complete
  <1>d. run[w].error \in BOOLEAN
    BY <1>b DEF RunState
  <1>e. /\ Outcome(run[w]).state \in {"SUCCEEDED", "FAILED"}
        /\ Outcome(run[w]).result \in {"succeeded", "graph_error"}
        /\ Outcome(run[w]).state = "SUCCEEDED" => ~run[w].error
        /\ Outcome(run[w]).result = "graph_error" => run[w].error
    BY <1>d DEF Outcome
  <1>f. /\ \A t \in Task : t # Job(w) => tstate'[t] = tstate[t] /\ tresult'[t] = tresult[t]
        /\ \/ /\ tstate'[Job(w)] = Outcome(run[w]).state
              /\ tresult'[Job(w)] = Outcome(run[w]).result
           \/ /\ tstate'[Job(w)] = tstate[Job(w)]
              /\ tresult'[Job(w)] = tresult[Job(w)]
        /\ DOMAIN tstate' = Task /\ DOMAIN tresult' = Task
        /\ tstate' = [t \in Task |-> tstate'[t]] /\ tresult' = [t \in Task |-> tresult'[t]]
    BY <1>a DEF Complete, SafetyInv, TypeOK
  <1>g. \/ pc' = [pc EXCEPT ![w] = "ack"]
        \/ /\ pc' = [pc EXCEPT ![w] = "chain"]
           /\ ~run[w].error /\ ChildOf[Job(w)] # NoTask
    BY DEF Complete
  <1>h. \A t \in Task : Latest(t)' = Latest(t)
    BY DEF Complete, Latest
  <1>1. TypeOK'
    BY <1>a, <1>e, <1>f, <1>g DEF SafetyInv, Complete, TypeOK, TaskState,
       ResultKind, Terminal, WorkerPc, taskVars, workerVars, opVars
  <1>2. LogInv'
    BY DEF SafetyInv, Complete, LogInv, taskVars, workerVars, opVars
  <1>3. EntryInv'
    BY <1>a, <1>g DEF SafetyInv, Complete, TypeOK, EntryInv, HeldBy, Busy,
       taskVars, workerVars, opVars
  <1>4. BaseInv'
    <2>1. \A v \in Worker : Job(v)' = Job(v)
      BY DEF Complete, Job
    <2>2. ChildOf[Job(w)] # NoTask => ChildOf[Job(w)] \in Task
      BY <1>a, SystemAssumption
    <2>3. Finished(run[w])
      BY DEF Complete
    <2>4. QED
      BY <1>b, <1>g, <2>1, <2>2, <2>3 DEF SafetyInv, Complete, TypeOK, BaseInv, opVars
  <1>5. RowInv'
    BY <1>e, <1>f DEF SafetyInv, Complete, TypeOK, RowInv, TaskOf, Event,
       workerVars
  <1>6. OutcomeMatchesLog'
    BY <1>c, <1>e, <1>f, <1>h DEF SafetyInv, TypeOK, OutcomeMatchesLog,
       Terminal
  <1>7. ChildAfterSuccess'
    <2>1. \A t \in Task : tstate[t] = "absent" => tstate'[t] = "absent"
      BY <1>a, <1>f
    <2>2. \A t \in Task : ChildOf[t] # NoTask => ChildOf[t] \in Task
      BY SystemAssumption
    <2>3. QED
      BY <1>h, <2>1, <2>2 DEF SafetyInv, ChildAfterSuccess
  <1>8. QED
    BY <1>1, <1>2, <1>3, <1>4, <1>5, <1>6, <1>7 DEF SafetyInv

\* submit_follow_up preserves the invariant.
LEMMA ChainPreserves ==
  ASSUME SafetyInv, NEW w \in Worker, Chain(w)
  PROVE  SafetyInv'
PROOF
  <1>a. /\ cur[w] \in Slot /\ stream[cur[w]].status = "pending"
        /\ stream[cur[w]].owner = w /\ stream[cur[w]].event \in outbox
        /\ Job(w) \in Task /\ tstate[Job(w)] # "absent"
    BY JobFacts DEF Chain, Busy
  <1>b. ChildOf[Job(w)] \in Task /\ Finished(run[w]) /\ ~run[w].error
        /\ run[w] \in ckpts[Job(w)] \cup {InitialRun}
    BY DEF SafetyInv, BaseInv, Chain
  <1>c. Finished(Latest(Job(w))) /\ ~Latest(Job(w)).error
    BY <1>a, <1>b, FinishedFacts
  <1>1. TypeOK'
    BY <1>b DEF SafetyInv, Chain, TypeOK, TaskState, WorkerPc, Event,
       Submitted, taskVars, workerVars, opVars
  <1>2. LogInv'
    BY DEF SafetyInv, Chain, LogInv, taskVars, workerVars, opVars
  <1>3. EntryInv'
    BY DEF SafetyInv, Chain, TypeOK, EntryInv, EntryRec, FreeEntry, HeldBy,
       Busy, OwnPending, WorkerPc, Release, Fault, taskVars, workerVars,
       opVars
  <1>4. BaseInv'
    BY DEF SafetyInv, Chain, TypeOK, EntryInv, EntryRec, Job, TaskOf, HeldBy,
       Busy, BaseInv, Release, Fault, taskVars, workerVars, opVars
  <1>5. RowInv'
    BY <1>b DEF SafetyInv, Chain, TypeOK, TaskState, Terminal, Event, RowInv,
       TaskOf, Submitted, Recovered, Resumed, Running, Fault, taskVars,
       workerVars, opVars
  <1>6. OutcomeMatchesLog'
    BY DEF SafetyInv, Chain, TypeOK, TaskState, Terminal, OutcomeMatchesLog,
       Latest, taskVars, workerVars, opVars
  <1>7. ChildAfterSuccess'
    <2>1. \A t \in Task : Latest(t)' = Latest(t)
      BY DEF Chain, Latest
    <2>2. \A t \in Task : ChildOf[t] = ChildOf[Job(w)] => t = Job(w)
      BY <1>a, <1>b, SystemAssumption
    <2>3. \A t \in Task : t # ChildOf[Job(w)] => tstate'[t] = tstate[t]
      BY <1>b DEF SafetyInv, TypeOK, Chain
    <2>4. \A t \in Task : ChildOf[t] # NoTask => ChildOf[t] \in Task
      BY SystemAssumption
    <2>5. QED
      BY <1>c, <2>1, <2>2, <2>3, <2>4 DEF SafetyInv, ChildAfterSuccess
  <1>8. QED
    BY <1>1, <1>2, <1>3, <1>4, <1>5, <1>6, <1>7 DEF SafetyInv

\* _abandon preserves the invariant.
LEMMA AbandonPreserves ==
  ASSUME SafetyInv, NEW w \in Worker, Abandon(w)
  PROVE  SafetyInv'
PROOF
  <1>a. /\ cur[w] \in Slot /\ stream[cur[w]].status = "pending"
        /\ stream[cur[w]].owner = w /\ stream[cur[w]].event \in outbox
        /\ Job(w) \in Task /\ tstate[Job(w)] # "absent"
    BY JobFacts DEF Abandon, Busy
  <1>1. TypeOK'
    BY DEF SafetyInv, Abandon, TypeOK, RunState, TaskState, Terminal,
       ResultKind, EntryRec, FreeEntry, WorkerPc, Event, Submitted, Recovered,
       Resumed, Running, Awaiting, Release, Fault, taskVars, workerVars,
       opVars
  <1>2. LogInv'
    BY DEF SafetyInv, Abandon, LogInv, taskVars, workerVars, opVars
  <1>3. EntryInv'
    BY DEF SafetyInv, Abandon, TypeOK, EntryInv, EntryRec, FreeEntry, HeldBy,
       Busy, OwnPending, WorkerPc, Release, Fault, taskVars, workerVars,
       opVars
  <1>4. BaseInv'
    BY DEF SafetyInv, Abandon, TypeOK, EntryInv, EntryRec, Job, TaskOf,
       HeldBy, Busy, BaseInv, Release, Fault, taskVars, workerVars, opVars
  <1>5. RowInv'
    BY DEF SafetyInv, Abandon, TypeOK, TaskState, Terminal, Event, RowInv,
       TaskOf, Submitted, Recovered, Resumed, Running, Fault, taskVars,
       workerVars, opVars
  <1>6. OutcomeMatchesLog'
    BY DEF SafetyInv, Abandon, TypeOK, TaskState, Terminal, OutcomeMatchesLog,
       Latest, taskVars, workerVars, opVars
  <1>7. ChildAfterSuccess'
    BY <1>a DEF SafetyInv, Abandon, TypeOK, TaskState, Terminal,
       ChildAfterSuccess, Latest, taskVars, workerVars, opVars
  <1>8. QED
    BY <1>1, <1>2, <1>3, <1>4, <1>5, <1>6, <1>7 DEF SafetyInv

\* An acknowledgement preserves the invariant.
LEMMA AckPreserves ==
  ASSUME SafetyInv, NEW w \in Worker, Ack(w)
  PROVE  SafetyInv'
PROOF
  <1>a. /\ cur[w] \in Slot /\ stream[cur[w]].status = "pending"
        /\ stream[cur[w]].owner = w /\ stream[cur[w]].event \in outbox
        /\ Job(w) \in Task /\ tstate[Job(w)] # "absent"
    BY JobFacts DEF Ack, Busy
  <1>b. PICK r : /\ r = [stream[cur[w]] EXCEPT !.status = "acked",
                                             !.owner = NoWorker, !.count = 0]
                 /\ stream' = [stream EXCEPT ![cur[w]] = r]
    BY <1>a DEF Ack, SafetyInv, TypeOK
  <1>c. stream[cur[w]] \in EntryRec
    BY <1>a DEF SafetyInv, TypeOK
  <1>d. r \in EntryRec /\ r.status = "acked" /\ r.event = stream[cur[w]].event
    BY <1>b, <1>c DEF EntryRec
  <1>e. stream \in [Slot -> EntryRec]
    BY DEF SafetyInv, TypeOK
  <1>1. TypeOK'
    BY <1>a, <1>b, <1>d, <1>e, InitialRunFacts DEF SafetyInv, Ack, Release,
       TypeOK, TaskState, WorkerPc, taskVars, workerVars, opVars
  <1>2. LogInv'
    BY DEF SafetyInv, Ack, LogInv, taskVars, workerVars, opVars
  <1>3. EntryInv'
    <2>1. \A i \in Slot : IF stream'[i].status = "free"
                          THEN stream'[i].event = NoEvent
                          ELSE stream'[i].event \in outbox
      BY <1>a, <1>b, <1>d, <1>e DEF SafetyInv, EntryInv
    <2>2. SUFFICES ASSUME NEW v \in Worker
                   PROVE  /\ pc'[v] \in Busy <=> cur'[v] # 0
                          /\ cur'[v] \notin batch[v]
                          /\ \A i \in HeldBy(v)' : /\ stream'[i].status = "pending"
                                                    /\ stream'[i].owner = v
      BY <2>1 DEF EntryInv, Ack
    <2>3. \A u \in Worker :
            /\ pc[u] \in Busy <=> cur[u] # 0
            /\ cur[u] \notin batch[u]
            /\ \A i \in HeldBy(u) : /\ stream[i].status = "pending"
                                     /\ stream[i].owner = u
            /\ HeldBy(u) \subseteq Slot
            /\ 0 \notin batch[u]
      BY DEF SafetyInv, EntryInv, TypeOK, HeldBy, Slot
    <2>4. CASE v = w
      <3>1. pc'[w] = "idle" /\ cur'[w] = 0 /\ HeldBy(w)' = batch[w]
        BY DEF Ack, Release, HeldBy, SafetyInv, TypeOK
      <3>2. \A i \in batch[w] : i \in HeldBy(w) /\ i # cur[w] /\ i \in Slot
        BY <2>3 DEF HeldBy
      <3>3. QED
        BY <1>b, <1>e, <2>3, <2>4, <3>1, <3>2 DEF Busy
    <2>5. CASE v # w
      <3>1. pc'[v] = pc[v] /\ cur'[v] = cur[v] /\ HeldBy(v)' = HeldBy(v)
        BY <2>5 DEF Ack, Release, HeldBy, SafetyInv, TypeOK
      <3>2. \A i \in HeldBy(v) : i # cur[w] /\ i \in Slot
        BY <1>a, <2>3, <2>5
      <3>3. QED
        BY <1>b, <1>e, <2>3, <3>1, <3>2
    <2>6. QED
      BY <2>4, <2>5
  <1>4. BaseInv'
    <2>1. \A v \in Worker : v # w /\ pc[v] \in {"mark", "step", "chain"} => Job(v)' = Job(v)
      BY <1>a, <1>b, <1>d, <1>e, JobFacts DEF Ack, Release, Job, TaskOf, Busy, SafetyInv, TypeOK
    <2>2. QED
      BY <2>1 DEF SafetyInv, TypeOK, BaseInv, Ack, Release, opVars
  <1>5. RowInv'
    BY DEF SafetyInv, Ack, TypeOK, TaskState, Terminal, Event, RowInv, TaskOf,
       Submitted, Recovered, Resumed, Running, Fault, taskVars, workerVars,
       opVars
  <1>6. OutcomeMatchesLog'
    BY DEF SafetyInv, Ack, TypeOK, TaskState, Terminal, OutcomeMatchesLog,
       Latest, taskVars, workerVars, opVars
  <1>7. ChildAfterSuccess'
    BY DEF SafetyInv, Ack, TypeOK, TaskState, Terminal, ChildAfterSuccess,
       Latest, taskVars, workerVars, opVars
  <1>8. QED
    BY <1>1, <1>2, <1>3, <1>4, <1>5, <1>6, <1>7 DEF SafetyInv

\* A failed follow-up preserves the invariant.
LEMMA ChainFailsPreserves ==
  ASSUME SafetyInv, NEW w \in Worker, ChainFails(w)
  PROVE  SafetyInv'
PROOF
  <1>1. TypeOK'
    BY SystemAssumption DEF SafetyInv, ChainFails, TypeOK, WorkerPc, Fault,
       taskVars, workerVars, opVars
  <1>2. LogInv'
    BY DEF SafetyInv, ChainFails, LogInv, taskVars, workerVars, opVars
  <1>3. EntryInv'
    BY DEF SafetyInv, ChainFails, TypeOK, EntryInv, EntryRec, FreeEntry,
       HeldBy, Busy, OwnPending, WorkerPc, Release, Fault, taskVars,
       workerVars, opVars
  <1>4. BaseInv'
    BY DEF SafetyInv, ChainFails, TypeOK, EntryInv, EntryRec, Job, TaskOf,
       HeldBy, Busy, BaseInv, Release, Fault, taskVars, workerVars, opVars
  <1>5. RowInv'
    BY DEF SafetyInv, ChainFails, TypeOK, TaskState, Terminal, Event, RowInv,
       TaskOf, Submitted, Recovered, Resumed, Running, Fault, taskVars,
       workerVars, opVars
  <1>6. OutcomeMatchesLog'
    BY DEF SafetyInv, ChainFails, TypeOK, TaskState, Terminal,
       OutcomeMatchesLog, Latest, taskVars, workerVars, opVars
  <1>7. ChildAfterSuccess'
    BY DEF SafetyInv, ChainFails, TypeOK, TaskState, Terminal,
       ChildAfterSuccess, Latest, taskVars, workerVars, opVars
  <1>8. QED
    BY <1>1, <1>2, <1>3, <1>4, <1>5, <1>6, <1>7 DEF SafetyInv

\* An exception out of the handler preserves the invariant.
LEMMA HandlerFailsPreserves ==
  ASSUME SafetyInv, NEW w \in Worker, HandlerFails(w)
  PROVE  SafetyInv'
PROOF
  <1>1. TypeOK'
    BY SystemAssumption, InitialRunFacts DEF SafetyInv, HandlerFails, Release,
       TypeOK, TaskState, WorkerPc, Fault, taskVars, workerVars, opVars
  <1>2. LogInv'
    BY DEF SafetyInv, HandlerFails, LogInv, taskVars, workerVars, opVars
  <1>3. EntryInv'
    BY DEF SafetyInv, HandlerFails, Release, Fault, TypeOK, EntryInv, HeldBy,
       Busy, Slot, taskVars, workerVars, opVars
  <1>4. BaseInv'
    BY DEF SafetyInv, HandlerFails, TypeOK, EntryInv, EntryRec, Job, TaskOf,
       HeldBy, Busy, BaseInv, Release, Fault, taskVars, workerVars, opVars
  <1>5. RowInv'
    BY DEF SafetyInv, HandlerFails, TypeOK, TaskState, Terminal, Event,
       RowInv, TaskOf, Submitted, Recovered, Resumed, Running, Fault,
       taskVars, workerVars, opVars
  <1>6. OutcomeMatchesLog'
    BY DEF SafetyInv, HandlerFails, TypeOK, TaskState, Terminal,
       OutcomeMatchesLog, Latest, taskVars, workerVars, opVars
  <1>7. ChildAfterSuccess'
    BY DEF SafetyInv, HandlerFails, TypeOK, TaskState, Terminal,
       ChildAfterSuccess, Latest, taskVars, workerVars, opVars
  <1>8. QED
    BY <1>1, <1>2, <1>3, <1>4, <1>5, <1>6, <1>7 DEF SafetyInv

\* A worker crash preserves the invariant.
LEMMA CrashPreserves ==
  ASSUME SafetyInv, NEW w \in Worker, Crash(w)
  PROVE  SafetyInv'
PROOF
  <1>a. \A i \in Slot : stream[i] \in EntryRec
    BY DEF SafetyInv, TypeOK
  <1>b. \A i \in Slot : [stream[i] EXCEPT !.owner = NoWorker] \in EntryRec
    BY <1>a DEF EntryRec
  <1>1. TypeOK'
    <2>1. stream' \in [Slot -> EntryRec]
      BY <1>a, <1>b DEF Crash, SafetyInv, TypeOK
    <2>2. faults' \in 0 .. MaxFaults
      BY SystemAssumption DEF Crash, Fault, SafetyInv, TypeOK
    <2>3. QED
      BY <2>1, <2>2, InitialRunFacts DEF SafetyInv, Crash, TypeOK, TaskState, WorkerPc, taskVars, opVars
  <1>2. LogInv'
    BY DEF SafetyInv, Crash, LogInv, taskVars, workerVars, opVars
  <1>3. EntryInv'
    BY DEF SafetyInv, Crash, TypeOK, EntryInv, EntryRec, FreeEntry, HeldBy,
       Busy, OwnPending, WorkerPc, Release, Fault, taskVars, workerVars,
       opVars
  <1>4. BaseInv'
    BY DEF SafetyInv, Crash, TypeOK, EntryInv, EntryRec, Job, TaskOf, HeldBy,
       Busy, BaseInv, Release, Fault, taskVars, workerVars, opVars
  <1>5. RowInv'
    BY DEF SafetyInv, Crash, TypeOK, TaskState, Terminal, Event, RowInv,
       TaskOf, Submitted, Recovered, Resumed, Running, Fault, taskVars,
       workerVars, opVars
  <1>6. OutcomeMatchesLog'
    BY DEF SafetyInv, Crash, TypeOK, TaskState, Terminal, OutcomeMatchesLog,
       Latest, taskVars, workerVars, opVars
  <1>7. ChildAfterSuccess'
    BY DEF SafetyInv, Crash, TypeOK, TaskState, Terminal, ChildAfterSuccess,
       Latest, taskVars, workerVars, opVars
  <1>8. QED
    BY <1>1, <1>2, <1>3, <1>4, <1>5, <1>6, <1>7 DEF SafetyInv

\* The row read of an approval preserves the invariant.
LEMMA OpReadPreserves ==
  ASSUME SafetyInv, NEW o \in Operator, NEW t \in Task, OpRead(o, t)
  PROVE  SafetyInv'
PROOF
  <1>1. TypeOK'
    BY DEF SafetyInv, OpRead, TypeOK, RunState, TaskState, Terminal,
       ResultKind, EntryRec, FreeEntry, WorkerPc, Event, Submitted, Recovered,
       Resumed, Running, Awaiting, Release, Fault, taskVars, workerVars,
       opVars
  <1>2. LogInv'
    BY DEF SafetyInv, OpRead, LogInv, taskVars, workerVars, opVars
  <1>3. EntryInv'
    BY DEF SafetyInv, OpRead, TypeOK, EntryInv, EntryRec, FreeEntry, HeldBy,
       Busy, OwnPending, WorkerPc, Release, Fault, taskVars, workerVars,
       opVars
  <1>4. BaseInv'
    BY DEF SafetyInv, OpRead, TypeOK, EntryInv, EntryRec, Job, TaskOf, HeldBy,
       Busy, BaseInv, Release, Fault, taskVars, workerVars, opVars
  <1>5. RowInv'
    BY DEF SafetyInv, OpRead, TypeOK, TaskState, Terminal, Event, RowInv,
       TaskOf, Submitted, Recovered, Resumed, Running, Fault, taskVars,
       workerVars, opVars
  <1>6. OutcomeMatchesLog'
    BY DEF SafetyInv, OpRead, TypeOK, TaskState, Terminal, OutcomeMatchesLog,
       Latest, taskVars, workerVars, opVars
  <1>7. ChildAfterSuccess'
    BY DEF SafetyInv, OpRead, TypeOK, TaskState, Terminal, ChildAfterSuccess,
       Latest, taskVars, workerVars, opVars
  <1>8. QED
    BY <1>1, <1>2, <1>3, <1>4, <1>5, <1>6, <1>7 DEF SafetyInv

\* The checkpoint read of an approval preserves the invariant.
LEMMA OpLatestPreserves ==
  ASSUME SafetyInv, NEW o \in Operator, OpLatest(o)
  PROVE  SafetyInv'
PROOF
  <1>a. opTask[o] \in Task
    BY DEF SafetyInv, BaseInv, OpLatest
  <1>b. Latest(opTask[o]) \in RunState /\ Latest(opTask[o]) \in ckpts[opTask[o]] \cup {InitialRun}
    BY <1>a, LogFacts
  <1>1. TypeOK'
    BY <1>b DEF SafetyInv, OpLatest, TypeOK, taskVars, workerVars, opVars
  <1>2. LogInv'
    BY DEF SafetyInv, OpLatest, LogInv, taskVars, workerVars, opVars
  <1>3. EntryInv'
    BY DEF SafetyInv, OpLatest, TypeOK, EntryInv, EntryRec, FreeEntry, HeldBy,
       Busy, OwnPending, WorkerPc, Release, Fault, taskVars, workerVars,
       opVars
  <1>4. BaseInv'
    <2>1. \A v \in Worker : Job(v)' = Job(v)
      BY DEF OpLatest, Job, workerVars
    <2>2. QED
      BY <1>a, <1>b, <2>1 DEF SafetyInv, OpLatest, TypeOK, BaseInv, workerVars
  <1>5. RowInv'
    BY DEF SafetyInv, OpLatest, TypeOK, TaskState, Terminal, Event, RowInv,
       TaskOf, Submitted, Recovered, Resumed, Running, Fault, taskVars,
       workerVars, opVars
  <1>6. OutcomeMatchesLog'
    BY DEF SafetyInv, OpLatest, TypeOK, TaskState, Terminal,
       OutcomeMatchesLog, Latest, taskVars, workerVars, opVars
  <1>7. ChildAfterSuccess'
    BY DEF SafetyInv, OpLatest, TypeOK, TaskState, Terminal,
       ChildAfterSuccess, Latest, taskVars, workerVars, opVars
  <1>8. QED
    BY <1>1, <1>2, <1>3, <1>4, <1>5, <1>6, <1>7 DEF SafetyInv

\* The transaction of an approval preserves the invariant.
LEMMA OpCommitPreserves ==
  ASSUME SafetyInv, NEW o \in Operator, OpCommit(o)
  PROVE  SafetyInv'
PROOF
  <1> DEFINE t == opTask[o]
             n == opBase[o].seq + 1
  <1>a. t \in Task /\ opBase[o] \in RunState
        /\ opBase[o] \in ckpts[t] \cup {InitialRun}
    BY DEF SafetyInv, TypeOK, BaseInv, OpCommit
  <1>b. \/ /\ tstate[t] = "AWAITING_APPROVAL" /\ SeqFree(t, n)
           /\ \E s \in DecisionResults(opBase[o]) :
                ckpts' = [ckpts EXCEPT ![t] = @ \cup {s}]
           /\ tstate' = [tstate EXCEPT ![t] = "RUNNING"]
           /\ outbox' = outbox \cup {Resumed(t, n)}
        \/ UNCHANGED <<ckpts, tstate, outbox>>
    BY DEF OpCommit
  <1>c. ASSUME NEW s \in DecisionResults(opBase[o]), SeqFree(t, n),
               ckpts' = [ckpts EXCEPT ![t] = @ \cup {s}]
        PROVE  /\ s \in RunState /\ n \in Nat
               /\ ckpts'[t] = ckpts[t] \cup {s}
               /\ ValidLog(ckpts'[t])
               /\ \A x \in Task : x # t => ckpts'[x] = ckpts[x]
               /\ Latest(t) = opBase[o] /\ LatestOf(ckpts'[t]) = s
               /\ s.node = opBase[o].node /\ s.error = opBase[o].error
    <2>1. s \in RunState /\ s.seq = n /\ s.node = opBase[o].node /\ s.error = opBase[o].error
      BY <1>a, DecisionFacts
    <2>2. n \in Nat
      BY <1>a DEF RunState
    <2>3. /\ ckpts'[t] = ckpts[t] \cup {s}
          /\ \A x \in Task : x # t => ckpts'[x] = ckpts[x]
      BY <1>a, <1>c DEF SafetyInv, TypeOK
    <2>4. Follows(opBase[o], s) /\ \A d \in ckpts[t] : d.seq # s.seq
      BY <1>c, <2>1 DEF Follows, SeqFree
    <2>5. ValidLog(ckpts[t])
      BY <1>a, LogFacts
    <2>6. QED
      BY <1>a, <2>1, <2>2, <2>3, <2>4, <2>5, AppendFacts DEF Latest
  <1>1. TypeOK'
    <2>1. ckpts' \in [Task -> SUBSET RunState]
      BY <1>b, <1>c DEF SafetyInv, TypeOK
    <2>2. outbox' \subseteq Event
      BY <1>a, <1>b, <1>c DEF SafetyInv, TypeOK, Event, Resumed
    <2>3. tstate' \in [Task -> TaskState]
      BY <1>b DEF SafetyInv, TypeOK, TaskState
    <2>4. QED
      BY <2>1, <2>2, <2>3, InitialRunFacts DEF SafetyInv, OpCommit, TypeOK, workerVars
  <1>2. LogInv'
    BY <1>b, <1>c DEF SafetyInv, LogInv
  <1>3. EntryInv'
    BY <1>b DEF SafetyInv, OpCommit, EntryInv, HeldBy, workerVars
  <1>4. BaseInv'
    <2>1. \A x \in Task : ckpts[x] \subseteq ckpts'[x]
      BY <1>b, <1>c
    <2>2. \A v \in Worker : Job(v)' = Job(v)
      BY DEF OpCommit, Job, workerVars
    <2>3. \A v \in Worker : pc[v] \in {"mark", "step", "chain"} => Job(v) \in Task
      BY JobFacts DEF Busy
    <2>4. QED
      BY <2>1, <2>2, <2>3 DEF SafetyInv, TypeOK, BaseInv, OpCommit, workerVars
  <1>5. RowInv'
    <2>1. \A x \in Task : tstate[x] # "absent" => tstate'[x] # "absent"
      BY <1>a, <1>b DEF SafetyInv, TypeOK
    <2>2. \A e \in outbox' : e \in outbox \/ TaskOf(e) = t
      BY <1>b DEF TaskOf, Resumed
    <2>3. tstate'[t] # "absent" \/ UNCHANGED outbox
      BY <1>a, <1>b DEF SafetyInv, TypeOK
    <2>4. \A e \in outbox : TaskOf(e) \in Task
      BY DEF SafetyInv, TypeOK, Event, TaskOf
    <2>5. UNCHANGED todo /\ todo \in [Worker -> SUBSET Task]
      BY DEF OpCommit, workerVars, SafetyInv, TypeOK
    <2>6. QED
      BY <2>1, <2>2, <2>3, <2>4, <2>5 DEF SafetyInv, RowInv
  <1>6. OutcomeMatchesLog'
    <2>1. \A x \in Task : Finished(Latest(x)) =>
            Finished(Latest(x)') /\ Latest(x)'.error = Latest(x).error
      BY <1>b, <1>c DEF Latest, Finished
    <2>2. QED
      BY <1>a, <1>b, <2>1 DEF SafetyInv, TypeOK, OpCommit, OutcomeMatchesLog
  <1>7. ChildAfterSuccess'
    <2>1. \A x \in Task : Finished(Latest(x)) =>
            Finished(Latest(x)') /\ Latest(x)'.error = Latest(x).error
      BY <1>b, <1>c DEF Latest, Finished
    <2>2. \A x \in Task : ChildOf[x] # NoTask => ChildOf[x] \in Task
      BY SystemAssumption
    <2>3. QED
      BY <1>a, <1>b, <2>1, <2>2 DEF SafetyInv, TypeOK, ChildAfterSuccess
  <1>8. QED
    BY <1>1, <1>2, <1>3, <1>4, <1>5, <1>6, <1>7 DEF SafetyInv

\* The sweeper's listing preserves the invariant.
LEMMA SweepListPreserves ==
  ASSUME SafetyInv, NEW v \in Sweeper, SweepList(v)
  PROVE  SafetyInv'
PROOF
  <1>a. \A t \in Task : Latest(t).seq \in Nat
    BY LogFacts
  <1>1. TypeOK'
    BY <1>a DEF SafetyInv, SweepList, TypeOK, Awaiting, taskVars, workerVars,
       opVars
  <1>2. LogInv'
    BY DEF SafetyInv, SweepList, LogInv, taskVars, workerVars, opVars
  <1>3. EntryInv'
    BY DEF SafetyInv, SweepList, TypeOK, EntryInv, EntryRec, FreeEntry,
       HeldBy, Busy, OwnPending, WorkerPc, Release, Fault, taskVars,
       workerVars, opVars
  <1>4. BaseInv'
    BY DEF SafetyInv, SweepList, TypeOK, EntryInv, EntryRec, Job, TaskOf,
       HeldBy, Busy, BaseInv, Release, Fault, taskVars, workerVars, opVars
  <1>5. RowInv'
    BY DEF SafetyInv, SweepList, TypeOK, TaskState, Terminal, Event, RowInv,
       TaskOf, Submitted, Recovered, Resumed, Running, Fault, taskVars,
       workerVars, opVars
  <1>6. OutcomeMatchesLog'
    BY DEF SafetyInv, SweepList, TypeOK, TaskState, Terminal,
       OutcomeMatchesLog, Latest, taskVars, workerVars, opVars
  <1>7. ChildAfterSuccess'
    BY DEF SafetyInv, SweepList, TypeOK, TaskState, Terminal,
       ChildAfterSuccess, Latest, taskVars, workerVars, opVars
  <1>8. QED
    BY <1>1, <1>2, <1>3, <1>4, <1>5, <1>6, <1>7 DEF SafetyInv

\* The sweeper's expiry of one row preserves the invariant.
LEMMA SweepOnePreserves ==
  ASSUME SafetyInv, NEW v \in Sweeper, SweepOne(v)
  PROVE  SafetyInv'
PROOF
  <1>1. TypeOK'
    BY DEF SafetyInv, SweepOne, TypeOK, RunState, TaskState, Terminal,
       ResultKind, EntryRec, FreeEntry, WorkerPc, Event, Submitted, Recovered,
       Resumed, Running, Awaiting, Release, Fault, taskVars, workerVars,
       opVars
  <1>2. LogInv'
    BY DEF SafetyInv, SweepOne, LogInv, taskVars, workerVars, opVars
  <1>3. EntryInv'
    BY DEF SafetyInv, SweepOne, TypeOK, EntryInv, EntryRec, FreeEntry, HeldBy,
       Busy, OwnPending, WorkerPc, Release, Fault, taskVars, workerVars,
       opVars
  <1>4. BaseInv'
    BY DEF SafetyInv, SweepOne, TypeOK, EntryInv, EntryRec, Job, TaskOf,
       HeldBy, Busy, BaseInv, Release, Fault, taskVars, workerVars, opVars
  <1>5. RowInv'
    BY DEF SafetyInv, SweepOne, TypeOK, TaskState, Terminal, Event, RowInv,
       TaskOf, Submitted, Recovered, Resumed, Running, Fault, taskVars,
       workerVars, opVars
  <1>6. OutcomeMatchesLog'
    BY DEF SafetyInv, SweepOne, TypeOK, TaskState, Terminal,
       OutcomeMatchesLog, Latest, taskVars, workerVars, opVars
  <1>7. ChildAfterSuccess'
    BY DEF SafetyInv, SweepOne, TypeOK, TaskState, Terminal,
       ChildAfterSuccess, Latest, taskVars, workerVars, opVars
  <1>8. QED
    BY <1>1, <1>2, <1>3, <1>4, <1>5, <1>6, <1>7 DEF SafetyInv

-----------------------------------------------------------------------------
(* The safety invariant *)

\* The initial state satisfies the safety invariant.
LEMMA SafetyInvInit == Init => SafetyInv
PROOF
  <1>1. SUFFICES ASSUME Init PROVE SafetyInv
    OBVIOUS
  <1>2. TypeOK
    <2>1. FreeEntry \in EntryRec
      BY DEF FreeEntry, EntryRec
    <2>2. faults \in 0 .. MaxFaults
      BY <1>1, SystemAssumption DEF Init
    <2>3. QED
      BY <1>1, <2>1, <2>2, InitialRunFacts
         DEF Init, TypeOK, TaskState, ResultKind, WorkerPc
  <1>3. LogInv
    BY <1>1 DEF Init, LogInv, ValidLog, Contiguous, Linear, FinalOnceFinished
  <1>4. EntryInv
    BY <1>1 DEF Init, EntryInv, FreeEntry, HeldBy, Busy
  <1>5. BaseInv
    BY <1>1 DEF Init, BaseInv
  <1>6. RowInv
    BY <1>1 DEF Init, RowInv
  <1>7. OutcomeMatchesLog
    BY <1>1 DEF Init, OutcomeMatchesLog
  <1>8. ChildAfterSuccess
    BY <1>1, SystemAssumption DEF Init, ChildAfterSuccess
  <1>9. QED
    BY <1>2, <1>3, <1>4, <1>5, <1>6, <1>7, <1>8 DEF SafetyInv

\* Every step preserves the safety invariant.
LEMMA SafetyInvStep == SafetyInv /\ [Next]_vars => SafetyInv'
PROOF
  <1>1. SUFFICES ASSUME SafetyInv, [Next]_vars PROVE SafetyInv'
    OBVIOUS
  <1>2. CASE UNCHANGED vars
    BY <1>1, <1>2
       DEF vars, SafetyInv, TypeOK, LogInv, EntryInv, HeldBy, BaseInv, Job,
           RowInv, OutcomeMatchesLog, ChildAfterSuccess, Latest
  <1>3. CASE \E t \in Task : Submit(t) \/ Abort(t)
    BY <1>1, <1>3, SubmitPreserves, AbortPreserves
  <1>4. CASE \E e \in outbox : Publish(e)
    BY <1>1, <1>4, PublishPreserves
  <1>5. CASE \E w \in Worker : \/ Start(w) \/ Work(w)
                               \/ ChainFails(w) \/ HandlerFails(w) \/ Crash(w)
    BY <1>1, <1>5, StartPreserves, RecoverOnePreserves, ClaimPreserves,
       DispatchPreserves, LoadStatePreserves, MarkRunningPreserves,
       PersistStepPreserves, PausePreserves, CompletePreserves,
       ChainPreserves, AbandonPreserves, AckPreserves, ChainFailsPreserves,
       HandlerFailsPreserves, CrashPreserves DEF Work
  <1>6. CASE \E o \in Operator : \/ \E t \in Task : OpRead(o, t)
                                 \/ OpLatest(o) \/ OpCommit(o)
    BY <1>1, <1>6, OpReadPreserves, OpLatestPreserves, OpCommitPreserves
  <1>7. CASE \E v \in Sweeper : SweepList(v) \/ SweepOne(v)
    BY <1>1, <1>7, SweepListPreserves, SweepOnePreserves
  <1>8. QED
    BY <1>1, <1>2, <1>3, <1>4, <1>5, <1>6, <1>7 DEF Next

\* The strengthened invariant holds in every reachable state, for any number
\* of workers, operators, sweepers, redeliveries and crashes.
THEOREM Safety == Spec => []SafetyInv
PROOF
  <1>1. Init => SafetyInv
    BY SafetyInvInit
  <1>2. SafetyInv /\ [Next]_vars => SafetyInv'
    BY SafetyInvStep
  <1>3. QED
    BY <1>1, <1>2, PTL DEF Spec

\* Every variable keeps its type: in particular the task row only ever holds
\* states and result kinds of the schema, whichever handler wrote them.
THEOREM TypeCorrect == Spec => []TypeOK
PROOF
  <1>1. SafetyInv => TypeOK
    BY DEF SafetyInv
  <1>2. QED
    BY <1>1, Safety, PTL

\* Racing workers and operators never fork the checkpoint log of a task:
\* LinearHistory holds for any number of them.
THEOREM CheckpointLogIsLinear == Spec => []LinearHistory
PROOF
  <1>1. SafetyInv => LinearHistory
    BY DEF SafetyInv, LogInv, ValidLog, Linear, LinearHistory
  <1>2. QED
    BY <1>1, Safety, PTL

\* A stored outcome always agrees with the checkpoint log, although the row
\* is written without a guard by update_state and by several workers.
THEOREM StoredOutcomeIsTheLogs == Spec => []OutcomeMatchesLog
PROOF
  <1>1. SafetyInv => OutcomeMatchesLog
    BY DEF SafetyInv
  <1>2. QED
    BY <1>1, Safety, PTL

\* A follow-up task exists only when its parent's log ended in success.
THEOREM FollowUpNeedsSuccess == Spec => []ChildAfterSuccess
PROOF
  <1>1. SafetyInv => ChildAfterSuccess
    BY DEF SafetyInv
  <1>2. QED
    BY <1>1, Safety, PTL

-----------------------------------------------------------------------------
(* The log implements SequentialRun *)

\* The instance of SequentialRun uses the same graph runtime.
LEMMA SameRuntime ==
  ASSUME NEW s
  PROVE  /\ Log!AtRest(s) = AtRest(s)
         /\ Log!StepResults(s) = StepResults(s)
         /\ Log!DecisionResults(s) = DecisionResults(s)
         /\ Log!InitialRun = InitialRun
PROOF
  <1>1. Log!InitialRun = InitialRun
    BY DEF Log!InitialRun, InitialRun
  <1>2. Log!AtRest(s) = AtRest(s)
    BY DEF Log!AtRest, AtRest, Log!Finished, Finished
  <1>3. Log!DecisionResults(s) = DecisionResults(s)
    BY DEF Log!DecisionResults, DecisionResults, Log!Decided, Decided,
           Log!Decision, Decision
  <1>4. Log!StepResults(s) = StepResults(s)
    BY <1>2
       DEF Log!StepResults, StepResults, Log!NodeSteps, NodeSteps,
           Log!HumanGateStep, HumanGateStep, Log!BudgetedSteps, BudgetedSteps,
           Log!WorkSteps, WorkSteps, Log!OverBudgetSteps, OverBudgetSteps,
           Log!FailedRun, FailedRun, Log!Paused, Paused, Log!Consumed,
           Consumed, Log!Advance, Advance
  <1>5. QED
    BY <1>1, <1>2, <1>3, <1>4

\* A snapshot appended to the log of one task changes only that task's latest
\* snapshot, from the one it was computed from to the new one.
LEMMA AppendMovesLatest ==
  ASSUME SafetyInv, NEW t \in Task, NEW p \in ckpts[t] \cup {InitialRun},
         NEW s, Follows(p, s), SeqFree(t, s.seq),
         ckpts' = [ckpts EXCEPT ![t] = @ \cup {s}]
  PROVE  /\ Latest(t) = p
         /\ [u \in Task |-> Latest(u)'] =
              [[u \in Task |-> Latest(u)] EXCEPT ![t] = s]
PROOF
  <1>1. /\ ckpts'[t] = ckpts[t] \cup {s}
        /\ \A u \in Task : u # t => ckpts'[u] = ckpts[u]
    BY DEF SafetyInv, TypeOK
  <1>2. ValidLog(ckpts[t]) /\ \A d \in ckpts[t] : d.seq # s.seq
    BY LogFacts DEF SeqFree
  <1>3. LatestOf(ckpts[t]) = p /\ LatestOf(ckpts'[t]) = s
    BY <1>1, <1>2, AppendFacts
  <1>4. Latest(t)' = s /\ \A u \in Task : u # t => Latest(u)' = Latest(u)
    BY <1>1, <1>3 DEF Latest
  <1>5. QED
    BY <1>3, <1>4 DEF Latest

\* A worker's checkpoint is a step of the abstract run, or changes no log.
LEMMA PersistStepRefines ==
  ASSUME SafetyInv, NEW w \in Worker, PersistStep(w)
  PROVE  Log!Next \/ UNCHANGED ckpts
PROOF
  <1> DEFINE t == Job(w)
  <1>1. t \in Task
    BY JobFacts DEF PersistStep, Busy
  <1>2. run[w] \in ckpts[t] \cup {InitialRun} /\ ~AtRest(run[w])
    BY DEF PersistStep, SafetyInv, BaseInv
  <1>3. SUFFICES ASSUME NEW s \in StepResults(run[w]), SeqFree(t, s.seq),
                        ckpts' = [ckpts EXCEPT ![t] = @ \cup {s}]
                 PROVE  Log!Next
    BY DEF PersistStep
  <1>4. Follows(run[w], s)
    BY <1>2 DEF Follows
  <1>5. /\ Latest(t) = run[w]
        /\ [u \in Task |-> Latest(u)'] =
             [[u \in Task |-> Latest(u)] EXCEPT ![t] = s]
    BY <1>1, <1>2, <1>3, <1>4, AppendMovesLatest
  <1>6. ~Log!AtRest(Latest(t)) /\ s \in Log!StepResults(Latest(t))
    BY <1>2, <1>5, SameRuntime
  <1>7. Log!Step(t)
    BY <1>1, <1>5, <1>6 DEF Log!Step
  <1>8. QED
    BY <1>1, <1>7 DEF Log!Next

\* A committed decision is a decision of the abstract run on the latest
\* snapshot, however old the operator's read was.
LEMMA OpCommitRefines ==
  ASSUME SafetyInv, NEW o \in Operator, OpCommit(o)
  PROVE  Log!Next \/ UNCHANGED ckpts
PROOF
  <1> DEFINE t == opTask[o]
  <1>1. t \in Task /\ opBase[o] \in RunState
        /\ opBase[o] \in ckpts[t] \cup {InitialRun}
    BY DEF SafetyInv, TypeOK, BaseInv, OpCommit
  <1>2. SUFFICES ASSUME NEW s \in DecisionResults(opBase[o]),
                        SeqFree(t, opBase[o].seq + 1),
                        ckpts' = [ckpts EXCEPT ![t] = @ \cup {s}]
                 PROVE  Log!Next
    BY DEF OpCommit
  <1>3. Follows(opBase[o], s) /\ SeqFree(t, s.seq)
    BY <1>1, <1>2, DecisionFacts DEF Follows
  <1>4. /\ Latest(t) = opBase[o]
        /\ [u \in Task |-> Latest(u)'] =
             [[u \in Task |-> Latest(u)] EXCEPT ![t] = s]
    BY <1>1, <1>2, <1>3, AppendMovesLatest
  <1>5. s \in Log!DecisionResults(Latest(t))
    BY <1>4, SameRuntime
  <1>6. Log!Decide(t)
    BY <1>1, <1>4, <1>5 DEF Log!Decide
  <1>7. QED
    BY <1>1, <1>6 DEF Log!Next

\* Every step of the system is a step or a stutter of the abstract run.
LEMMA StepRefines ==
  ASSUME SafetyInv, [Next]_vars
  PROVE  [Log!Next]_([t \in Task |-> Latest(t)])
PROOF
  <1>1. UNCHANGED ckpts => UNCHANGED [t \in Task |-> Latest(t)]
    BY DEF Latest
  <1>2. CASE UNCHANGED vars
    BY <1>1, <1>2 DEF vars
  <1>3. CASE \E w \in Worker : PersistStep(w)
    BY <1>1, <1>3, PersistStepRefines
  <1>4. CASE \E o \in Operator : OpCommit(o)
    BY <1>1, <1>4, OpCommitRefines
  <1>5. CASE Next /\ ~(\E w \in Worker : PersistStep(w))
                  /\ ~(\E o \in Operator : OpCommit(o))
    <2>1. UNCHANGED ckpts
      BY <1>5 DEF Next, Work, Submit, Abort, Publish, Start, RecoverOne, Claim,
         Dispatch, LoadState, MarkRunning, Pause, Complete, Chain, Abandon,
         Ack, ChainFails, HandlerFails, Crash, OpRead, OpLatest, SweepList,
         SweepOne
    <2>2. QED
      BY <1>1, <2>1
  <1>6. QED
    BY <1>2, <1>3, <1>4, <1>5

\* The checkpoint log implements SequentialRun: with the latest checkpoint as
\* the run, every behaviour of the system is one of a single owner per task.
THEOREM LogRefinesSequentialRun == Spec => LogIsSequential
PROOF
  <1>1. Init => Log!Init
    BY SameRuntime DEF Init, Log!Init, Latest, LatestOf
  <1>2. SafetyInv /\ [Next]_vars => [Log!Next]_([t \in Task |-> Latest(t)])
    BY StepRefines
  <1>3. QED
    BY <1>1, <1>2, Safety, PTL DEF Spec, LogIsSequential, Log!Spec

-----------------------------------------------------------------------------
(* No task is lost: with consumer names that survive a restart, a task that *)
(* is PENDING or RUNNING always has a command on its way to a worker.       *)

\* MarkInv survives a step that moves no worker past update_state and turns
\* no existing row into a PENDING one.
LEMMA MarkKept ==
  ASSUME SafetyInv, MarkInv,
         \A t \in Task : tstate[t] # "absent" /\ tstate'[t] = "PENDING"
                           => tstate[t] = "PENDING",
         \A w \in Worker : PastMark(w)' => PastMark(w) /\ Job(w)' = Job(w)
  PROVE  MarkInv'
PROOF
  <1>1. SUFFICES ASSUME NEW w \in Worker, PastMark(w)'
                 PROVE  tstate'[Job(w)'] # "PENDING"
    BY DEF MarkInv
  <1>2. PastMark(w) /\ Job(w)' = Job(w)
    BY <1>1
  <1>3. Job(w) \in Task /\ tstate[Job(w)] # "absent"
    BY <1>2, JobFacts DEF PastMark, Busy
  <1>4. QED
    BY <1>2, <1>3 DEF MarkInv

\* A task stays carried by a step that leaves the stream alone and in which
\* no worker gives up on one of the task's entries.
LEMMA CarriedKept ==
  ASSUME outbox \subseteq outbox', stream' = stream, NEW t, Carried(t),
         \A w \in Worker :
           pc'[w] \in {"chain", "ack"} /\ TaskOf(stream[cur'[w]].event) = t
             => pc[w] \in {"chain", "ack"} /\ cur'[w] = cur[w]
  PROVE  Carried(t)'
PROOF
  <1>1. CASE \E e \in outbox : TaskOf(e) = t /\ Copies(e) = {}
    <2>1. PICK e \in outbox : TaskOf(e) = t /\ Copies(e) = {}
      BY <1>1
    <2>2. e \in outbox' /\ Copies(e)' = {}
      BY <2>1 DEF Copies
    <2>3. QED
      BY <2>1, <2>2 DEF Carried
  <1>2. CASE \E i \in Slot : Carries(i, t)
    <2>1. PICK i \in Slot : Carries(i, t)
      BY <1>2
    <2>2. Carries(i, t)'
      BY <2>1 DEF Carries
    <2>3. QED
      BY <2>2 DEF Carried
  <1>3. QED
    BY <1>1, <1>2 DEF Carried

\* Most steps are quiet: the stream, and every row that needs a command, stay
\* as they are, and no worker gives up on an entry or passes update_state.
LEMMA QuietDelivers ==
  ASSUME SafetyInv, DeliveryInv, outbox \subseteq outbox', stream' = stream,
         \A t \in Task : tstate'[t] \in {"PENDING", "RUNNING"}
                           => tstate'[t] = tstate[t],
         \A w \in Worker : /\ pc'[w] \in {"chain", "ack"}
                                => pc[w] \in {"chain", "ack"} /\ cur'[w] = cur[w]
                           /\ PastMark(w)' => PastMark(w) /\ cur'[w] = cur[w]
  PROVE  DeliveryInv'
PROOF
  <1>1. \A w \in Worker : PastMark(w)' => PastMark(w) /\ Job(w)' = Job(w)
    BY DEF Job
  <1>2. MarkInv'
    BY <1>1, MarkKept DEF DeliveryInv
  <1>3. \A t \in Task : Carried(t) => Carried(t)'
    BY CarriedKept
  <1>4. NoLostTask'
    BY <1>3 DEF DeliveryInv, NoLostTask
  <1>5. QED
    BY <1>2, <1>4 DEF DeliveryInv

\* A command that is new to the outbox is on its way: the stream holds
\* nothing but outbox events, so it has no copy yet.
LEMMA NewCommandCarries ==
  ASSUME SafetyInv, NEW e \in Event, e \notin outbox, e \in outbox',
         stream' = stream
  PROVE  Carried(TaskOf(e))'
PROOF
  <1>1. \A i \in Slot : stream[i].event # e
    BY SystemAssumption DEF SafetyInv, EntryInv
  <1>2. Copies(e)' = {}
    BY <1>1 DEF Copies
  <1>3. QED
    BY <1>2 DEF Carried

\* Submitting a task keeps every task carried.
LEMMA SubmitDelivers ==
  ASSUME SafetyInv, DeliveryInv, NEW t \in Task, Submit(t)
  PROVE  DeliveryInv'
PROOF
  <1>1. Submitted(t) \in Event /\ TaskOf(Submitted(t)) = t
    BY DEF Submitted, Event, TaskOf
  <1>2. Submitted(t) \notin outbox
    BY <1>1 DEF SafetyInv, RowInv, Submit
  <1>3. Carried(t)'
    BY <1>1, <1>2, NewCommandCarries DEF Submit
  <1>4. \A u \in Task : Carried(u) => Carried(u)'
    BY CarriedKept DEF Submit, workerVars
  <1>5. \A u \in Task : u # t => tstate'[u] = tstate[u]
    BY DEF Submit, SafetyInv, TypeOK
  <1>6. NoLostTask'
    BY <1>3, <1>4, <1>5 DEF DeliveryInv, NoLostTask
  <1>7. tstate[t] = "absent"
    BY DEF Submit
  <1>8. \A w \in Worker : (PastMark(w)' <=> PastMark(w)) /\ Job(w)' = Job(w)
    BY DEF Submit, workerVars, PastMark, Job
  <1>9. MarkInv'
    BY <1>5, <1>7, <1>8, MarkKept DEF DeliveryInv
  <1>10. QED
    BY <1>6, <1>9 DEF DeliveryInv

\* A published command is carried by the entry it was written to.
LEMMA PublishDelivers ==
  ASSUME SafetyInv, DeliveryInv, NEW e \in outbox, Publish(e)
  PROVE  DeliveryInv'
PROOF
  <1>1. PICK k \in Slot :
          /\ stream[k].status = "free"
          /\ stream' = [stream EXCEPT ![k] =
                          [FreeEntry EXCEPT !.status = "queued", !.event = e]]
    BY DEF Publish
  <1>2. stream'[k].status = "queued" /\ stream'[k].event = e
    BY <1>1 DEF FreeEntry, SafetyInv, TypeOK
  <1>3. \A i \in Slot : i # k => stream'[i] = stream[i]
    BY <1>1 DEF SafetyInv, TypeOK
  <1>4. UNCHANGED <<tstate, outbox, pc, cur, seen>>
    BY DEF Publish, taskVars, workerVars
  <1>5. \A w \in Worker : pc[w] \in Busy => cur[w] # k /\ cur[w] \in Slot
    BY <1>1, JobFacts
  <1>6. Carries(k, TaskOf(e))'
    BY <1>2, <1>4, <1>5 DEF Carries, Busy
  <1>7. \A i \in Slot, t \in Task : Carries(i, t) => Carries(i, t)'
    <2>1. SUFFICES ASSUME NEW i \in Slot, NEW t \in Task, Carries(i, t)
                   PROVE  Carries(i, t)'
      OBVIOUS
    <2>2. i # k
      BY <1>1, <2>1 DEF Carries
    <2>3. QED
      BY <1>3, <1>4, <2>1, <2>2 DEF Carries
  <1>8. \A t \in Task : Carried(t) => Carried(t)'
    <2>1. SUFFICES ASSUME NEW t \in Task, NEW f \in outbox, TaskOf(f) = t,
                          Copies(f) = {}
                   PROVE  Carried(t)'
      BY <1>7 DEF Carried
    <2>2. CASE f = e
      BY <1>6, <2>1, <2>2 DEF Carried
    <2>3. CASE f # e
      <3>1. Copies(f)' = {}
        BY <1>2, <1>3, <2>1, <2>3 DEF Copies
      <3>2. QED
        BY <1>4, <2>1, <3>1 DEF Carried
    <2>4. QED
      BY <2>2, <2>3
  <1>9. NoLostTask'
    BY <1>4, <1>8 DEF DeliveryInv, NoLostTask
  <1>10. \A w \in Worker : PastMark(w)' => PastMark(w) /\ Job(w)' = Job(w)
    BY <1>3, <1>4, <1>5 DEF PastMark, Job, Busy
  <1>11. MarkInv'
    BY <1>4, <1>10, MarkKept DEF DeliveryInv
  <1>12. QED
    BY <1>9, <1>11 DEF DeliveryInv

\* A worker may give up on its entry once the row needs no command any more:
\* the entries of the other tasks are untouched.
LEMMA DecidedDelivers ==
  ASSUME SafetyInv, DeliveryInv, NEW w \in Worker, pc[w] \in Busy,
         stream' = stream, outbox' = outbox, cur' = cur, seen' = seen,
         \A v \in Worker : v # w => pc'[v] = pc[v],
         pc'[w] \in {"chain", "ack"},
         \A t \in Task : t # Job(w) => tstate'[t] = tstate[t],
         tstate'[Job(w)] \notin {"PENDING", "RUNNING"}
  PROVE  DeliveryInv'
PROOF
  <1>1. Job(w) \in Task
    BY JobFacts
  <1>2. \A t \in Task : t # Job(w) /\ Carried(t) => Carried(t)'
    <2>1. SUFFICES ASSUME NEW t \in Task, t # Job(w), Carried(t)
                   PROVE  Carried(t)'
      OBVIOUS
    <2>2. \A v \in Worker :
            pc'[v] \in {"chain", "ack"} /\ TaskOf(stream[cur'[v]].event) = t
              => pc[v] \in {"chain", "ack"} /\ cur'[v] = cur[v]
      BY <2>1 DEF Job
    <2>3. QED
      BY <2>1, <2>2, CarriedKept
  <1>3. NoLostTask'
    BY <1>1, <1>2 DEF DeliveryInv, NoLostTask
  <1>4. \A v \in Worker : PastMark(v)' => PastMark(v) /\ Job(v)' = Job(v)
    BY DEF PastMark, Job
  <1>5. MarkInv'
    BY <1>4, MarkKept DEF DeliveryInv
  <1>6. QED
    BY <1>3, <1>5 DEF DeliveryInv

\* Delivering an entry to a worker does not drop it.
LEMMA ClaimDelivers ==
  ASSUME SafetyInv, DeliveryInv, NEW w \in Worker, Claim(w)
  PROVE  DeliveryInv'
PROOF
  <1>1. PICK got \in SUBSET Slot :
          /\ \A i \in got : stream[i].status \in {"queued", "pending"}
          /\ stream' = [i \in Slot |->
                          IF i \in got
                          THEN [stream[i] EXCEPT !.status = "pending",
                                                 !.owner = w, !.count = @ + 1]
                          ELSE stream[i]]
    <2>1. Take(OwnPending(w)) \cup Take(Queued) \in SUBSET Slot
      BY DEF Take, OwnPending, Queued
    <2>2. \A i \in Take(OwnPending(w)) \cup Take(Queued) :
            stream[i].status \in {"queued", "pending"}
      BY DEF Take, OwnPending, Queued
    <2>3. QED
      BY <2>1, <2>2 DEF Claim
  <1>2. \A i \in Slot : stream[i] \in EntryRec
    BY DEF SafetyInv, TypeOK
  <1>3. \A i \in Slot :
          /\ stream'[i].event = stream[i].event
          /\ \/ stream'[i] = stream[i]
             \/ stream'[i].status = "pending" /\ stream'[i].owner = w
    BY <1>1, <1>2 DEF EntryRec
  <1>4. UNCHANGED <<tstate, outbox, pc, cur, seen>>
    BY DEF Claim, taskVars
  <1>5. \A i \in Slot, t \in Task : Carries(i, t) => Carries(i, t)'
    BY <1>3, <1>4 DEF Carries
  <1>6. \A e \in outbox : Copies(e)' = Copies(e)
    BY <1>3 DEF Copies
  <1>7. \A t \in Task : Carried(t) => Carried(t)'
    BY <1>4, <1>5, <1>6 DEF Carried
  <1>8. NoLostTask'
    BY <1>4, <1>7 DEF DeliveryInv, NoLostTask
  <1>9. \A v \in Worker : PastMark(v)' => PastMark(v) /\ Job(v)' = Job(v)
    <2>1. \A v \in Worker : PastMark(v) => cur[v] \in Slot
      BY JobFacts DEF PastMark, Busy
    <2>2. QED
      BY <1>3, <1>4, <2>1 DEF PastMark, Job
  <1>10. MarkInv'
    BY <1>4, <1>9, MarkKept DEF DeliveryInv
  <1>11. QED
    BY <1>8, <1>10 DEF DeliveryInv

\* _dispatch drains a message only on the strength of a terminal row.
LEMMA DispatchDelivers ==
  ASSUME SafetyInv, DeliveryInv, NEW w \in Worker, Dispatch(w)
  PROVE  DeliveryInv'
PROOF
  <1>1. PICK i \in batch[w] :
          /\ cur' = [cur EXCEPT ![w] = i]
          /\ seen' = [seen EXCEPT ![w] = tstate[TaskOf(stream[i].event)]]
          /\ \/ /\ pc' = [pc EXCEPT ![w] = "ack"]
                /\ tstate[TaskOf(stream[i].event)] \in Terminal
             \/ pc' = [pc EXCEPT ![w] = "abandon"]
             \/ pc' = [pc EXCEPT ![w] = "load"]
    BY DEF Dispatch
  <1>2. UNCHANGED <<tstate, outbox, stream>>
    BY DEF Dispatch, taskVars
  <1>3. cur'[w] = i /\ seen'[w] = tstate[TaskOf(stream[i].event)]
    BY <1>1 DEF SafetyInv, TypeOK
  <1>4. \A v \in Worker : v # w => /\ pc'[v] = pc[v] /\ cur'[v] = cur[v]
                                   /\ seen'[v] = seen[v]
    BY <1>1 DEF SafetyInv, TypeOK
  <1>5. /\ pc'[w] \in {"ack", "abandon", "load"}
        /\ pc'[w] = "ack" => tstate[TaskOf(stream[i].event)] \in Terminal
    BY <1>1 DEF SafetyInv, TypeOK
  <1>6. \A t \in Task : tstate[t] \in {"PENDING", "RUNNING"} /\ Carried(t)
                          => Carried(t)'
    <2>1. SUFFICES ASSUME NEW t \in Task, Carried(t),
                          tstate[t] \in {"PENDING", "RUNNING"}
                   PROVE  Carried(t)'
      OBVIOUS
    <2>2. tstate[t] \notin Terminal
      BY <2>1 DEF Terminal
    <2>3. \A v \in Worker :
            pc'[v] \in {"chain", "ack"} /\ TaskOf(stream[cur'[v]].event) = t
              => pc[v] \in {"chain", "ack"} /\ cur'[v] = cur[v]
      BY <1>3, <1>4, <1>5, <2>2
    <2>4. QED
      BY <1>2, <2>1, <2>3, CarriedKept
  <1>7. NoLostTask'
    BY <1>2, <1>6 DEF DeliveryInv, NoLostTask
  <1>8. MarkInv'
    <2>1. SUFFICES ASSUME NEW v \in Worker, PastMark(v)'
                   PROVE  tstate[Job(v)'] # "PENDING"
      BY <1>2 DEF MarkInv
    <2>2. CASE v = w
      <3>1. seen'[w] = "RUNNING"
        BY <1>5, <2>1, <2>2 DEF PastMark
      <3>2. Job(w)' = TaskOf(stream[i].event)
        BY <1>2, <1>3 DEF Job
      <3>3. QED
        BY <1>3, <2>2, <3>1, <3>2
    <2>3. CASE v # w
      BY <1>2, <1>4, <2>1, <2>3 DEF DeliveryInv, MarkInv, PastMark, Job
    <2>4. QED
      BY <2>2, <2>3
  <1>9. QED
    BY <1>7, <1>8 DEF DeliveryInv

\* The row that update_state sets RUNNING is carried by the worker's own entry.
LEMMA MarkRunningDelivers ==
  ASSUME SafetyInv, DeliveryInv, NEW w \in Worker, MarkRunning(w)
  PROVE  DeliveryInv'
PROOF
  <1>1. /\ cur[w] \in Slot /\ Job(w) \in Task
        /\ stream[cur[w]].status = "pending" /\ stream[cur[w]].owner = w
    BY JobFacts DEF MarkRunning, Busy
  <1>2. UNCHANGED <<outbox, stream, cur, seen>>
    BY DEF MarkRunning
  <1>3. /\ pc[w] = "mark" /\ pc'[w] = "step"
        /\ \A v \in Worker : v # w => pc'[v] = pc[v]
    BY DEF MarkRunning, SafetyInv, TypeOK
  <1>4. /\ tstate'[Job(w)] = "RUNNING"
        /\ \A t \in Task : t # Job(w) => tstate'[t] = tstate[t]
    BY <1>1 DEF MarkRunning, SafetyInv, TypeOK
  <1>5. \A v \in Worker : pc[v] \in Busy /\ cur[v] = cur[w] => v = w
    BY <1>1, JobFacts
  <1>6. \A t \in Task : t = Job(w) => \E i \in Slot : Carries(i, t)'
    <2>1. \A v \in Worker : ~(pc'[v] \in {"chain", "ack"} /\ cur[v] = cur[w])
      BY <1>3, <1>5 DEF Busy
    <2>2. QED
      BY <1>1, <1>2, <2>1 DEF Carries, Job
  <1>7. \A t \in Task : Carried(t) => Carried(t)'
    BY <1>2, <1>3, CarriedKept
  <1>8. \A t \in Task : t = Job(w) => Carried(t)'
    BY <1>1, <1>6 DEF Carried
  <1>9. NoLostTask'
    BY <1>4, <1>7, <1>8 DEF DeliveryInv, NoLostTask
  <1>10. MarkInv'
    <2>1. SUFFICES ASSUME NEW v \in Worker, PastMark(v)'
                   PROVE  tstate'[Job(v)] # "PENDING"
      BY <1>2 DEF MarkInv, Job
    <2>2. CASE Job(v) = Job(w)
      BY <1>4, <2>2
    <2>3. CASE Job(v) # Job(w)
      <3>1. PastMark(v)
        BY <1>2, <1>3, <2>1, <2>3 DEF PastMark
      <3>2. Job(v) \in Task
        BY <3>1, JobFacts DEF PastMark, Busy
      <3>3. QED
        BY <1>4, <2>3, <3>1, <3>2 DEF DeliveryInv, MarkInv
    <2>4. QED
      BY <2>2, <2>3
  <1>11. QED
    BY <1>9, <1>10 DEF DeliveryInv

\* A lost race for AWAITING_APPROVAL is acked only when another actor took
\* the row on: it is not PENDING, and were it RUNNING the race were won.
LEMMA PauseDelivers ==
  ASSUME SafetyInv, DeliveryInv, NEW w \in Worker, Pause(w)
  PROVE  DeliveryInv'
PROOF
  <1>1. Job(w) \in Task /\ pc[w] \in Busy
    BY JobFacts DEF Pause, Busy
  <1>2. tstate[Job(w)] # "PENDING"
    BY DEF DeliveryInv, MarkInv, PastMark, Pause
  <1>3. /\ tstate'[Job(w)] \notin {"PENDING", "RUNNING"}
        /\ \A t \in Task : t # Job(w) => tstate'[t] = tstate[t]
    BY <1>1, <1>2 DEF Pause, SafetyInv, TypeOK
  <1>4. pc'[w] = "ack" /\ \A v \in Worker : v # w => pc'[v] = pc[v]
    BY DEF Pause, SafetyInv, TypeOK
  <1>5. QED
    BY <1>1, <1>3, <1>4, DecidedDelivers DEF Pause

\* After complete() the row is terminal, whoever wrote it.
LEMMA CompleteDelivers ==
  ASSUME SafetyInv, DeliveryInv, NEW w \in Worker, Complete(w)
  PROVE  DeliveryInv'
PROOF
  <1>1. Job(w) \in Task /\ pc[w] \in Busy
    BY JobFacts DEF Complete, Busy
  <1>2. Outcome(run[w]).state \in Terminal
    BY DEF Outcome, Terminal
  <1>3. /\ tstate'[Job(w)] \in Terminal
        /\ \A t \in Task : t # Job(w) => tstate'[t] = tstate[t]
    BY <1>1, <1>2 DEF Complete, SafetyInv, TypeOK
  <1>4. /\ pc'[w] \in {"chain", "ack"}
        /\ \A v \in Worker : v # w => pc'[v] = pc[v]
    BY DEF Complete, SafetyInv, TypeOK
  <1>5. tstate'[Job(w)] \notin {"PENDING", "RUNNING"}
    BY <1>3 DEF Terminal
  <1>6. QED
    BY <1>1, <1>3, <1>4, <1>5, DecidedDelivers DEF Complete

\* After _abandon the row is terminal, whoever wrote it.
LEMMA AbandonDelivers ==
  ASSUME SafetyInv, DeliveryInv, NEW w \in Worker, Abandon(w)
  PROVE  DeliveryInv'
PROOF
  <1>1. Job(w) \in Task /\ pc[w] \in Busy
    BY JobFacts DEF Abandon, Busy
  <1>2. /\ tstate'[Job(w)] \notin {"PENDING", "RUNNING"}
        /\ \A t \in Task : t # Job(w) => tstate'[t] = tstate[t]
    BY <1>1 DEF Abandon, Terminal, SafetyInv, TypeOK
  <1>3. pc'[w] = "ack" /\ \A v \in Worker : v # w => pc'[v] = pc[v]
    BY DEF Abandon, SafetyInv, TypeOK
  <1>4. QED
    BY <1>1, <1>2, <1>3, DecidedDelivers DEF Abandon

\* A follow-up is submitted with the command that carries it.
LEMMA ChainDelivers ==
  ASSUME SafetyInv, DeliveryInv, NEW w \in Worker, Chain(w)
  PROVE  DeliveryInv'
PROOF
  <1> DEFINE child == ChildOf[Job(w)]
  <1>1. child \in Task
    BY DEF SafetyInv, BaseInv, Chain
  <1>2. UNCHANGED <<stream, cur, seen>> /\ outbox \subseteq outbox'
    BY DEF Chain
  <1>3. /\ pc[w] = "chain" /\ pc'[w] = "ack"
        /\ \A v \in Worker : v # w => pc'[v] = pc[v]
    BY DEF Chain, SafetyInv, TypeOK
  <1>4. \A t \in Task : Carried(t) => Carried(t)'
    BY <1>2, <1>3, CarriedKept
  <1>5. \A v \in Worker : PastMark(v)' => PastMark(v) /\ Job(v)' = Job(v)
    BY <1>2, <1>3 DEF PastMark, Job
  <1>6. CASE tstate[child] = "absent"
    <2>1. Submitted(child) \in Event /\ TaskOf(Submitted(child)) = child
      BY <1>1 DEF Submitted, Event, TaskOf
    <2>2. Submitted(child) \notin outbox
      BY <1>6, <2>1 DEF SafetyInv, RowInv
    <2>3. Submitted(child) \in outbox'
      BY <1>6 DEF Chain
    <2>4. \A u \in Task : u = child => Carried(u)'
      BY <1>2, <2>1, <2>2, <2>3, NewCommandCarries
    <2>5. \A t \in Task : t # child => tstate'[t] = tstate[t]
      BY <1>1, <1>6 DEF Chain, SafetyInv, TypeOK
    <2>6. NoLostTask'
      BY <1>4, <2>4, <2>5 DEF DeliveryInv, NoLostTask
    <2>7. MarkInv'
      BY <1>5, <1>6, <2>5, MarkKept DEF DeliveryInv
    <2>8. QED
      BY <2>6, <2>7 DEF DeliveryInv
  <1>7. CASE tstate[child] # "absent"
    <2>1. UNCHANGED tstate
      BY <1>7 DEF Chain
    <2>2. NoLostTask'
      BY <1>4, <2>1 DEF DeliveryInv, NoLostTask
    <2>3. MarkInv'
      BY <1>5, <2>1, MarkKept DEF DeliveryInv
    <2>4. QED
      BY <2>2, <2>3 DEF DeliveryInv
  <1>8. QED
    BY <1>6, <1>7

\* Only an entry that was given up on is acknowledged.
LEMMA AckDelivers ==
  ASSUME SafetyInv, DeliveryInv, NEW w \in Worker, Ack(w)
  PROVE  DeliveryInv'
PROOF
  <1>1. cur[w] \in Slot /\ pc[w] = "ack" /\ stream[cur[w]] \in EntryRec
    BY JobFacts DEF Ack, Busy, SafetyInv, TypeOK
  <1>2. /\ \A i \in Slot : i # cur[w] => stream'[i] = stream[i]
        /\ stream'[cur[w]].event = stream[cur[w]].event
    BY <1>1 DEF Ack, SafetyInv, TypeOK, EntryRec
  <1>3. UNCHANGED <<tstate, outbox>>
    BY DEF Ack, taskVars
  <1>4. /\ pc'[w] = "idle"
        /\ \A v \in Worker : v # w => /\ pc'[v] = pc[v] /\ cur'[v] = cur[v]
                                      /\ seen'[v] = seen[v]
    BY DEF Ack, Release, SafetyInv, TypeOK
  <1>5. \A i \in Slot, t \in Task : Carries(i, t) => Carries(i, t)'
    <2>1. SUFFICES ASSUME NEW i \in Slot, NEW t \in Task, Carries(i, t)
                   PROVE  Carries(i, t)'
      OBVIOUS
    <2>2. i # cur[w]
      BY <1>1, <2>1 DEF Carries
    <2>3. QED
      BY <1>2, <1>4, <2>1, <2>2 DEF Carries
  <1>6. \A e \in outbox : Copies(e)' = Copies(e)
    BY <1>1, <1>2 DEF Copies
  <1>7. \A t \in Task : Carried(t) => Carried(t)'
    BY <1>3, <1>5, <1>6 DEF Carried
  <1>8. NoLostTask'
    BY <1>3, <1>7 DEF DeliveryInv, NoLostTask
  <1>9. \A v \in Worker : PastMark(v)' => PastMark(v) /\ Job(v)' = Job(v)
    <2>1. \A v \in Worker : PastMark(v) => cur[v] \in Slot
      BY JobFacts DEF PastMark, Busy
    <2>2. \A v \in Worker : PastMark(v)' => v # w
      BY <1>4 DEF PastMark
    <2>3. QED
      BY <1>1, <1>2, <1>4, <2>1, <2>2 DEF PastMark, Job
  <1>10. MarkInv'
    BY <1>3, <1>9, MarkKept DEF DeliveryInv
  <1>11. QED
    BY <1>8, <1>10 DEF DeliveryInv

\* A resumed task is carried by the resume command of the same transaction.
LEMMA OpCommitDelivers ==
  ASSUME SafetyInv, DeliveryInv, NEW o \in Operator, OpCommit(o)
  PROVE  DeliveryInv'
PROOF
  <1> DEFINE t == opTask[o]
             n == opBase[o].seq + 1
  <1>1. t \in Task /\ n \in Nat
    BY DEF SafetyInv, TypeOK, BaseInv, OpCommit, RunState
  <1>2. UNCHANGED <<stream, pc, cur, seen>> /\ outbox \subseteq outbox'
    BY DEF OpCommit, workerVars
  <1>3. CASE UNCHANGED tstate
    BY <1>2, <1>3, QuietDelivers DEF PastMark
  <1>4. CASE /\ tstate' = [tstate EXCEPT ![t] = "RUNNING"]
             /\ Resumed(t, n) \notin outbox
             /\ outbox' = outbox \cup {Resumed(t, n)}
    <2>1. Resumed(t, n) \in Event /\ TaskOf(Resumed(t, n)) = t
      BY <1>1 DEF Resumed, Event, TaskOf
    <2>2. \A u \in Task : u = t => Carried(u)'
      BY <1>2, <1>4, <2>1, NewCommandCarries
    <2>3. \A u \in Task : Carried(u) => Carried(u)'
      BY <1>2, CarriedKept
    <2>4. /\ tstate'[t] = "RUNNING"
          /\ \A u \in Task : u # t => tstate'[u] = tstate[u]
      BY <1>1, <1>4 DEF SafetyInv, TypeOK
    <2>5. NoLostTask'
      BY <2>2, <2>3, <2>4 DEF DeliveryInv, NoLostTask
    <2>6. \A v \in Worker : (PastMark(v)' <=> PastMark(v)) /\ Job(v)' = Job(v)
      BY <1>2 DEF PastMark, Job
    <2>7. MarkInv'
      BY <2>4, <2>6, MarkKept DEF DeliveryInv
    <2>8. QED
      BY <2>5, <2>7 DEF DeliveryInv
  <1>5. QED
    BY <1>3, <1>4 DEF OpCommit

\* The quiet steps of a worker.
LEMMA WorkerQuietDelivers ==
  ASSUME StableNames, SafetyInv, DeliveryInv, NEW w \in Worker,
         \/ Start(w) \/ RecoverOne(w) \/ LoadState(w) \/ PersistStep(w)
         \/ ChainFails(w) \/ HandlerFails(w) \/ Crash(w)
  PROVE  DeliveryInv'
PROOF
  <1>1. outbox \subseteq outbox' /\ UNCHANGED <<stream, tstate>>
    BY DEF Start, RecoverOne, LoadState, PersistStep, ChainFails, HandlerFails,
           Crash, taskVars
  <1>2. \A v \in Worker : v # w => /\ pc'[v] = pc[v] /\ cur'[v] = cur[v]
                                   /\ seen'[v] = seen[v]
    BY DEF Start, RecoverOne, LoadState, PersistStep, ChainFails, HandlerFails,
           Crash, Release, SafetyInv, TypeOK
  <1>3. /\ pc'[w] \in {"chain", "ack"} => pc[w] \in {"chain", "ack"} /\ cur'[w] = cur[w]
        /\ PastMark(w)' => PastMark(w) /\ cur'[w] = cur[w]
    <2>1. CASE Start(w) \/ RecoverOne(w)
      BY <2>1 DEF Start, RecoverOne, SafetyInv, TypeOK, PastMark
    <2>2. CASE LoadState(w) \/ ChainFails(w)
      BY <2>2 DEF LoadState, ChainFails, SafetyInv, TypeOK, PastMark
    <2>3. CASE PersistStep(w)
      BY <2>3 DEF PersistStep, Release, SafetyInv, TypeOK, PastMark
    <2>4. CASE HandlerFails(w) \/ Crash(w)
      BY <2>4 DEF HandlerFails, Crash, Release, SafetyInv, TypeOK, PastMark
    <2>5. QED
      BY <2>1, <2>2, <2>3, <2>4
  <1>4. \A v \in Worker : /\ pc'[v] \in {"chain", "ack"}
                               => pc[v] \in {"chain", "ack"} /\ cur'[v] = cur[v]
                          /\ PastMark(v)' => PastMark(v) /\ cur'[v] = cur[v]
    BY <1>2, <1>3 DEF PastMark
  <1>5. QED
    BY <1>1, <1>4, QuietDelivers

\* The quiet steps of operators and sweepers: rows only leave PENDING and
\* RUNNING alone, or move from a pause to a terminal state.
LEMMA OtherQuietDelivers ==
  ASSUME SafetyInv, DeliveryInv,
         \/ \E t \in Task : Abort(t)
         \/ \E o \in Operator : OpLatest(o) \/ \E t \in Task : OpRead(o, t)
         \/ \E v \in Sweeper : SweepList(v) \/ SweepOne(v)
         \/ UNCHANGED vars
  PROVE  DeliveryInv'
PROOF
  <1>1. UNCHANGED <<outbox, stream, pc, cur, seen>>
    BY DEF Abort, OpLatest, OpRead, SweepList, SweepOne, vars, workerVars
  <1>2. \A t \in Task : tstate'[t] \in {"PENDING", "RUNNING"}
                          => tstate'[t] = tstate[t]
    <2>1. CASE \E t \in Task : Abort(t)
      BY <2>1 DEF Abort, SafetyInv, TypeOK
    <2>2. CASE \E v \in Sweeper : SweepOne(v)
      <3>1. PICK v \in Sweeper : SweepOne(v)
        BY <2>2
      <3>2. PICK t \in listed[v] :
              tstate' = [tstate EXCEPT ![t] =
                           IF @ = "AWAITING_APPROVAL" THEN "EXPIRED" ELSE @]
        BY <3>1 DEF SweepOne
      <3>3. t \in Task
        BY DEF SafetyInv, TypeOK
      <3>4. QED
        BY <3>2, <3>3 DEF SafetyInv, TypeOK
    <2>3. CASE UNCHANGED tstate
      BY <2>3
    <2>4. QED
      BY <2>1, <2>2, <2>3 DEF OpLatest, OpRead, SweepList, vars, taskVars
  <1>3. \A w \in Worker : PastMark(w)' => PastMark(w)
    BY <1>1 DEF PastMark
  <1>4. QED
    BY <1>1, <1>2, <1>3, QuietDelivers

-----------------------------------------------------------------------------

\* Every step keeps every PENDING or RUNNING task carried.
LEMMA DeliveryStep ==
  ASSUME StableNames, SafetyInv, DeliveryInv, [Next]_vars
  PROVE  DeliveryInv'
PROOF
  <1>1. CASE UNCHANGED vars
    BY <1>1, OtherQuietDelivers
  <1>2. CASE \E t \in Task : Submit(t) \/ Abort(t)
    BY <1>2, SubmitDelivers, OtherQuietDelivers
  <1>3. CASE \E e \in outbox : Publish(e)
    BY <1>3, PublishDelivers
  <1>4. CASE \E w \in Worker : \/ Start(w) \/ Work(w)
                               \/ ChainFails(w) \/ HandlerFails(w) \/ Crash(w)
    <2>1. PICK w \in Worker : \/ Start(w) \/ Work(w)
                               \/ ChainFails(w) \/ HandlerFails(w) \/ Crash(w)
      BY <1>4
    <2>2. CASE \/ Start(w) \/ RecoverOne(w) \/ LoadState(w) \/ PersistStep(w)
               \/ ChainFails(w) \/ HandlerFails(w) \/ Crash(w)
      BY <2>2, WorkerQuietDelivers
    <2>3. CASE \/ Claim(w) \/ Dispatch(w) \/ MarkRunning(w) \/ Pause(w)
               \/ Complete(w) \/ Chain(w) \/ Abandon(w) \/ Ack(w)
      BY <2>3, ClaimDelivers, DispatchDelivers, MarkRunningDelivers,
         PauseDelivers, CompleteDelivers, ChainDelivers, AbandonDelivers,
         AckDelivers
    <2>4. QED
      BY <2>1, <2>2, <2>3 DEF Work
  <1>5. CASE \E o \in Operator : \/ \E t \in Task : OpRead(o, t)
                                 \/ OpLatest(o) \/ OpCommit(o)
    BY <1>5, OtherQuietDelivers, OpCommitDelivers
  <1>6. CASE \E v \in Sweeper : SweepList(v) \/ SweepOne(v)
    BY <1>6, OtherQuietDelivers
  <1>7. QED
    BY <1>1, <1>2, <1>3, <1>4, <1>5, <1>6 DEF Next

\* While consumer names survive restarts, no PENDING or RUNNING task is ever
\* without a command that will reach a worker, whatever the interleaving of
\* early acks, crashes, recoveries and operator decisions.
THEOREM NoTaskIsLost == ASSUME StableNames PROVE Spec => []NoLostTask
PROOF
  <1>1. Init => DeliveryInv
    BY DEF Init, DeliveryInv, MarkInv, PastMark, NoLostTask
  <1>2. SafetyInv /\ DeliveryInv /\ [Next]_vars => DeliveryInv'
    BY DeliveryStep
  <1>3. DeliveryInv => NoLostTask
    BY DEF DeliveryInv
  <1>4. QED
    BY <1>1, <1>2, <1>3, Safety, PTL DEF Spec
=============================================================================
