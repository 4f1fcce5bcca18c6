--------------------------- MODULE CircuitBreaker ---------------------------
(***************************************************************************)
(* InMemoryCircuitBreaker: one bucket (one key) shared by the concurrent   *)
(* calls of a process.  The bucket is touched twice per call, before and   *)
(* after the protected function runs, each time under its lock; calls that *)
(* were admitted earlier end in any order and at any time.                 *)
(*                                                                         *)
(* Time is kept as ages: the ticks since each recorded failure and since   *)
(* opened_at, capped where the code no longer tells them apart.            *)
(***************************************************************************)
EXTENDS Naturals, Sequences, FiniteSets

CONSTANTS
  Caller,     \* concurrent callers of the breaker
  Threshold,  \* failure_threshold
  Window,     \* window_seconds, in ticks
  Cooldown    \* cooldown_seconds, in ticks

ASSUME BreakerAssumption ==
  /\ Threshold \in Nat \ {0} /\ Window \in Nat \ {0} /\ Cooldown \in Nat \ {0}

VARIABLES
  state,     \* _BucketState.state
  failures,  \* ages of the recorded failures, oldest first
  openAge,   \* ticks since opened_at
  inFlight,  \* _BucketState.probe_in_flight
  pc         \* what each caller is doing

vars == <<state, failures, openAge, inFlight, pc>>

BreakerState == {"CLOSED", "OPEN", "HALF_OPEN"}

\* A bucket as _get_bucket makes it.
Init ==
  /\ state = "CLOSED"
  /\ failures = <<>>
  /\ openAge = 0
  /\ inFlight = FALSE
  /\ pc = [c \in Caller |-> "idle"]

-----------------------------------------------------------------------------
(* _gate.  A rejected call changes nothing and is a stuttering step. *)

\* CLOSED: the call runs.
Pass(c) ==
  /\ pc[c] = "idle" /\ state = "CLOSED"
  /\ pc' = [pc EXCEPT ![c] = "call"]
  /\ UNCHANGED <<state, failures, openAge, inFlight>>

\* OPEN and cooled down: the call is the probe.
Probe(c) ==
  /\ pc[c] = "idle" /\ state = "OPEN" /\ openAge >= Cooldown
  /\ state' = "HALF_OPEN"
  /\ inFlight' = TRUE
  /\ pc' = [pc EXCEPT ![c] = "probe"]
  /\ UNCHANGED <<failures, openAge>>

-----------------------------------------------------------------------------
(* _record_outcome *)

\* The probe succeeded.
ProbeSucceeds(c) ==
  /\ pc[c] = "probe"
  /\ state' = "CLOSED"
  /\ failures' = <<>>
  /\ inFlight' = FALSE
  /\ openAge' = 0
  /\ pc' = [pc EXCEPT ![c] = "idle"]

\* Mutant of ProbeFails: an exception that does not count is passed through
\* before the probe is looked at.
ProbeFailsIfCounted(c) ==
  /\ pc[c] = "probe"
  /\ pc' = [pc EXCEPT ![c] = "idle"]
  /\ \E counted \in BOOLEAN :
       /\ state' = IF counted THEN "OPEN" ELSE state
       /\ inFlight' = IF counted THEN FALSE ELSE inFlight
       /\ openAge' = IF counted THEN 0 ELSE openAge
       /\ failures' = IF counted THEN <<>> ELSE failures

\* The probe raised or was cancelled, whether or not the exception counts.
ProbeFails(c) ==
  /\ pc[c] = "probe"
  /\ state' = "OPEN"
  /\ failures' = <<>>
  /\ inFlight' = FALSE
  /\ openAge' = 0
  /\ pc' = [pc EXCEPT ![c] = "idle"]

\* An admitted call ended well, or with an exception that does not count.
CallEnds(c) ==
  /\ pc[c] = "call"
  /\ pc' = [pc EXCEPT ![c] = "idle"]
  /\ UNCHANGED <<state, failures, openAge, inFlight>>

\* Mutant of Pruned: stale failures are kept.
PrunedNothing(f) == f

\* popleft while the oldest failure is out of the window: the leading stale
\* entries go.
Stale(f) == {i \in 1 .. Len(f) : \A j \in 1 .. i : f[j] > Window}
Pruned(f) == SubSeq(f, Cardinality(Stale(f)) + 1, Len(f))

\* Mutant of Trips: one failure too late.
TripsLate(f) == Len(f) > Threshold

\* len(failures) >= failure_threshold.
Trips(f) == Len(f) >= Threshold

\* An admitted call failed.  The state is not looked at: the call may have
\* been admitted before the breaker opened, or before a probe started.
CallFails(c) ==
  LET f == Pruned(Append(failures, 0))
  IN  /\ pc[c] = "call"
      /\ failures' = f
      /\ state' = IF Trips(f) THEN "OPEN" ELSE state
      /\ openAge' = IF Trips(f) THEN 0 ELSE openAge
      /\ pc' = [pc EXCEPT ![c] = "idle"]
      /\ UNCHANGED inFlight

-----------------------------------------------------------------------------

Older(age, cap) == IF age < cap THEN age + 1 ELSE age

Tick ==
  /\ failures' = [i \in 1 .. Len(failures) |-> Older(failures[i], Window + 1)]
  /\ openAge' = IF state = "OPEN" THEN Older(openAge, Cooldown) ELSE openAge
  /\ UNCHANGED <<state, inFlight, pc>>

End(c) == ProbeSucceeds(c) \/ ProbeFails(c) \/ CallEnds(c) \/ CallFails(c)

Next == Tick \/ \E c \in Caller : Pass(c) \/ Probe(c) \/ End(c)

Spec == Init /\ [][Next]_vars

\* A protected call ends: the HTTP clients behind it have timeouts.
FairSpec == Spec /\ \A c \in Caller : WF_vars(End(c))

-----------------------------------------------------------------------------
(* Properties *)

\* Type invariant: the bucket and the callers.
TypeOK ==
  /\ state \in BreakerState
  /\ failures \in Seq(0 .. Window + 1)
  /\ openAge \in 0 .. Cooldown
  /\ inFlight \in BOOLEAN
  /\ pc \in [Caller -> {"idle", "call", "probe"}]

(***************************************************************************)
(* While the breaker lets calls through, fewer failures than the threshold *)
(* are on record, whichever late calls were recorded while it was open and *)
(* whichever probe closed it.                                              *)
(***************************************************************************)
ClosedIsHealthy == state = "CLOSED" => Len(failures) < Threshold

(***************************************************************************)
(* HALF_OPEN rejects every caller and only a probe's outcome leaves it (a  *)
(* late failure aside), so a probe must be running: an outcome that is not *)
(* recorded would shut the breaker for good.                               *)
(***************************************************************************)
HalfOpenHasProbe == state = "HALF_OPEN" => \E c \in Caller : pc[c] = "probe"

(***************************************************************************)
(* A breaker that lets calls through opens only on a threshold of failures *)
(* that all lie within the trailing window, unless a probe left over from  *)
(* an earlier phase fails after another one closed it (see OneProbe).      *)
(***************************************************************************)
TripIsRecent ==
  [][state = "CLOSED" /\ state' = "OPEN" /\ (\A c \in Caller : pc[c] # "probe")
       => /\ Len(failures') >= Threshold
          /\ \A i \in DOMAIN failures' : failures'[i] <= Window]_vars

\* Every probing phase ends.
HalfOpenEnds == state = "HALF_OPEN" ~> state # "HALF_OPEN"

(***************************************************************************)
(* Exactly one probe call is permitted (the module docstring).  A failure  *)
(* of a call admitted earlier reopens the breaker while the probe runs,    *)
(* and after the next cooldown a second probe joins the first.             *)
(***************************************************************************)
OneProbe ==
  \A c, d \in Caller : pc[c] = "probe" /\ pc[d] = "probe" => c = d
=============================================================================
