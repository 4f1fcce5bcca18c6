------------------------ MODULE ProviderCallsProofs ------------------------
(***************************************************************************)
(* Proofs about RedisBreaker and ProviderCalls, for any number of workers  *)
(* and calls, any clock offsets, retry budget, token limit and cache       *)
(* lifetime, and any number of backend failures.                           *)
(***************************************************************************)
EXTENDS ProviderCalls, FiniteSetTheorems, TLAPS

-----------------------------------------------------------------------------
(* The breaker on Redis by itself, for any number of replicas with any clock *)
(* offsets, lost outcomes included                                           *)

\* The part of the types the argument needs, and the two properties.
KeysOK ==
  /\ fails \in Seq(Stamp)
  /\ stateTtl \in Nat

RedisInv == KeysOK /\ StateExpires /\ LogBelowThreshold

\* A fresh stamp is a stamp.
LEMMA NowType == ASSUME NEW c \in Caller PROVE Now(c) \in Stamp
BY RedisBreakerAssumption DEF Now, Stamp

\* Pruning a log leaves a log.
LEMMA PrunedType ==
  ASSUME NEW c \in Caller, NEW f \in Seq(Stamp)
  PROVE  Pruned(c, f) \in Seq(Stamp)
<1>1. Stale(c, f) \subseteq 1 .. Len(f) /\ IsFiniteSet(1 .. Len(f))
  BY FS_Interval DEF Stale
<1>2. IsFiniteSet(Stale(c, f))
  BY <1>1, FS_Subset
<1>3. Cardinality(Stale(c, f)) \in Nat
  BY <1>2, FS_CardinalityType
<1> DEFINE m == Cardinality(Stale(c, f)) + 1
<1>4. m \in Nat \ {0}
  BY <1>3
<1> HIDE DEF m
<1>5. SubSeq(f, m, Len(f)) \in Seq(Stamp)
  BY <1>4
<1> QED
  BY <1>5 DEF Pruned, m

\* Absent keys satisfy the invariant.
LEMMA RedisInvInit == Init => RedisInv
<1> SUFFICES ASSUME Init PROVE RedisInv
  OBVIOUS
<1>1. fails \in Seq(Stamp) /\ Len(fails) = 0
  BY DEF Init
<1> QED
  BY <1>1, RedisBreakerAssumption
  DEF Init, RedisInv, KeysOK, StateExpires, LogBelowThreshold

\* A probe's outcome arms the expiry and deletes the log.
LEMMA ProbeEndsPreserves ==
  ASSUME RedisInv, NEW c \in Caller, ProbeEnds(c)
  PROVE  RedisInv'
<1>1. fails' \in Seq(Stamp) /\ Len(fails') = 0
  BY DEF ProbeEnds
<1>2. stateTtl' = Ttl
  BY DEF ProbeEnds
<1> QED
  BY <1>1, <1>2, RedisBreakerAssumption
  DEF RedisInv, KeysOK, StateExpires, LogBelowThreshold

\* A counted failure trips the breaker, which deletes the log, or leaves it
\* below the threshold; either way an existing hash is armed again.
LEMMA CallFailsPreserves ==
  ASSUME RedisInv, NEW c \in Caller, CallFails(c)
  PROVE  RedisInv'
<1> DEFINE f == Pruned(c, Append(fails, Now(c)))
<1>1. Append(fails, Now(c)) \in Seq(Stamp)
  BY NowType DEF RedisInv, KeysOK
<1>2. f \in Seq(Stamp)
  BY <1>1, PrunedType
<1>3. /\ fails' = IF Len(f) >= Threshold THEN <<>> ELSE f
      /\ state' = IF Len(f) >= Threshold THEN "open" ELSE state
      /\ stateTtl' = IF Len(f) >= Threshold \/ state # "none"
                     THEN Ttl ELSE stateTtl
  BY DEF CallFails, Trips
<1> HIDE DEF f
<1>4. fails' \in Seq(Stamp) /\ Len(fails') < Threshold
  <2> Len(f) \in Nat
    BY <1>2
  <2>1. CASE Len(f) >= Threshold
    BY <1>3, <2>1, RedisBreakerAssumption
  <2>2. CASE ~(Len(f) >= Threshold)
    BY <1>2, <1>3, <2>2, RedisBreakerAssumption
  <2> QED
    BY <2>1, <2>2
<1>5. stateTtl' \in Nat /\ (state' # "none" => stateTtl' > 0)
  BY <1>3, RedisBreakerAssumption DEF RedisInv, KeysOK
<1> QED
  BY <1>4, <1>5 DEF RedisInv, KeysOK, StateExpires, LogBelowThreshold

\* Time removes the hash when its expiry runs out, and never lengthens the
\* log.
LEMMA TickPreserves ==
  ASSUME RedisInv, Tick
  PROVE  RedisInv'
<1>1. ASSUME NEW s \in Stamp PROVE Older(s) \in Stamp
  BY <1>1, RedisBreakerAssumption DEF Older, Stamp
<1>2. CASE failTtl = 1
  <2>1. fails' = <<>>
    BY <1>2 DEF Tick
  <2> QED
    BY <2>1, RedisBreakerAssumption
    DEF RedisInv, KeysOK, StateExpires, LogBelowThreshold, Tick
<1>3. CASE failTtl # 1
  <2>1. fails' = [i \in 1 .. Len(fails) |-> Older(fails[i])]
    BY <1>3 DEF Tick
  <2>2. fails' \in Seq(Stamp) /\ Len(fails') = Len(fails)
    BY <1>1, <2>1 DEF RedisInv, KeysOK
  <2> QED
    BY <2>2 DEF RedisInv, KeysOK, StateExpires, LogBelowThreshold, Tick
<1> QED
  BY <1>2, <1>3

\* The steps that leave both keys alone, and the start of a probing phase.
LEMMA QuietPreserves ==
  ASSUME RedisInv, NEW c \in Caller,
         Pass(c) \/ Probe(c) \/ CallEnds(c) \/ OutcomeLost(c)
  PROVE  RedisInv'
<1>1. /\ fails' = fails /\ stateTtl' = stateTtl
      /\ state' # "none" => state # "none"
  BY DEF Pass, Probe, MayProbe, CallEnds, OutcomeLost, keys
<1> QED
  BY <1>1 DEF RedisInv, KeysOK, StateExpires, LogBelowThreshold

\* Every script run, lost outcome and tick preserves the invariant.
LEMMA RedisInvStep == RedisInv /\ [Next]_vars => RedisInv'
<1> SUFFICES ASSUME RedisInv, [Next]_vars PROVE RedisInv'
  OBVIOUS
<1>1. CASE UNCHANGED vars
  BY <1>1 DEF vars, RedisInv, KeysOK, StateExpires, LogBelowThreshold
<1>2. CASE Tick
  BY <1>2, TickPreserves
<1>3. ASSUME NEW c \in Caller, Pass(c) \/ Probe(c) \/ End(c)
      PROVE  RedisInv'
  BY <1>3, QuietPreserves, ProbeEndsPreserves, CallFailsPreserves DEF End
<1> QED
  BY <1>1, <1>2, <1>3 DEF Next

\* RedisCircuitBreaker never stores a state that will not expire, so a lost
\* probe outcome cannot shut the breaker for good.
THEOREM StoredStateExpires == Spec => []StateExpires
<1>1. RedisInv => StateExpires
  BY DEF RedisInv
<1> QED
  BY <1>1, RedisInvInit, RedisInvStep, PTL DEF Spec

\* RedisCircuitBreaker never keeps a full threshold of failures on record.
THEOREM FailureLogIsShort == Spec => []LogBelowThreshold
<1>1. RedisInv => LogBelowThreshold
  BY DEF RedisInv
<1> QED
  BY <1>1, RedisInvInit, RedisInvStep, PTL DEF Spec
\* An aged stamp is a stamp.
LEMMA OlderType == ASSUME NEW s \in Stamp PROVE Older(s) \in Stamp
BY RedisBreakerAssumption DEF Older, Stamp

\* A gate, a record and a tick keep every field of the two keys in its type.
LEMMA TypeStep == TypeOK /\ [Next]_vars => TypeOK'
<1> SUFFICES ASSUME TypeOK, [Next]_vars PROVE TypeOK'
  OBVIOUS
<1>1. CASE UNCHANGED vars
  BY <1>1 DEF vars, TypeOK
<1>2. CASE Tick
  <2>1. fails' \in Seq(Stamp)
    <3>1. CASE failTtl = 1
      BY <1>2, <3>1 DEF Tick
    <3>2. CASE failTtl # 1
      <4>1. fails' = [i \in 1 .. Len(fails) |-> Older(fails[i])]
        BY <1>2, <3>2 DEF Tick
      <4> QED
        BY <4>1, OlderType DEF TypeOK
    <3> QED
      BY <3>1, <3>2
  <2>2. opened' \in Stamp
    BY <1>2, OlderType DEF Tick, TypeOK
  <2>3. stateTtl' \in 0 .. Ttl /\ failTtl' \in 0 .. Ttl
    BY <1>2, RedisBreakerAssumption DEF Tick, TypeOK
  <2>4. /\ state' \in {"none", "closed", "open", "half_open"}
        /\ flag' \in BOOLEAN
        /\ pc' \in [Caller -> {"idle", "call", "probe"}]
    BY <1>2 DEF Tick, TypeOK
  <2> QED
    BY <2>1, <2>2, <2>3, <2>4 DEF TypeOK
<1>3. ASSUME NEW c \in Caller, Pass(c) \/ Probe(c) \/ CallEnds(c) \/ OutcomeLost(c)
      PROVE  TypeOK'
  BY <1>3 DEF Pass, Probe, CallEnds, OutcomeLost, keys, TypeOK
<1>4. ASSUME NEW c \in Caller, ProbeEnds(c)
      PROVE  TypeOK'
  <2>1. fails' \in Seq(Stamp)
    BY <1>4 DEF ProbeEnds
  <2>6. flag' \in BOOLEAN
    BY <1>4 DEF ProbeEnds
  <2>2. opened' \in Stamp
    BY <1>4, NowType DEF ProbeEnds
  <2>3. stateTtl' \in 0 .. Ttl /\ failTtl' \in 0 .. Ttl
    BY <1>4, RedisBreakerAssumption DEF ProbeEnds
  <2>4. state' \in {"none", "closed", "open", "half_open"}
    BY <1>4 DEF ProbeEnds
  <2>5. pc' \in [Caller -> {"idle", "call", "probe"}]
    BY <1>4 DEF ProbeEnds, TypeOK
  <2> QED
    BY <2>1, <2>2, <2>3, <2>4, <2>5, <2>6 DEF TypeOK
<1>5. ASSUME NEW c \in Caller, CallFails(c)
      PROVE  TypeOK'
  <2> DEFINE f == Pruned(c, Append(fails, Now(c)))
  <2>7. Append(fails, Now(c)) \in Seq(Stamp)
    BY NowType DEF TypeOK
  <2>1. f \in Seq(Stamp)
    BY <2>7, PrunedType
  <2>2. /\ fails' = IF Trips(f) THEN <<>> ELSE f
        /\ failTtl' = IF Trips(f) THEN 0 ELSE Ttl
        /\ state' = IF Trips(f) THEN "open" ELSE state
        /\ opened' = IF Trips(f) THEN Now(c) ELSE opened
        /\ flag' = IF Trips(f) THEN FALSE ELSE flag
        /\ stateTtl' = IF Trips(f) \/ state # "none" THEN Ttl ELSE stateTtl
        /\ pc' = [pc EXCEPT ![c] = "idle"]
    BY <1>5 DEF CallFails
  <2> HIDE DEF f
  <2>3. fails' \in Seq(Stamp)
    BY <2>1, <2>2
  <2>4. flag' \in BOOLEAN /\ opened' \in Stamp
    BY <2>2, NowType DEF TypeOK
  <2>5. stateTtl' \in 0 .. Ttl /\ failTtl' \in 0 .. Ttl
    BY <2>2, RedisBreakerAssumption DEF TypeOK
  <2>6. /\ state' \in {"none", "closed", "open", "half_open"}
        /\ pc' \in [Caller -> {"idle", "call", "probe"}]
    BY <2>2 DEF TypeOK
  <2> QED
    BY <2>3, <2>4, <2>5, <2>6 DEF TypeOK
<1> QED
  BY <1>1, <1>2, <1>3, <1>4, <1>5 DEF Next, End

\* The two Redis keys of RedisCircuitBreaker always hold what its scripts
\* expect to read.
THEOREM RedisTypeCorrect == Spec => []TypeOK
<1>1. ASSUME Init PROVE TypeOK
  <2>1. fails \in Seq(Stamp) /\ opened \in Stamp
    BY <1>1, NowType DEF Init
  <2>2. flag \in BOOLEAN
    BY <1>1 DEF Init
  <2>3. stateTtl \in 0 .. Ttl /\ failTtl \in 0 .. Ttl
    BY <1>1, RedisBreakerAssumption DEF Init
  <2>4. /\ state \in {"none", "closed", "open", "half_open"}
        /\ pc \in [Caller -> {"idle", "call", "probe"}]
    BY <1>1 DEF Init
  <2> QED
    BY <2>1, <2>2, <2>3, <2>4 DEF TypeOK
<1> QED
  BY <1>1, TypeStep, PTL DEF Spec

-----------------------------------------------------------------------------
(* The wrapped breaker *)

\* The wrappers move the breaker only by its own scripts.
LEMMA BreakerStep == [CallsNext]_allVars => [Next]_vars
<1> SUFFICES ASSUME [CallsNext]_allVars PROVE [Next]_vars
  OBVIOUS
<1>1. CASE UNCHANGED allVars
  BY <1>1 DEF allVars, breaker, keys, vars
<1>2. CASE TimePasses
  BY <1>2 DEF TimePasses, Next
<1>4. CASE Foreign
  BY <1>4 DEF Foreign, breaker, keys, vars
<1>3. ASSUME NEW c \in Caller, Begin(c) \/ BeginFails(c) \/ Step(c)
      PROVE  [Next]_vars
  <2>1. CASE Begin(c) \/ BeginFails(c) \/ Check(c) \/ CheckFails(c)
               \/ Acquire(c) \/ AcquireFails(c)
    BY <2>1 DEF Begin, BeginFails, Check, CheckFails, Acquire, AcquireFails, breaker,
       keys, vars
  <2>2. CASE Reject(c) \/ GateFails(c) \/ Complete(c) \/ Search(c) \/ Create(c)
    BY <2>2 DEF Reject, GateFails, Complete, Search, Create, breaker, keys, vars
  <2>3. CASE Meter(c) \/ MeterFails(c) \/ Deliver(c) \/ DeliverFails(c) \/ Returns(c)
    BY <2>3 DEF Meter, MeterFails, Deliver, DeliverFails, Returns, breaker, keys, vars
  <2>4. CASE Admit(c)
    BY <2>4 DEF Admit, Next
  <2>5. CASE Record(c)
    <3>1. ProbeEnds(c) \/ CallFails(c) \/ CallEnds(c)
      BY <2>5 DEF Record
    <3> QED
      BY <3>1 DEF Next, End
  <2>6. CASE RecordFails(c)
    BY <2>6 DEF RecordFails, Next, End
  <2>7. CASE Die(c)
    <3>1. OutcomeLost(c) \/ UNCHANGED <<keys, pc>>
      BY <2>7 DEF Die
    <3>2. CASE OutcomeLost(c)
      BY <3>2 DEF Next, End
    <3>3. CASE UNCHANGED <<keys, pc>>
      BY <3>3 DEF keys, vars
    <3> QED
      BY <3>1, <3>2, <3>3
  <2> QED
    BY <1>3, <2>1, <2>2, <2>3, <2>4, <2>5, <2>6, <2>7 DEF Step
<1> QED
  BY <1>1, <1>2, <1>3, <1>4 DEF CallsNext

\* The decorators around both providers use the shared breaker only as
\* RedisBreaker specifies it: whatever is proved of the breaker alone holds
\* of the breaker inside the client stacks.
THEOREM CallsUseTheBreaker == CallsSpec => Spec
<1>1. CallsInit => Init
  BY DEF CallsInit
<1> QED
  BY <1>1, BreakerStep, PTL DEF CallsSpec, Spec

\* In the client stacks too, a breaker state that nobody reports on expires.
THEOREM WrappedStateExpires == CallsSpec => []StateExpires
BY CallsUseTheBreaker, StoredStateExpires, PTL

-----------------------------------------------------------------------------
(* Refusals *)

\* Pruning never lengthens a log.
LEMMA PrunedLen ==
  ASSUME NEW c \in Caller, NEW f \in Seq(Stamp)
  PROVE  Len(Pruned(c, f)) <= Len(f)
<1>1. Stale(c, f) \subseteq 1 .. Len(f) /\ IsFiniteSet(1 .. Len(f))
  BY FS_Interval DEF Stale
<1>2. IsFiniteSet(Stale(c, f))
  BY <1>1, FS_Subset
<1>3. Cardinality(Stale(c, f)) \in Nat
  BY <1>2, FS_CardinalityType
<1> DEFINE m == Cardinality(Stale(c, f)) + 1
<1>4. m \in Nat \ {0}
  BY <1>3
<1> HIDE DEF m
<1>5. Len(SubSeq(f, m, Len(f))) <= Len(f)
  BY <1>4
<1> QED
  BY <1>5 DEF Pruned, m

\* Every failure on record has been counted.
CountInv ==
  /\ fails \in Seq(Stamp)
  /\ failures \in Nat
  /\ Len(fails) <= failures

\* A tick drops the log or leaves its length.
LEMMA CountTick == ASSUME CountInv, TimePasses PROVE CountInv'
<1>1. failures' = IF fails' = <<>> THEN 0 ELSE failures
  BY DEF TimePasses
<1>2. CASE failTtl = 1
  <2>1. fails' = <<>>
    BY <1>2 DEF TimePasses, Tick
  <2> QED
    BY <1>1, <2>1 DEF CountInv
<1>3. CASE failTtl # 1
  <2>1. fails' = [i \in 1 .. Len(fails) |-> Older(fails[i])]
    BY <1>3 DEF TimePasses, Tick
  <2>2. fails' \in Seq(Stamp) /\ Len(fails') = Len(fails)
    BY <2>1, OlderType DEF CountInv
  <2>3. CASE fails' = <<>>
    BY <1>1, <2>3 DEF CountInv
  <2>4. CASE fails' # <<>>
    BY <1>1, <2>2, <2>4 DEF CountInv
  <2> QED
    BY <2>3, <2>4
<1> QED
  BY <1>2, <1>3

\* What a recorded outcome does to the log.
LEMMA CountRecord == ASSUME CountInv, NEW c \in Caller, Record(c) PROVE CountInv'
<1>1. failures' = IF fails' = <<>> THEN 0
                  ELSE IF call[c].out = "failed" THEN failures + 1 ELSE failures
  BY DEF Record
<1>2. CASE fails' = <<>>
  BY <1>1, <1>2 DEF CountInv
<1>3. CASE fails' # <<>>
  <2>1. ~(pc[c] = "probe" /\ ProbeEnds(c))
    BY <1>3 DEF ProbeEnds
  <2>2. CASE call[c].out # "failed"
    <3>1. fails' = fails
      BY <2>1, <2>2 DEF Record, Counts, CallEnds, keys
    <3> QED
      BY <1>1, <1>3, <2>2, <3>1 DEF CountInv
  <2>3. CASE call[c].out = "failed"
    <3> DEFINE g == Append(fails, Now(c))
               f == Pruned(c, g)
    <3>1. CallFails(c)
      BY <2>1, <2>3 DEF Record, Counts
    <3>2. fails' = f
      BY <1>3, <3>1 DEF CallFails
    <3>3. g \in Seq(Stamp) /\ Len(g) = Len(fails) + 1
      BY NowType DEF CountInv
    <3> HIDE DEF g
    <3>4. f \in Seq(Stamp) /\ Len(f) <= Len(g)
      BY <3>3, PrunedType, PrunedLen
    <3> HIDE DEF f
    <3>5. failures' = failures + 1
      BY <1>1, <1>3, <2>3
    <3>6. Len(fails) \in Nat /\ Len(f) \in Nat
      BY <3>4 DEF CountInv
    <3> QED
      BY <3>2, <3>3, <3>4, <3>5, <3>6 DEF CountInv
  <2> QED
    BY <2>2, <2>3
<1> QED
  BY <1>2, <1>3

LEMMA CountStep == CountInv /\ [CallsNext]_allVars => CountInv'
<1> SUFFICES ASSUME CountInv, [CallsNext]_allVars PROVE CountInv'
  OBVIOUS
<1>1. ASSUME fails' = fails, failures' = failures PROVE CountInv'
  BY <1>1 DEF CountInv
<1>2. CASE UNCHANGED allVars \/ Foreign
  BY <1>1, <1>2 DEF allVars, Foreign, breaker, keys
<1>3. CASE TimePasses
  BY <1>3, CountTick
<1>4. ASSUME NEW c \in Caller, Begin(c) \/ BeginFails(c) \/ Step(c) PROVE CountInv'
  <2>1. CASE Begin(c) \/ BeginFails(c) \/ Check(c) \/ CheckFails(c)
               \/ Acquire(c) \/ AcquireFails(c)
    BY <1>1, <2>1 DEF Begin, BeginFails, Check, CheckFails, Acquire, AcquireFails,
       breaker, keys
  <2>2. CASE Reject(c) \/ GateFails(c) \/ Complete(c) \/ Search(c) \/ Create(c)
    BY <1>1, <2>2 DEF Reject, GateFails, Complete, Search, Create, breaker, keys
  <2>3. CASE Meter(c) \/ MeterFails(c) \/ Deliver(c) \/ DeliverFails(c) \/ Returns(c)
    BY <1>1, <2>3 DEF Meter, MeterFails, Deliver, DeliverFails, Returns, breaker, keys
  <2>4. CASE Admit(c)
    BY <1>1, <2>4 DEF Admit, Pass, Probe, keys
  <2>5. CASE RecordFails(c) \/ Die(c)
    BY <1>1, <2>5 DEF RecordFails, Die, OutcomeLost, keys
  <2>6. CASE Record(c)
    BY <2>6, CountRecord
  <2> QED
    BY <1>4, <2>1, <2>2, <2>3, <2>4, <2>5, <2>6 DEF Step
<1> QED
  BY <1>2, <1>3, <1>4 DEF CallsNext

LEMMA CountInit == CallsInit => CountInv
<1> SUFFICES ASSUME CallsInit PROVE CountInv
  OBVIOUS
<1>1. fails = <<>> /\ failures = 0
  BY DEF CallsInit, Init
<1> QED
  BY <1>1 DEF CountInv

\* CircuitBreakingLLMClient and CircuitBreakingGitProvider: a breaker that
\* lets calls through is opened by a threshold of failures, none of them a
\* refusal, or by a probe of an earlier phase.  A refused probe of the
\* present phase does open the breaker again; the theorem leaves it out.
THEOREM RefusalsNeverTrip == CallsSpec => RefusalsDoNotTrip
<1> DEFINE Trip == state \in {"none", "closed"} /\ state' = "open"
           Blamed == \E c \in Caller :
                       /\ At(c, "record")
                       /\ \/ pc[c] = "probe"
                          \/ call[c].out = "failed" /\ failures + 1 >= Threshold
<1>1. ASSUME CountInv, [CallsNext]_allVars, Trip PROVE Blamed
  <2>1. state' # state
    BY <1>1
  <2>2. ~ UNCHANGED allVars /\ ~Foreign
    BY <2>1 DEF allVars, Foreign, breaker, keys
  <2>3. ~ TimePasses
    BY <1>1 DEF TimePasses, Tick
  <2>4. PICK c \in Caller : Begin(c) \/ BeginFails(c) \/ Step(c)
    BY <1>1, <2>2, <2>3 DEF CallsNext
  <2>5. ~ (Begin(c) \/ BeginFails(c) \/ Check(c) \/ CheckFails(c)
             \/ Acquire(c) \/ AcquireFails(c))
    BY <2>1 DEF Begin, BeginFails, Check, CheckFails, Acquire, AcquireFails, breaker, keys
  <2>6. ~ (Reject(c) \/ GateFails(c) \/ Complete(c) \/ Search(c) \/ Create(c))
    BY <2>1 DEF Reject, GateFails, Complete, Search, Create, breaker, keys
  <2>7. ~ (Meter(c) \/ MeterFails(c) \/ Deliver(c) \/ DeliverFails(c) \/ Returns(c))
    BY <2>1 DEF Meter, MeterFails, Deliver, DeliverFails, Returns, breaker, keys
  <2>8. ~ Admit(c)
    BY <1>1 DEF Admit, Pass, Probe, keys
  <2>9. ~ (RecordFails(c) \/ Die(c))
    BY <2>1 DEF RecordFails, Die, OutcomeLost, keys
  <2>10. Record(c)
    BY <2>4, <2>5, <2>6, <2>7, <2>8, <2>9 DEF Step
  <2>11. CASE pc[c] = "probe"
    BY <2>10, <2>11 DEF Record
  <2>12. CASE pc[c] # "probe"
    <3>1. call[c].out = "failed" /\ CallFails(c)
      BY <2>1, <2>10, <2>12 DEF Record, Counts, CallEnds, keys
    <3> DEFINE g == Append(fails, Now(c))
               f == Pruned(c, g)
    <3>2. Len(f) >= Threshold
      BY <2>1, <3>1 DEF CallFails, Trips
    <3>3. g \in Seq(Stamp) /\ Len(g) = Len(fails) + 1
      BY <1>1, NowType DEF CountInv
    <3> HIDE DEF g
    <3>4. f \in Seq(Stamp) /\ Len(f) <= Len(g)
      BY <3>3, PrunedType, PrunedLen
    <3> HIDE DEF f
    <3>5. Len(fails) \in Nat /\ Len(f) \in Nat /\ failures \in Nat /\ Len(fails) <= failures
      BY <1>1, <3>4 DEF CountInv
    <3>6. failures + 1 >= Threshold
      BY <3>2, <3>3, <3>4, <3>5, RedisBreakerAssumption
    <3> QED
      BY <2>10, <3>1, <3>6 DEF Record
  <2> QED
    BY <2>11, <2>12
<1>2. CountInv /\ [CallsNext]_allVars => [Trip => Blamed]_allVars
  BY <1>1
<1> QED
  BY <1>2, CountInit, CountStep, PTL DEF CallsSpec, RefusalsDoNotTrip
-----------------------------------------------------------------------------
(* Attempts *)

CallRec ==
  [at : {"idle", "check", "acquire", "gate", "send", "create", "record",
         "meter", "deliver", "return"},
   tries : 0 .. MaxRetries, sent : Nat, alone : BOOLEAN,
   out : {"none", "refused", "failed"} \cup Succeeded]

\* What a request may come to, and what a call does.
Outcome == {"refused", "failed"} \cup Succeeded
Answer == Outcome \cup {"transient"}

\* Requests of one pass through the HTTP client, and those of the protected
\* pass before an unprotected one.
Allowance == IF stack = "llm" THEN MaxRetries + 1 ELSE (MaxRetries + 1) + (MaxRetries + 1)
Before(r) == IF r.alone THEN Allowance ELSE 0

\* How many requests a call can have made at each stage.
SentOK(r) ==
  /\ r.at \in {"idle", "check", "acquire", "gate"} =>
       r.sent = 0 /\ r.tries = 0 /\ ~r.alone
  /\ r.at = "send" => r.sent <= Before(r) + r.tries
  /\ r.at = "create" => stack = "git" /\ r.sent <= Before(r) + MaxRetries + 1 + r.tries
  /\ r.at = "record" =>
       ~r.alone /\ r.tries = 0 /\ r.sent <= Allowance /\ r.out # "none"
  /\ r.at \in {"meter", "deliver"} => stack = "llm" /\ r.sent <= Before(r) + Allowance
  /\ r.at = "return" => stack = "git" /\ r.sent <= Before(r) + Allowance

CallOK(r) == r \in CallRec /\ SentOK(r)

LocalInv ==
  /\ stack \in {"llm", "git"}
  /\ call \in [Caller -> CallRec]
  /\ \A c \in Caller : SentOK(call[c])

\* A call that is not running is fine.
LEMMA NoCallOK == ASSUME stack \in {"llm", "git"} PROVE CallOK(NoCall)
BY CallsAssumption DEF CallOK, CallRec, NoCall, SentOK, Before, Allowance

\* What remains of a call whose outcome is known.
LEMMA SettledOK ==
  ASSUME stack \in {"llm", "git"}, NEW r \in CallRec, NEW out \in Outcome,
         r.sent <= Before(r) + Allowance
  PROVE  CallOK(Settled(r, out))
<1> DEFINE at == IF stack = "llm" THEN "meter" ELSE "return"
           q == [r EXCEPT !.at = at, !.tries = 0, !.out = out]
<1>1. Settled(r, out) = q
  BY DEF Settled
<1>2. 0 \in 0 .. MaxRetries /\ at \in {"meter", "return"}
  BY CallsAssumption
<1>3. q \in CallRec /\ q.at = at /\ q.sent = r.sent /\ q.alone = r.alone
  BY <1>2 DEF CallRec, Outcome
<1>4. Before(q) = Before(r)
  BY <1>3 DEF Before
<1> HIDE DEF q
<1>5. SentOK(q)
  BY <1>3, <1>4 DEF SentOK
<1> QED
  BY <1>1, <1>3, <1>5 DEF CallOK

\* One call moves, to a state that is fine, and the others stay.
Moves(c) == \E r \in CallRec : SentOK(r) /\ call' = [call EXCEPT ![c] = r]

\* An attempt is retried while the budget lasts, or handed on.
LEMMA AttemptedOK ==
  ASSUME LocalInv, NEW c \in Caller,
         NEW out \in Answer,
         NEW next \in {"record", "create"},
         next = "create" => stack = "git" /\ At(c, "send") /\ out # "transient",
         At(c, "send") \/ (At(c, "create") /\ next = "record"),
         Attempted(c, out, next)
  PROVE  Moves(c)
<1> DEFINE r == [call[c] EXCEPT !.sent = @ + 1, !.tries = 0]
           o == IF out = "transient" THEN "failed" ELSE out
<1>0. call[c] \in CallRec /\ SentOK(call[c])
  BY DEF LocalInv
<1>10. 0 \in 0 .. MaxRetries /\ call[c].sent + 1 \in Nat
  BY <1>0, CallsAssumption DEF CallRec
<1>11. r \in CallRec
  BY <1>0, <1>10 DEF CallRec
<1>12. o \in Outcome
  BY DEF Answer, Outcome
<1>1. r \in CallRec /\ o \in Outcome
  BY <1>11, <1>12
<1>2. /\ r.sent = call[c].sent + 1 /\ r.tries = 0
      /\ r.alone = call[c].alone /\ r.at = call[c].at
  BY <1>0 DEF CallRec
<1>3. /\ MaxRetries \in Nat /\ call[c].tries \in 0 .. MaxRetries /\ call[c].sent \in Nat
      /\ Before(r) = Before(call[c]) /\ Before(r) \in Nat /\ Allowance \in Nat
  BY <1>0, <1>2, CallsAssumption DEF CallRec, Before, Allowance
<1>4. /\ At(c, "send") => r.sent <= Before(r) + call[c].tries + 1
      /\ At(c, "create") => /\ r.sent <= Before(r) + MaxRetries + 1 + call[c].tries + 1
                            /\ stack = "git"
  BY <1>0, <1>2, <1>3 DEF SentOK, At
<1>5. r.sent <= Before(r) + Allowance
  BY <1>3, <1>4 DEF Allowance, LocalInv
<1> HIDE DEF r, o
<1>6. CASE out = "transient" /\ MayRetry(c)
  <2> DEFINE q == [r EXCEPT !.tries = call[c].tries + 1]
  <2>1. call' = [call EXCEPT ![c] = q]
    BY <1>6 DEF Attempted, r
  <2>2. /\ q \in CallRec /\ q.tries = call[c].tries + 1 /\ q.sent = r.sent
        /\ q.alone = r.alone /\ q.at = call[c].at
    BY <1>1, <1>2, <1>3, <1>6 DEF CallRec, MayRetry
  <2>3. Before(q) = Before(r)
    BY <2>2 DEF Before
  <2> HIDE DEF q
  <2>4. SentOK(q)
    BY <2>2, <2>3, <1>2, <1>3, <1>4 DEF SentOK, At
  <2> QED
    BY <2>1, <2>2, <2>4 DEF Moves
<1>7. CASE ~(out = "transient" /\ MayRetry(c)) /\ next # "record"
  <2> DEFINE q == [r EXCEPT !.at = "create"]
  <2>1. call' = [call EXCEPT ![c] = q]
    BY <1>7 DEF Attempted, r
  <2>2. /\ q \in CallRec /\ q.tries = 0 /\ q.sent = r.sent
        /\ q.alone = r.alone /\ q.at = "create"
    BY <1>1, <1>2 DEF CallRec
  <2>3. Before(q) = Before(r)
    BY <2>2 DEF Before
  <2> HIDE DEF q
  <2>5. At(c, "send") /\ stack = "git"
    BY <1>7
  <2>6. q.sent <= Before(q) + MaxRetries + 1 + q.tries
    BY <2>2, <2>3, <2>5, <1>2, <1>3, <1>4
  <2>4. SentOK(q)
    BY <2>2, <2>5, <2>6 DEF SentOK
  <2> QED
    BY <2>1, <2>2, <2>4 DEF Moves
<1>8. CASE ~(out = "transient" /\ MayRetry(c)) /\ next = "record" /\ r.alone
  <2>1. call' = [call EXCEPT ![c] = Settled(r, o)]
    BY <1>8 DEF Attempted, r, o
  <2>2. CallOK(Settled(r, o))
    BY <1>1, <1>5, SettledOK DEF LocalInv
  <2> QED
    BY <2>1, <2>2 DEF Moves, CallOK
<1>9. CASE ~(out = "transient" /\ MayRetry(c)) /\ next = "record" /\ ~r.alone
  <2> DEFINE q == [r EXCEPT !.at = "record", !.out = o]
  <2>1. call' = [call EXCEPT ![c] = q]
    BY <1>9 DEF Attempted, r, o
  <2>2. /\ q \in CallRec /\ q.tries = 0 /\ q.sent = r.sent
        /\ ~q.alone /\ q.at = "record" /\ q.out = o
    BY <1>1, <1>2, <1>9 DEF CallRec, Outcome
  <2>3. Before(r) = 0 /\ o # "none"
    BY <1>1, <1>9 DEF Before, Outcome, Succeeded
  <2> HIDE DEF q
  <2>4. SentOK(q)
    BY <2>2, <2>3, <1>1, <1>3, <1>5 DEF SentOK
  <2> QED
    BY <2>1, <2>2, <2>4 DEF Moves
<1> QED
  BY <1>6, <1>7, <1>8, <1>9
\* A call goes to another stage with its counters as they are.
LEMMA GoToOK ==
  ASSUME LocalInv, NEW c \in Caller, NEW at \in {"acquire", "gate", "send", "deliver"},
         At(c, "check") \/ At(c, "acquire") \/ At(c, "gate")
           \/ (At(c, "meter") /\ at = "deliver"),
         at = "deliver" => At(c, "meter"),
         GoTo(c, at)
  PROVE  Moves(c)
<1> DEFINE q == [call[c] EXCEPT !.at = at]
<1>1. call[c] \in CallRec /\ SentOK(call[c])
  BY DEF LocalInv
<1>2. call' = [call EXCEPT ![c] = q]
  BY DEF GoTo
<1>3. /\ q \in CallRec /\ q.at = at /\ q.tries = call[c].tries
      /\ q.sent = call[c].sent /\ q.alone = call[c].alone
  BY <1>1 DEF CallRec
<1>4. Before(q) = Before(call[c])
  BY <1>3 DEF Before
<1> HIDE DEF q
<1>5. CASE at = "deliver"
  <2>1. stack = "llm" /\ q.sent <= Before(q) + Allowance
    BY <1>1, <1>3, <1>4, <1>5 DEF SentOK, At
  <2>2. SentOK(q)
    BY <2>1, <1>3, <1>5 DEF SentOK
  <2> QED
    BY <2>2, <1>2, <1>3 DEF Moves
<1>6. CASE at # "deliver"
  <2>1. q.sent = 0 /\ q.tries = 0 /\ ~q.alone
    BY <1>1, <1>3, <1>6 DEF SentOK, At
  <2>2. Before(q) = 0
    BY <2>1 DEF Before
  <2>3. SentOK(q)
    BY <2>1, <2>2, <1>3, <1>6 DEF SentOK
  <2> QED
    BY <2>3, <1>2, <1>3 DEF Moves
<1> QED
  BY <1>5, <1>6

\* A call that returns, whatever became of it.
LEMMA ReturnOK == ASSUME LocalInv, NEW c \in Caller, Return(c) PROVE Moves(c)
BY NoCallOK DEF LocalInv, Return, Moves, CallOK

\* Both failures of the breaker's backend: the call goes on unprotected.
LEMMA AloneOK ==
  ASSUME LocalInv, NEW c \in Caller, NEW out \in Outcome \cup {"none"},
         At(c, "gate") \/ At(c, "record"),
         call' = [call EXCEPT ![c] =
                    [call[c] EXCEPT !.at = "send", !.alone = TRUE, !.out = out]]
  PROVE  Moves(c)
<1> DEFINE q == [call[c] EXCEPT !.at = "send", !.alone = TRUE, !.out = out]
<1>1. call[c] \in CallRec /\ SentOK(call[c])
  BY DEF LocalInv
<1>2. /\ q \in CallRec /\ q.at = "send" /\ q.tries = call[c].tries
      /\ q.sent = call[c].sent /\ q.alone
  BY <1>1 DEF CallRec, Outcome
<1>3. Allowance \in Nat
  BY CallsAssumption DEF Allowance
<1>4. q.sent <= Allowance /\ q.tries = 0
  BY <1>1, <1>2, <1>3 DEF SentOK, At
<1>5. Before(q) = Allowance
  BY <1>2 DEF Before
<1>6. q.sent \in Nat
  BY <1>1, <1>2 DEF CallRec
<1> HIDE DEF q
<1>7. SentOK(q)
  BY <1>2, <1>3, <1>4, <1>5, <1>6 DEF SentOK
<1> QED
  BY <1>2, <1>7 DEF Moves, q

\* The outcome reaches the meter, or the graph.
LEMMA RecordedOK ==
  ASSUME LocalInv, NEW c \in Caller, At(c, "record"),
         call[c].out \in Outcome,
         call' = [call EXCEPT ![c] = Settled(@, @.out)]
  PROVE  Moves(c)
<1>1. call[c] \in CallRec /\ SentOK(call[c])
  BY DEF LocalInv
<1>2. Allowance \in Nat /\ call[c].sent \in Nat
  BY <1>1, CallsAssumption DEF Allowance, CallRec
<1>3. Before(call[c]) = 0 /\ call[c].sent <= Allowance
  BY <1>1 DEF SentOK, At, Before
<1>4. CallOK(Settled(call[c], call[c].out))
  BY <1>1, <1>2, <1>3, SettledOK DEF LocalInv
<1> QED
  BY <1>4 DEF Moves, CallOK, LocalInv
\* A call that the open breaker refuses goes to the meter.
LEMMA RejectedOK ==
  ASSUME LocalInv, NEW c \in Caller, At(c, "gate"), LlmRejected(c) \/ GitRejected(c)
  PROVE  Moves(c)
<1> DEFINE q == [call[c] EXCEPT !.at = "meter", !.out = "failed"]
<1>1. call[c] \in CallRec /\ SentOK(call[c])
  BY DEF LocalInv
<1>2. CASE GitRejected(c)
  BY <1>2, ReturnOK DEF GitRejected
<1>3. CASE LlmRejected(c)
  <2>1. call' = [call EXCEPT ![c] = q]
    BY <1>3 DEF LlmRejected
  <2>2. /\ q \in CallRec /\ q.at = "meter" /\ q.sent = call[c].sent
        /\ q.alone = call[c].alone
    BY <1>1 DEF CallRec
  <2>3. q.sent = 0 /\ ~q.alone
    BY <1>1, <2>2 DEF SentOK, At
  <2>4. Before(q) = 0 /\ Allowance \in Nat
    BY <2>3, CallsAssumption DEF Before, Allowance
  <2> HIDE DEF q
  <2>5. SentOK(q)
    BY <1>3, <2>2, <2>3, <2>4 DEF SentOK, LlmRejected
  <2> QED
    BY <2>1, <2>2, <2>5 DEF Moves
<1> QED
  BY <1>2, <1>3

\* A call that begins.
LEMMA BeginOK == ASSUME LocalInv, NEW c \in Caller, Begin(c) PROVE Moves(c)
<1> DEFINE at == IF stack = "llm" THEN "check" ELSE "acquire"
           q == [call[c] EXCEPT !.at = at]
<1>1. call[c] \in CallRec /\ SentOK(call[c]) /\ At(c, "idle")
  BY DEF LocalInv, Begin
<1>2. call' = [call EXCEPT ![c] = q]
  BY DEF Begin, GoTo
<1>3. /\ q \in CallRec /\ q.at \in {"check", "acquire"} /\ q.tries = call[c].tries
      /\ q.sent = call[c].sent /\ q.alone = call[c].alone
  BY <1>1 DEF CallRec
<1>4. q.sent = 0 /\ q.tries = 0 /\ ~q.alone
  BY <1>1, <1>3 DEF SentOK, At
<1> HIDE DEF q
<1>5. SentOK(q)
  BY <1>3, <1>4 DEF SentOK
<1> QED
  BY <1>2, <1>3, <1>5 DEF Moves

\* Every step of a call leaves its counters within their bounds.
LEMMA StepMoves == ASSUME LocalInv, NEW c \in Caller, Step(c) PROVE Moves(c)
<1>1. CASE Check(c)
  <2>1. CASE Decision(c).allowed
    BY <1>1, <2>1, GoToOK DEF Check
  <2>2. CASE ~Decision(c).allowed
    BY <1>1, <2>2, ReturnOK DEF Check, OverBudget
  <2> QED
    BY <2>1, <2>2
<1>2. CASE CheckFails(c) \/ AcquireFails(c) \/ Admit(c)
  BY <1>2, GoToOK DEF CheckFails, AcquireFails, Admit
<1>3. CASE Acquire(c)
  BY <1>3, GoToOK, ReturnOK DEF Acquire, Granted, LlmDenied, GitDenied
<1>4. CASE Reject(c)
  BY <1>4, RejectedOK DEF Reject
<1>5. CASE GateFails(c)
  <2>1. /\ call[c] \in CallRec /\ At(c, "gate")
        /\ call' = [call EXCEPT ![c].at = "send", ![c].alone = TRUE]
    BY <1>5 DEF GateFails, LocalInv
  <2>2. [call[c] EXCEPT !.at = "send", !.alone = TRUE]
          = [call[c] EXCEPT !.at = "send", !.alone = TRUE, !.out = call[c].out]
    BY <2>1 DEF CallRec
  <2>3. call' = [call EXCEPT ![c] = [call[c] EXCEPT !.at = "send", !.alone = TRUE]]
    BY <2>1
  <2>4. call[c].out \in Outcome \cup {"none"}
    BY <2>1 DEF CallRec, Outcome
  <2> QED
    BY <2>1, <2>2, <2>3, <2>4, AloneOK
<1>6. CASE Complete(c)
  <2>1. \E out \in Answer : Attempted(c, out, "record")
    BY <1>6 DEF Complete, Unanswered, Errors, Decoded, Reply, Answer, Outcome, Succeeded
  <2> QED
    BY <1>6, <2>1, AttemptedOK DEF Complete
<1>7. CASE Search(c)
  <2>1. \/ \E out \in Answer : Attempted(c, out, "record")
        \/ Attempted(c, "ok", "create")
    BY <1>7 DEF Search, Classified, Built, Answer, Outcome, Succeeded
  <2>2. stack = "git" /\ At(c, "send")
    BY <1>7 DEF Search
  <2>3. CASE Attempted(c, "ok", "create")
    BY <2>2, <2>3, AttemptedOK DEF Answer, Outcome, Succeeded
  <2>4. CASE \E out \in Answer : Attempted(c, out, "record")
    BY <2>2, <2>4, AttemptedOK
  <2> QED
    BY <2>1, <2>3, <2>4
<1>8. CASE Create(c)
  <2>1. \E out \in Answer : Attempted(c, out, "record")
    BY <1>8 DEF Create, Classified, Built, Answer, Outcome, Succeeded
  <2> QED
    BY <1>8, <2>1, AttemptedOK DEF Create
<1>9. CASE Record(c)
  <2>1. At(c, "record") /\ call' = [call EXCEPT ![c] = Settled(@, @.out)]
    BY <1>9 DEF Record
  <2>2. call[c].out \in Outcome
    BY <2>1 DEF LocalInv, CallRec, SentOK, At, Outcome
  <2> QED
    BY <2>1, <2>2, RecordedOK
<1>10. CASE RecordFails(c)
  <2>1. /\ At(c, "record")
        /\ call' = [call EXCEPT ![c] =
             [call[c] EXCEPT !.at = "send", !.alone = TRUE, !.out = "none"]]
    BY <1>10 DEF RecordFails
  <2> QED
    BY <2>1, AloneOK
<1>11. CASE Meter(c) \/ MeterFails(c)
  <2>1. At(c, "meter") /\ (GoTo(c, "deliver") \/ Return(c))
    BY <1>11 DEF Meter, MeterFails, HandOn
  <2> QED
    BY <2>1, GoToOK, ReturnOK
<1>12. CASE Deliver(c) \/ DeliverFails(c) \/ Returns(c) \/ Die(c)
  BY <1>12, ReturnOK DEF Deliver, DeliverFails, Returns, Die
<1> QED
  BY <1>1, <1>2, <1>3, <1>4, <1>5, <1>6, <1>7, <1>8, <1>9, <1>10, <1>11, <1>12 DEF Step

\* The provider stack is chosen when the process is wired.
LEMMA StackFixed == [CallsNext]_allVars => stack' = stack
<1> SUFFICES ASSUME [CallsNext]_allVars PROVE stack' = stack
  OBVIOUS
<1>1. ASSUME NEW c \in Caller, Begin(c) \/ BeginFails(c) \/ Step(c) PROVE stack' = stack
  BY <1>1 DEF Begin, BeginFails, Step, Check, CheckFails, Acquire, AcquireFails, Admit,
     Reject, GateFails, Complete, Search, Create, Record, RecordFails, Meter, MeterFails,
     Deliver, DeliverFails, Returns, Die
<1> QED
  BY <1>1 DEF CallsNext, TimePasses, Foreign, allVars

LEMMA LocalStep == LocalInv /\ [CallsNext]_allVars => LocalInv'
<1> SUFFICES ASSUME LocalInv, [CallsNext]_allVars PROVE LocalInv'
  OBVIOUS
<1>1. stack' = stack
  BY StackFixed
<1>2. CASE call' = call
  BY <1>1, <1>2 DEF LocalInv, SentOK, Before, Allowance
<1>3. CASE \E c \in Caller : Moves(c)
  <2>1. PICK c \in Caller, r \in CallRec : SentOK(r) /\ call' = [call EXCEPT ![c] = r]
    BY <1>3 DEF Moves
  <2>2. call' \in [Caller -> CallRec]
    BY <2>1 DEF LocalInv
  <2>3. ASSUME NEW d \in Caller PROVE SentOK(call'[d])
    <3>1. CASE d = c
      BY <2>1, <3>1 DEF LocalInv
    <3>2. CASE d # c
      <4>1. call'[d] = call[d]
        BY <2>1, <3>2 DEF LocalInv
      <4> QED
        BY <4>1 DEF LocalInv
    <3> QED
      BY <3>1, <3>2
  <2>4. \A d \in Caller : SentOK(call[d])'
    BY <1>1, <2>3 DEF SentOK, Before, Allowance
  <2> QED
    BY <1>1, <2>2, <2>4 DEF LocalInv
<1>4. CASE UNCHANGED allVars \/ TimePasses \/ Foreign
  BY <1>2, <1>4 DEF allVars, TimePasses, Foreign
<1>5. ASSUME NEW c \in Caller, Begin(c) \/ BeginFails(c) \/ Step(c) PROVE LocalInv'
  <2>1. CASE BeginFails(c)
    BY <1>2, <2>1 DEF BeginFails
  <2>2. CASE Begin(c)
    BY <1>3, <2>2, BeginOK
  <2>3. CASE Step(c)
    BY <1>3, <2>3, StepMoves
  <2> QED
    BY <1>5, <2>1, <2>2, <2>3
<1> QED
  BY <1>4, <1>5 DEF CallsNext

LEMMA LocalInit == CallsInit => LocalInv
<1> SUFFICES ASSUME CallsInit PROVE LocalInv
  OBVIOUS
<1>1. stack \in {"llm", "git"} /\ call = [c \in Caller |-> NoCall]
  BY DEF CallsInit
<1>2. CallOK(NoCall)
  BY <1>1, NoCallOK
<1> QED
  BY <1>1, <1>2 DEF LocalInv, CallOK

\* OpenRouterClient.complete and GitHubGitProvider._request_with_retry under
\* the circuit breaking wrappers: however the requests end, a call makes at
\* most one pass of its retry budget, two when the breaker's backend failed.
THEOREM AttemptsAreBounded == CallsSpec => []AttemptsBounded
<1>1. LocalInv => AttemptsBounded
  <2> SUFFICES ASSUME LocalInv, NEW c \in Caller
               PROVE  call[c].sent <=
                        (MaxRetries + 1) * (IF stack = "llm" THEN 1 ELSE 2)
                          * (IF call[c].alone THEN 2 ELSE 1)
    BY DEF AttemptsBounded
  <2>1. call[c] \in CallRec /\ SentOK(call[c]) /\ stack \in {"llm", "git"}
    BY DEF LocalInv
  <2>2. /\ MaxRetries \in Nat /\ call[c].tries \in 0 .. MaxRetries /\ call[c].sent \in Nat
        /\ Allowance \in Nat /\ Before(call[c]) \in Nat
    BY <2>1, CallsAssumption DEF CallRec, Before, Allowance
  <2>3. call[c].sent <= Before(call[c]) + Allowance
    <3>1. call[c].at \in {"idle", "check", "acquire", "gate", "send", "create", "record",
                          "meter", "deliver", "return"}
      BY <2>1 DEF CallRec
    <3>2. CASE call[c].at \in {"idle", "check", "acquire", "gate"}
      BY <2>1, <2>2, <3>2 DEF SentOK
    <3>3. CASE call[c].at = "send"
      BY <2>1, <2>2, <3>3 DEF SentOK, Allowance
    <3>4. CASE call[c].at = "create"
      BY <2>1, <2>2, <3>4 DEF SentOK, Allowance
    <3>5. CASE call[c].at \in {"record", "meter", "deliver", "return"}
      BY <2>1, <2>2, <3>5 DEF SentOK
    <3> QED
      BY <3>1, <3>2, <3>3, <3>4, <3>5
  <2>4. CASE call[c].alone
    BY <2>1, <2>2, <2>3, <2>4 DEF Before, Allowance
  <2>5. CASE ~call[c].alone
    BY <2>1, <2>2, <2>3, <2>5 DEF Before, Allowance
  <2> QED
    BY <2>4, <2>5
<1> QED
  BY <1>1, LocalInit, LocalStep, PTL DEF CallsSpec
-----------------------------------------------------------------------------
(* Publications *)

Published == {"created", "reused"}
Running == {"idle", "check", "acquire", "gate", "send", "create"}

\* What a caller reports is true of the branch.
TrueOf(c) ==
  /\ call[c].out \in Published => pr = "open"
  /\ call[c].out = "reused" => head = "ours"

\* A call that is still asking has no outcome, and the outcomes of the others
\* are true unless the branch has been touched since.
PublishInv ==
  stack = "git" =>
    /\ \A c \in Caller : call[c].at \in Running => call[c].out = "none"
    /\ \A c \in Caller \ touched : TrueOf(c)

\* Where an answered request leaves a call of the git provider.
LEMMA AttemptedShape ==
  ASSUME LocalInv, stack = "git", NEW c \in Caller, call[c].out = "none",
         At(c, "send") \/ At(c, "create"),
         NEW out \in Answer, NEW next \in {"record", "create"}, Attempted(c, out, next)
  PROVE  \E q :
           /\ call' = [call EXCEPT ![c] = q]
           /\ \/ q.out = "none"
              \/ /\ q.out = IF out = "transient" THEN "failed" ELSE out
                 /\ next = "record" /\ q.at \in {"record", "return"}
<1> DEFINE r == [call[c] EXCEPT !.sent = @ + 1, !.tries = 0]
           o == IF out = "transient" THEN "failed" ELSE out
           q == call'[c]
<1>1. call \in [Caller -> CallRec] /\ r.out = "none"
  BY DEF LocalInv, CallRec
<1>2. call' = [call EXCEPT ![c] = q]
  BY <1>1 DEF Attempted
<1>3. \/ q = [r EXCEPT !.tries = call[c].tries + 1]
      \/ q = [r EXCEPT !.at = next]
      \/ next = "record" /\ q = Settled(r, o)
      \/ next = "record" /\ q = [r EXCEPT !.at = "record", !.out = o]
  BY <1>1 DEF Attempted
<1>4. /\ [r EXCEPT !.tries = call[c].tries + 1].out = "none"
      /\ [r EXCEPT !.at = next].out = "none"
  BY <1>1 DEF CallRec
<1>5. /\ Settled(r, o).out = o /\ Settled(r, o).at = "return"
      /\ [r EXCEPT !.at = "record", !.out = o].out = o
      /\ [r EXCEPT !.at = "record", !.out = o].at = "record"
  BY <1>1 DEF CallRec, Settled
<1> HIDE DEF r, o, q
<1>6. \/ q.out = "none"
      \/ q.out = o /\ next = "record" /\ q.at \in {"record", "return"}
  BY <1>3, <1>4, <1>5
<1> QED
  BY <1>2, <1>6 DEF o, q

\* A step of one call, whose outcome is its old one, none, or a true one, and
\* which takes no open pull request away.
LEMMA PublishMove ==
  ASSUME LocalInv, PublishInv, stack = "git", stack' = stack, NEW c \in Caller, NEW q,
         call' = [call EXCEPT ![c] = q],
         q.at \in Running => q.out = "none",
         touched' \in {touched, touched \ {c}}, head' = head,
         pr' \in {pr, "open"},
         q.out \in Published =>
           \/ q.out = call[c].out /\ touched' = touched
           \/ pr' = "open" /\ (q.out = "reused" => head = "ours")
  PROVE  PublishInv'
<1>1. call \in [Caller -> CallRec]
  BY DEF LocalInv
<1>2. call'[c] = q /\ \A d \in Caller : d # c => call'[d] = call[d]
  BY <1>1
<1>3. \A d \in Caller : call'[d].at \in Running => call'[d].out = "none"
  BY <1>2 DEF PublishInv
<1>4. ASSUME NEW d \in Caller \ touched'
      PROVE  /\ call'[d].out \in Published => pr' = "open"
             /\ call'[d].out = "reused" => head' = "ours"
  <2>1. CASE d # c
    <3>1. TrueOf(d) /\ call'[d] = call[d]
      BY <1>2, <1>4, <2>1 DEF PublishInv
    <3> QED
      BY <3>1 DEF TrueOf
  <2>2. CASE d = c /\ q.out \notin Published
    BY <1>2, <2>2 DEF Published
  <2>3. CASE d = c /\ q.out = call[c].out /\ touched' = touched
    <3>1. TrueOf(c)
      BY <1>4, <2>3 DEF PublishInv
    <3> QED
      BY <1>2, <2>3, <3>1 DEF TrueOf
  <2>4. CASE d = c /\ pr' = "open" /\ (q.out = "reused" => head = "ours")
    BY <1>2, <2>4
  <2> QED
    BY <2>1, <2>2, <2>3, <2>4
<1> QED
  BY <1>3, <1>4 DEF PublishInv, TrueOf

\* The requests of a publication.
LEMMA PublishRequests ==
  ASSUME LocalInv, PublishInv, stack = "git", stack' = stack, NEW c \in Caller,
         Search(c) \/ Create(c)
  PROVE  PublishInv'
<1>1. call[c].out = "none" /\ (At(c, "send") \/ At(c, "create"))
  BY DEF Search, Create, At, PublishInv, Running
<1>2. head' = head /\ touched' = touched \ {c} /\ pr' \in {pr, "open"}
  BY DEF Search, Create, Seen
<1>3. ASSUME NEW out \in Answer, NEW next \in {"record", "create"}, Attempted(c, out, next),
             out \in Published => pr' = "open" /\ (out = "reused" => head = "ours")
      PROVE  PublishInv'
  <2>1. PICK q : /\ call' = [call EXCEPT ![c] = q]
                 /\ \/ q.out = "none"
                    \/ /\ q.out = IF out = "transient" THEN "failed" ELSE out
                       /\ next = "record" /\ q.at \in {"record", "return"}
    BY <1>1, <1>3, AttemptedShape
  <2>2. q.at \in Running => q.out = "none"
    BY <2>1 DEF Running
  <2>3. q.out \in Published => pr' = "open" /\ (q.out = "reused" => head = "ours")
    BY <1>3, <2>1 DEF Published
  <2> QED
    BY <1>2, <2>1, <2>2, <2>3, PublishMove
<1>4. CASE Search(c)
  <2>1. PICK out \in Answer, next \in {"record", "create"} :
          /\ Attempted(c, out, next)
          /\ out \in Published => out = "reused" /\ Reusable
    BY <1>4 DEF Search, Classified, Built, Answer, Outcome, Succeeded, Published
  <2>2. pr' = pr
    BY <1>4 DEF Search
  <2> QED
    BY <1>3, <2>1, <2>2 DEF Reusable
<1>5. CASE Create(c)
  <2>1. PICK out \in Answer :
          /\ Attempted(c, out, "record")
          /\ out \in Published => out = "created" /\ pr' = "open"
    BY <1>5 DEF Create, Classified, Built, Answer, Outcome, Succeeded, Published
  <2> QED
    BY <1>3, <2>1
<1> QED
  BY <1>4, <1>5

\* Somebody else's changes.
LEMMA PublishForeign == ASSUME PublishInv, Foreign PROVE PublishInv'
<1>1. call' = call /\ stack' = stack /\ stack = "git"
  BY DEF Foreign
<1>2. touched' = {c \in Caller : call[c].out \in {"created", "reused"}}
  BY DEF Foreign
<1> QED
  BY <1>1, <1>2 DEF PublishInv, TrueOf, Published

LEMMA PublishStep == LocalInv /\ PublishInv /\ [CallsNext]_allVars => PublishInv'
<1> SUFFICES ASSUME LocalInv, PublishInv, [CallsNext]_allVars, stack = "git"
             PROVE  PublishInv'
  BY StackFixed DEF PublishInv
<1>0. stack' = stack
  BY StackFixed
<1>1. call \in [Caller -> CallRec]
  BY DEF LocalInv
<1>2. ASSUME call' = call, UNCHANGED hub PROVE PublishInv'
  BY <1>0, <1>2 DEF PublishInv, TrueOf, hub
<1>3. CASE UNCHANGED allVars \/ TimePasses
  BY <1>2, <1>3 DEF allVars, TimePasses
<1>5. CASE Foreign
  BY <1>5, PublishForeign
<1>4. ASSUME NEW c \in Caller, Begin(c) \/ BeginFails(c) \/ Step(c) PROVE PublishInv'
  <2>1. CASE BeginFails(c) \/ Complete(c)
    BY <1>2, <2>1 DEF BeginFails, Complete
  <2>2. ASSUME NEW q, call' = [call EXCEPT ![c] = q], UNCHANGED hub,
               q.out \in {call[c].out, "none"}, q.at \in Running => q.out = "none"
        PROVE  PublishInv'
    <3>1. touched' = touched /\ head' = head /\ pr' = pr
      BY <2>2 DEF hub
    <3>2. q.out \in Published => q.out = call[c].out
      BY <2>2 DEF Published
    <3> QED
      BY <1>0, <2>2, <3>1, <3>2, PublishMove
  <2>3. ASSUME NEW at, GoTo(c, at), UNCHANGED hub, call[c].at \in Running PROVE PublishInv'
    <3>1. call' = [call EXCEPT ![c] = [call[c] EXCEPT !.at = at]]
      BY <2>3 DEF GoTo
    <3>2. [call[c] EXCEPT !.at = at].out = "none"
      BY <1>1, <2>3 DEF CallRec, PublishInv
    <3> QED
      BY <2>2, <2>3, <3>1, <3>2
  <2>4. ASSUME Return(c), UNCHANGED hub PROVE PublishInv'
    BY <2>2, <2>4 DEF Return, NoCall
  <2>5. CASE Begin(c) \/ Check(c) \/ CheckFails(c) \/ Acquire(c) \/ AcquireFails(c)
               \/ Admit(c)
    <3>1. call[c].at \in Running /\ UNCHANGED hub
      BY <2>5 DEF Begin, Check, CheckFails, Acquire, AcquireFails, Admit, At, Running
    <3>2. Return(c) \/ \E at \in Running : GoTo(c, at)
      BY <2>5 DEF Begin, Check, OverBudget, CheckFails, Acquire, Granted, LlmDenied,
         GitDenied, AcquireFails, Admit, Running
    <3> QED
      BY <2>3, <2>4, <3>1, <3>2
  <2>6. CASE Reject(c) \/ Deliver(c) \/ DeliverFails(c) \/ Returns(c) \/ Die(c)
    <3>1. Return(c) /\ UNCHANGED hub
      BY <2>6 DEF Reject, LlmRejected, GitRejected, Deliver, DeliverFails, Returns, Die
    <3> QED
      BY <2>4, <3>1
  <2>7. CASE Meter(c) \/ MeterFails(c)
    <3>1. call[c].at = "meter"
      BY <2>7 DEF Meter, MeterFails, At
    <3> QED
      BY <1>1, <3>1 DEF LocalInv, SentOK
  <2>8. CASE GateFails(c)
    <3>1. call' = [call EXCEPT ![c] = [call[c] EXCEPT !.at = "send", !.alone = TRUE]]
      BY <2>8 DEF GateFails
    <3>2. call[c].out = "none"
      BY <2>8 DEF GateFails, At, PublishInv, Running
    <3>3. [call[c] EXCEPT !.at = "send", !.alone = TRUE].out = "none"
      BY <1>1, <3>2 DEF CallRec
    <3> QED
      BY <2>2, <2>8, <3>1, <3>3 DEF GateFails
  <2>9. CASE RecordFails(c)
    <3>1. call' = [call EXCEPT ![c] = [call[c] EXCEPT !.at = "send", !.alone = TRUE,
                                                      !.out = "none"]]
      BY <2>9 DEF RecordFails
    <3>2. [call[c] EXCEPT !.at = "send", !.alone = TRUE, !.out = "none"].out = "none"
      BY <1>1 DEF CallRec
    <3> QED
      BY <2>2, <2>9, <3>1, <3>2 DEF RecordFails
  <2>10. CASE Record(c)
    <3>1. call' = [call EXCEPT ![c] = Settled(call[c], call[c].out)] /\ UNCHANGED hub
      BY <2>10 DEF Record
    <3>2. /\ Settled(call[c], call[c].out).out = call[c].out
          /\ Settled(call[c], call[c].out).at = "return"
      BY <1>1 DEF Settled, CallRec
    <3> QED
      BY <2>2, <3>1, <3>2 DEF Running
  <2>11. CASE Search(c) \/ Create(c)
    BY <1>0, <2>11, PublishRequests
  <2> QED
    BY <1>4, <2>1, <2>5, <2>6, <2>7, <2>8, <2>9, <2>10, <2>11 DEF Step
<1> QED
  BY <1>3, <1>4, <1>5 DEF CallsNext

\* GitHubGitProvider.open_or_reuse_pr: what it reports holds of the branch
\* until somebody else changes it, for any number of workers publishing the
\* branch: there is an open pull request, and a reused one points at the
\* published commit.  Nothing is claimed of the commit of a created one.
THEOREM PublicationIsOurs == CallsSpec => []PublishedIsOurs
<1>1. CallsInit => PublishInv
  BY DEF CallsInit, PublishInv, TrueOf, Published, Running, NoCall
<1>2. PublishInv => PublishedIsOurs
  BY DEF PublishInv, PublishedIsOurs, TrueOf, Published
<1> QED
  BY <1>1, <1>2, LocalInit, LocalStep, PublishStep, PTL DEF CallsSpec
-----------------------------------------------------------------------------
(* The token budget *)

\* A cached permission is never older than what is left of its lifetime.
BudgetInv ==
  /\ cache \in [Caller -> [allowed : BOOLEAN, left : 0 .. CacheTtl]]
  /\ over \in 0 .. CacheTtl /\ usage \in Nat /\ faults \in Nat
  /\ usage < Limit => over = 0
  /\ \A c \in Caller : cache[c].left > 0 /\ cache[c].allowed => over + cache[c].left <= CacheTtl

LEMMA FreshOK ==
  ASSUME BudgetInv
  PROVE  /\ Fresh \in [allowed : BOOLEAN, left : 0 .. CacheTtl]
         /\ Fresh.left = CacheTtl
         /\ Fresh.allowed => over = 0
<1>1. Fresh.left = CacheTtl /\ CacheTtl \in 0 .. CacheTtl
  BY CallsAssumption DEF Fresh
<1>2. Fresh.allowed = (usage < Limit)
  BY DEF Fresh, Spent
<1>3. Fresh \in [allowed : BOOLEAN, left : 0 .. CacheTtl]
  <2>1. (Spent < Limit) \in BOOLEAN
    BY CallsAssumption DEF BudgetInv, Spent
  <2> QED
    BY <1>1, <2>1 DEF Fresh
<1> QED
  BY <1>1, <1>2, <1>3 DEF BudgetInv

LEMMA DecisionOK ==
  ASSUME BudgetInv, NEW c \in Caller
  PROVE  /\ Decision(c) \in [allowed : BOOLEAN, left : 0 .. CacheTtl]
         /\ Decision(c).allowed => over + Decision(c).left <= CacheTtl /\ over < CacheTtl
<1>1. CASE Cached(c)
  <2>1. Decision(c) = cache[c] /\ cache[c].left > 0
    BY <1>1 DEF Decision, Cached
  <2>2. cache[c] \in [allowed : BOOLEAN, left : 0 .. CacheTtl]
    BY DEF BudgetInv
  <2>3. /\ cache[c].left \in 0 .. CacheTtl /\ over \in 0 .. CacheTtl
        /\ cache[c].allowed => over + cache[c].left <= CacheTtl
    BY <2>1, <2>2 DEF BudgetInv
  <2>4. cache[c].allowed => over < CacheTtl
    BY <2>1, <2>3, CallsAssumption
  <2> QED
    BY <2>1, <2>2, <2>3, <2>4
<1>2. CASE ~Cached(c)
  <2>1. Decision(c) = Fresh
    BY <1>2 DEF Decision
  <2> QED
    BY <2>1, FreshOK, CallsAssumption
<1> QED
  BY <1>1, <1>2

\* Steps that leave the clock and the decisions alone may only add usage.
LEMMA BudgetKept ==
  ASSUME BudgetInv, cache' = cache, over' = over, faults' \in Nat, usage' \in {usage, usage + 1}
  PROVE  BudgetInv'
BY CallsAssumption DEF BudgetInv

LEMMA BudgetTick == ASSUME BudgetInv, TimePasses PROVE BudgetInv'
<1> DEFINE Aged(c) == IF cache[c].left <= 1 THEN NoDecision
                      ELSE [cache[c] EXCEPT !.left = @ - 1]
<1>1. /\ cache' = [c \in Caller |-> Aged(c)] /\ usage' = usage /\ faults' = faults
      /\ over' = IF usage >= Limit THEN IF over < CacheTtl THEN over + 1 ELSE over ELSE 0
  BY DEF TimePasses, count
<1>2. CacheTtl \in Nat /\ over \in 0 .. CacheTtl /\ usage \in Nat /\ Limit \in Nat
  BY CallsAssumption DEF BudgetInv
<1>3. over' \in 0 .. CacheTtl /\ over' <= over + 1 /\ (usage < Limit => over' = 0)
  BY <1>1, <1>2
<1>4. ASSUME NEW c \in Caller
      PROVE  /\ Aged(c) \in [allowed : BOOLEAN, left : 0 .. CacheTtl]
             /\ Aged(c).left > 0 /\ Aged(c).allowed => over' + Aged(c).left <= CacheTtl
  <2>0. /\ cache[c] \in [allowed : BOOLEAN, left : 0 .. CacheTtl]
        /\ cache[c].left \in 0 .. CacheTtl
        /\ cache[c].left > 0 /\ cache[c].allowed => over + cache[c].left <= CacheTtl
    BY DEF BudgetInv
  <2>1. CASE cache[c].left <= 1
    <3>1. Aged(c) = NoDecision
      BY <2>1
    <3>2. NoDecision.left = 0 /\ 0 \in 0 .. CacheTtl
      BY <1>2 DEF NoDecision
    <3>3. NoDecision \in [allowed : BOOLEAN, left : 0 .. CacheTtl]
      BY <3>2 DEF NoDecision
    <3> HIDE DEF Aged
    <3> QED
      BY <3>1, <3>2, <3>3
  <2>2. CASE ~(cache[c].left <= 1)
    <3> DEFINE q == [cache[c] EXCEPT !.left = @ - 1]
    <3>1. Aged(c) = q
      BY <2>2
    <3>2. cache[c].left - 1 \in 0 .. CacheTtl /\ cache[c].left > 0
      BY <1>2, <2>0, <2>2
    <3>3. q \in [allowed : BOOLEAN, left : 0 .. CacheTtl]
      BY <2>0, <3>2
    <3>4. q.left = cache[c].left - 1 /\ q.allowed = cache[c].allowed
      BY <2>0
    <3> HIDE DEF Aged, q
    <3>5. q.allowed => over' + q.left <= CacheTtl
      BY <1>2, <1>3, <2>0, <3>2, <3>4
    <3> QED
      BY <3>1, <3>3, <3>5
  <2> QED
    BY <2>1, <2>2
<1> HIDE DEF Aged
<1> QED
  BY <1>1, <1>3, <1>4 DEF BudgetInv

\* A step that replaces one process's decision.
LEMMA BudgetCached ==
  ASSUME BudgetInv, NEW c \in Caller, NEW q \in [allowed : BOOLEAN, left : 0 .. CacheTtl],
         q.left > 0 /\ q.allowed => over + q.left <= CacheTtl,
         cache' = [cache EXCEPT ![c] = q], over' = over, usage' = usage, faults' \in Nat
  PROVE  BudgetInv'
<1>1. cache' \in [Caller -> [allowed : BOOLEAN, left : 0 .. CacheTtl]]
  BY DEF BudgetInv
<1>2. ASSUME NEW d \in Caller
      PROVE  cache'[d].left > 0 /\ cache'[d].allowed => over + cache'[d].left <= CacheTtl
  <2>1. CASE d = c
    BY <2>1 DEF BudgetInv
  <2>2. CASE d # c
    BY <2>2 DEF BudgetInv
  <2> QED
    BY <2>1, <2>2
<1> QED
  BY <1>1, <1>2 DEF BudgetInv

LEMMA BudgetStep == BudgetInv /\ [CallsNext]_allVars => BudgetInv'
<1> SUFFICES ASSUME BudgetInv, [CallsNext]_allVars PROVE BudgetInv'
  OBVIOUS
<1>0. faults \in Nat /\ faults + 1 \in Nat
  BY DEF BudgetInv
<1>1. CASE UNCHANGED allVars
  BY <1>0, <1>1, BudgetKept DEF allVars, money, count
<1>4. CASE Foreign
  BY <1>0, <1>4, BudgetKept DEF Foreign, money, count
<1>2. CASE TimePasses
  BY <1>2, BudgetTick
<1>3. ASSUME NEW c \in Caller, Begin(c) \/ BeginFails(c) \/ Step(c) PROVE BudgetInv'
  <2>1. CASE Begin(c) \/ BeginFails(c) \/ CheckFails(c) \/ Acquire(c) \/ AcquireFails(c)
               \/ Admit(c) \/ Reject(c) \/ GateFails(c)
    BY <1>0, <2>1, BudgetKept DEF Begin, BeginFails, CheckFails, Acquire, AcquireFails,
       Admit, Reject, GateFails, Fault, money, count
  <2>2. CASE Complete(c) \/ Search(c) \/ Create(c) \/ Record(c) \/ RecordFails(c)
    BY <1>0, <2>2, BudgetKept DEF Complete, Search, Create, Record, RecordFails, Fault,
       money, count
  <2>3. CASE Meter(c) \/ MeterFails(c) \/ Deliver(c) \/ DeliverFails(c) \/ Returns(c)
    BY <1>0, <2>3, BudgetKept DEF Meter, Metered, MeterFails, Deliver, DeliverFails, Returns,
       Fault, money, count
  <2>4. CASE Check(c)
    BY <1>0, <2>4, DecisionOK, BudgetCached DEF Check, money, count
  <2>5. CASE Die(c)
    <3>1. NoDecision.left = 0 /\ 0 \in 0 .. CacheTtl
      BY CallsAssumption DEF NoDecision
    <3>2. NoDecision \in [allowed : BOOLEAN, left : 0 .. CacheTtl]
      BY <3>1 DEF NoDecision
    <3>3. /\ cache' = [cache EXCEPT ![c] = NoDecision] /\ over' = over /\ usage' = usage
          /\ faults' = faults + 1
      BY <2>5 DEF Die, Fault, money
    <3>4. NoDecision.left > 0 /\ NoDecision.allowed => over + NoDecision.left <= CacheTtl
      BY <3>1
    <3> QED
      BY <1>0, <3>2, <3>3, <3>4, BudgetCached
  <2> QED
    BY <1>3, <2>1, <2>2, <2>3, <2>4, <2>5 DEF Step
<1> QED
  BY <1>1, <1>2, <1>3, <1>4 DEF CallsNext

LEMMA BudgetInit == CallsInit => BudgetInv
<1> SUFFICES ASSUME CallsInit PROVE BudgetInv
  OBVIOUS
<1>1. NoDecision.left = 0 /\ 0 \in 0 .. CacheTtl
  BY CallsAssumption DEF NoDecision
<1>2. NoDecision \in [allowed : BOOLEAN, left : 0 .. CacheTtl]
  BY <1>1 DEF NoDecision
<1> QED
  BY <1>1, <1>2 DEF CallsInit, BudgetInv

\* BudgetEnforcingLLMClient: a fresh look at an exhausted budget refuses, and
\* no cached permission outlives the cache lifetime.  So a tenant whose log
\* has held the limit for that long is turned away by every process.
THEOREM BudgetEnforced == CallsSpec => EnforcedAfterTtl
<1> DEFINE Late(c) == At(c, "check") /\ call'[c].at = "acquire" /\ faults' = faults
<1>1. ASSUME LocalInv, BudgetInv, [CallsNext]_allVars, NEW c \in Caller, Late(c)
      PROVE  over < CacheTtl
  <2>0. call \in [Caller -> CallRec] /\ faults \in Nat
    BY <1>1 DEF LocalInv, BudgetInv
  <2>1. call'[c] # call[c]
    BY <1>1 DEF At
  <2>2. ~(UNCHANGED allVars) /\ ~TimePasses /\ ~Foreign
    BY <2>1 DEF allVars, TimePasses, Foreign
  <2>3. PICK d \in Caller : Begin(d) \/ BeginFails(d) \/ Step(d)
    BY <1>1, <2>2 DEF CallsNext
  <2>4. ~BeginFails(d)
    BY <2>1 DEF BeginFails
  <2>5. Moves(d)
    BY <1>1, <2>3, <2>4, BeginOK, StepMoves
  <2>6. d = c
    BY <2>0, <2>1, <2>5 DEF Moves
  <2>7. ~CheckFails(d)
    BY <1>1, <2>0 DEF CheckFails, Fault
  <2>10. ~Die(c)
    BY <1>1, <2>0 DEF Die, Return, NoCall
  <2>11. ~(Begin(c) \/ Acquire(c) \/ AcquireFails(c) \/ Admit(c) \/ Reject(c) \/ GateFails(c)
            \/ Complete(c) \/ Search(c) \/ Create(c) \/ Record(c) \/ RecordFails(c)
            \/ Meter(c) \/ MeterFails(c) \/ Deliver(c) \/ DeliverFails(c) \/ Returns(c))
    BY <1>1 DEF At, Begin, Acquire, AcquireFails, Admit, Reject, GateFails, Complete, Search,
       Create, Record, RecordFails, Meter, MeterFails, Deliver, DeliverFails, Returns
  <2>8. Check(c)
    BY <2>3, <2>4, <2>6, <2>7, <2>10, <2>11 DEF Step
  <2>9. Decision(c).allowed
    BY <1>1, <2>0, <2>8 DEF Check, OverBudget, Return, NoCall
  <2> QED
    BY <1>1, <2>9, DecisionOK
<1>2. LocalInv /\ BudgetInv /\ [CallsNext]_allVars
        => [\A c \in Caller : Late(c) => over < CacheTtl]_allVars
  BY <1>1
<1> HIDE DEF Late
<1>3. CallsSpec => [][\A c \in Caller : Late(c) => over < CacheTtl]_allVars
  BY <1>2, LocalInit, LocalStep, BudgetInit, BudgetStep, PTL DEF CallsSpec
<1> QED
  BY <1>3 DEF EnforcedAfterTtl, Late
-----------------------------------------------------------------------------
(* The usage log *)

\* Answers that were paid for and not metered yet, and those not handed over.
Owed == {c \in Caller : stack = "llm" /\ call[c].out = "ok"
                          /\ call[c].at \in {"record", "meter"}}
Ready == {c \in Caller : call[c].at = "deliver"}

MoneyInv ==
  /\ paid \in Nat /\ usage \in Nat /\ answered \in Nat /\ faults \in Nat
  /\ usage + Cardinality(Owed) <= paid
  /\ answered + Cardinality(Ready) <= usage + faults

LEMMA CallerSets ==
  ASSUME NEW S \in SUBSET Caller PROVE IsFiniteSet(S) /\ Cardinality(S) \in Nat
BY CallsAssumption, FS_Subset, FS_CardinalityType

\* How the size of a set changes when one caller moves.
LEMMA CardMove ==
  ASSUME NEW S \in SUBSET Caller, NEW T \in SUBSET Caller, NEW c \in Caller,
         T \ {c} = S \ {c}
  PROVE  /\ Cardinality(S) \in Nat /\ Cardinality(T) \in Nat
         /\ Cardinality(T) <= Cardinality(S) + 1
         /\ c \in S \/ c \notin T => Cardinality(T) <= Cardinality(S)
         /\ c \in S /\ c \notin T => Cardinality(T) + 1 <= Cardinality(S)
<1>1. /\ IsFiniteSet(S) /\ IsFiniteSet(T)
      /\ Cardinality(S) \in Nat /\ Cardinality(T) \in Nat
  BY CallerSets
<1>2. Cardinality(S \ {c}) = IF c \in S THEN Cardinality(S) - 1 ELSE Cardinality(S)
  BY <1>1, FS_RemoveElement
<1>3. Cardinality(T \ {c}) = IF c \in T THEN Cardinality(T) - 1 ELSE Cardinality(T)
  BY <1>1, FS_RemoveElement
<1> QED
  BY <1>1, <1>2, <1>3

LEMMA OneMore ==
  ASSUME NEW a \in Nat, NEW h \in Nat, NEW k \in Nat, NEW u \in Nat, NEW f \in Nat,
         NEW u2 \in Nat, NEW f2 \in Nat,
         a + h <= u + f, k <= h + 1, u2 + f2 >= u + f + 1
  PROVE  a + k <= u2 + f2
OBVIOUS

\* The books after a step of one call.
LEMMA Books ==
  ASSUME LocalInv, MoneyInv, NEW c \in Caller, Moves(c), stack' = stack,
         paid' \in Nat, usage' \in Nat, answered' \in Nat, faults' \in Nat,
         paid' >= paid, faults' >= faults, usage' >= usage,
         \* an answer becomes owed only when it is paid for
         c \in Owed' /\ c \notin Owed => paid' >= paid + 1,
         \* and is metered only when it is owed
         usage' # usage => usage' = usage + 1 /\ c \in Owed /\ c \notin Owed',
         \* an answer becomes ready when it is metered or the meter fails
         c \in Ready' /\ c \notin Ready => usage' + faults' >= usage + faults + 1,
         c \in Ready /\ c \notin Ready' => answered' <= answered + 1,
         ~(c \in Ready /\ c \notin Ready') => answered' = answered
  PROVE  MoneyInv'
<1>1. \A d \in Caller : d # c => call'[d] = call[d]
  BY DEF LocalInv, Moves
<1>2. Owed \in SUBSET Caller /\ Owed' \in SUBSET Caller /\ Owed' \ {c} = Owed \ {c}
  BY <1>1 DEF Owed
<1>3. Ready \in SUBSET Caller /\ Ready' \in SUBSET Caller /\ Ready' \ {c} = Ready \ {c}
  BY <1>1 DEF Ready
<1>4. PICK m \in Nat, n \in Nat :
        /\ m = Cardinality(Owed) /\ n = Cardinality(Owed')
        /\ n <= m + 1
        /\ c \in Owed \/ c \notin Owed' => n <= m
        /\ c \in Owed /\ c \notin Owed' => n + 1 <= m
  BY <1>2, CardMove
<1>5. PICK h \in Nat, k \in Nat :
        /\ h = Cardinality(Ready) /\ k = Cardinality(Ready')
        /\ k <= h + 1
        /\ c \in Ready \/ c \notin Ready' => k <= h
        /\ c \in Ready /\ c \notin Ready' => k + 1 <= h
  BY <1>3, CardMove
<1>6. usage + m <= paid /\ answered + h <= usage + faults
  BY <1>4, <1>5 DEF MoneyInv
<1>7. paid \in Nat /\ usage \in Nat /\ answered \in Nat /\ faults \in Nat
  BY DEF MoneyInv
<1>8. usage' + n <= paid'
  <2>1. CASE usage' # usage
    <3>1. usage' = usage + 1 /\ n + 1 <= m
      BY <1>4, <2>1
    <3> QED
      BY <1>4, <1>6, <1>7, <3>1
  <2>2. CASE usage' = usage /\ c \in Owed' /\ c \notin Owed
    <3>1. paid' >= paid + 1 /\ n <= m + 1
      BY <1>4, <2>2
    <3> QED
      BY <1>4, <1>6, <1>7, <2>2, <3>1
  <2>3. CASE usage' = usage /\ ~(c \in Owed' /\ c \notin Owed)
    <3>1. n <= m
      BY <1>4, <2>3
    <3> QED
      BY <1>4, <1>6, <1>7, <2>3, <3>1
  <2> QED
    BY <2>1, <2>2, <2>3
<1>9. answered' + k <= usage' + faults'
  <2>1. CASE c \in Ready' /\ c \notin Ready
    <3>1. usage' + faults' >= usage + faults + 1 /\ k <= h + 1 /\ answered' = answered
      BY <1>5, <2>1
    <3>2. answered + k <= usage' + faults'
      BY <1>6, <1>7, <3>1, OneMore
    <3> QED
      BY <3>1, <3>2
  <2>2. CASE c \in Ready /\ c \notin Ready'
    <3>1. answered' <= answered + 1 /\ k + 1 <= h
      BY <1>5, <2>2
    <3> QED
      BY <1>5, <1>6, <1>7, <3>1
  <2>3. CASE (c \in Ready') <=> (c \in Ready)
    <3>1. k <= h /\ answered' = answered
      BY <1>5, <2>3
    <3> QED
      BY <1>5, <1>6, <1>7, <3>1
  <2> QED
    BY <2>1, <2>2, <2>3
<1> QED
  BY <1>4, <1>5, <1>8, <1>9 DEF MoneyInv
\* Attempted makes an answer owed only if the answer is "ok".
LEMMA AttemptedOwes ==
  ASSUME LocalInv, NEW c \in Caller, At(c, "send"),
         NEW out \in Answer,
         Attempted(c, out, "record"), call'[c].out = "ok",
         call'[c].at \in {"record", "meter"}, stack' = stack
  PROVE  out = "ok"
<1> DEFINE r == [call[c] EXCEPT !.sent = @ + 1, !.tries = 0]
           o == IF out = "transient" THEN "failed" ELSE out
<1>1. call[c] \in CallRec /\ r.at = "send" /\ call \in [Caller -> CallRec]
  BY DEF LocalInv, CallRec, At
<1>2. ~(out = "transient" /\ MayRetry(c))
  <2> SUFFICES ASSUME out = "transient", MayRetry(c) PROVE FALSE
    OBVIOUS
  <2>1. call'[c] = [r EXCEPT !.tries = call[c].tries + 1]
    BY <1>1 DEF Attempted
  <2>2. call'[c].at = r.at
    BY <1>1, <2>1 DEF CallRec
  <2> QED
    BY <1>1, <2>2
<1>3. CASE r.alone
  <2>1. call'[c] = Settled(r, o)
    BY <1>1, <1>2, <1>3 DEF Attempted
  <2>2. call'[c].out = o
    BY <1>1, <2>1 DEF Settled, CallRec
  <2> QED
    BY <2>2
<1>4. CASE ~r.alone
  <2>1. call'[c] = [r EXCEPT !.at = "record", !.out = o]
    BY <1>1, <1>2, <1>4 DEF Attempted
  <2>2. call'[c].out = o
    BY <1>1, <2>1 DEF CallRec
  <2> QED
    BY <2>2
<1> QED
  BY <1>3, <1>4

\* No attempt puts a call among those ready to be delivered.
LEMMA AttemptedNotReady ==
  ASSUME LocalInv, NEW c \in Caller, ~At(c, "deliver"),
         NEW out \in Answer,
         NEW next \in {"record", "create"}, Attempted(c, out, next)
  PROVE  c \notin Ready /\ c \notin Ready'
<1> DEFINE r == [call[c] EXCEPT !.sent = @ + 1, !.tries = 0]
           o == IF out = "transient" THEN "failed" ELSE out
<1>1. call[c] \in CallRec /\ r.at = call[c].at /\ call \in [Caller -> CallRec]
  BY DEF LocalInv, CallRec
<1>2. \/ call'[c] = [r EXCEPT !.tries = call[c].tries + 1]
      \/ call'[c] = [r EXCEPT !.at = next]
      \/ call'[c] = Settled(r, o)
      \/ call'[c] = [r EXCEPT !.at = "record", !.out = o]
  BY <1>1 DEF Attempted
<1>3. [r EXCEPT !.tries = call[c].tries + 1].at = call[c].at
  BY <1>1 DEF CallRec
<1>4. [r EXCEPT !.at = next].at = next /\ [r EXCEPT !.at = "record", !.out = o].at = "record"
  BY <1>1 DEF CallRec
<1>5. Settled(r, o).at \in {"meter", "return"}
  BY <1>1 DEF Settled, CallRec
<1>6. call'[c].at # "deliver"
  BY <1>2, <1>3, <1>4, <1>5 DEF At
<1> QED
  BY <1>6 DEF Ready, At

\* Where a call is when it moves without an answer.
LEMMA Landed ==
  ASSUME LocalInv, NEW c \in Caller
  PROVE  /\ Return(c) => c \notin Owed' /\ c \notin Ready'
         /\ \A at \in {"check", "acquire", "gate", "send"} :
              GoTo(c, at) => c \notin Owed' /\ c \notin Ready'
         /\ GoTo(c, "deliver") => c \notin Owed' /\ c \in Ready'
<1>1. call[c] \in CallRec /\ call \in [Caller -> CallRec]
  BY DEF LocalInv
<1>2. \A at : [call[c] EXCEPT !.at = at].at = at
  BY <1>1 DEF CallRec
<1>3. Return(c) => call'[c].at = "idle"
  BY <1>1 DEF Return, NoCall
<1>4. \A at : GoTo(c, at) => call'[c] = [call[c] EXCEPT !.at = at]
  BY <1>1 DEF GoTo
<1>5. \A at : GoTo(c, at) => call'[c].at = at
  BY <1>2, <1>4
<1> QED
  BY <1>3, <1>5 DEF Owed, Ready
\* A step that neither buys, meters nor hands over an answer.
LEMMA Quiet ==
  ASSUME LocalInv, MoneyInv, NEW c \in Caller, Moves(c), stack' = stack,
         UNCHANGED <<paid, usage, answered>>, faults' \in {faults, faults + 1},
         c \in Owed' => c \in Owed,
         c \in Ready' => c \in Ready \/ faults' = faults + 1
  PROVE  MoneyInv'
<1>1. paid \in Nat /\ usage \in Nat /\ answered \in Nat /\ faults \in Nat
  BY DEF MoneyInv
<1>2. /\ paid' \in Nat /\ usage' \in Nat /\ answered' \in Nat /\ faults' \in Nat
      /\ paid' >= paid /\ faults' >= faults /\ usage' >= usage
      /\ faults' = faults + 1 => usage' + faults' >= usage + faults + 1
      /\ answered' <= answered + 1
  <2>1. CASE faults' = faults
    BY <1>1, <2>1
  <2>2. CASE faults' = faults + 1
    BY <1>1, <2>2
  <2> QED
    BY <2>1, <2>2
<1> QED
  BY <1>2, Books

LEMMA MoneyCheckpoints ==
  ASSUME LocalInv, MoneyInv, NEW c \in Caller, Moves(c), stack' = stack,
         Begin(c) \/ Check(c) \/ CheckFails(c) \/ Acquire(c) \/ AcquireFails(c) \/ Admit(c)
           \/ Reject(c) \/ GateFails(c)
  PROVE  MoneyInv'
<1>1. UNCHANGED <<paid, usage, answered>> /\ faults' \in {faults, faults + 1}
  BY DEF Begin, Check, CheckFails, Acquire, AcquireFails, Admit, Reject, GateFails, Fault,
     money, count
<1>2. call[c] \in CallRec /\ call \in [Caller -> CallRec]
  BY DEF LocalInv
<1>3. CASE Begin(c) \/ Check(c) \/ CheckFails(c) \/ Acquire(c) \/ AcquireFails(c) \/ Admit(c)
  <2>1. Return(c) \/ \E at \in {"check", "acquire", "gate", "send"} : GoTo(c, at)
    BY <1>3 DEF Begin, Check, OverBudget, CheckFails, Acquire, Granted, LlmDenied,
       GitDenied, AcquireFails, Admit
  <2> QED
    BY <1>1, <2>1, Landed, Quiet
<1>4. CASE Reject(c)
  <2>1. CASE GitRejected(c)
    BY <1>1, <2>1, Landed, Quiet DEF GitRejected
  <2>2. CASE LlmRejected(c)
    <3>1. call'[c] = [call[c] EXCEPT !.at = "meter", !.out = "failed"]
      BY <1>2, <2>2 DEF LlmRejected
    <3>2. call'[c].at = "meter" /\ call'[c].out = "failed"
      BY <1>2, <3>1 DEF CallRec
    <3>3. c \notin Owed' /\ c \notin Ready'
      BY <3>2 DEF Owed, Ready
    <3> QED
      BY <1>1, <3>3, Quiet
  <2> QED
    BY <1>4, <2>1, <2>2 DEF Reject
<1>5. CASE GateFails(c)
  <2>1. call'[c] = [call[c] EXCEPT !.at = "send", !.alone = TRUE]
    BY <1>2, <1>5 DEF GateFails
  <2>2. call'[c].at = "send"
    BY <1>2, <2>1 DEF CallRec
  <2>3. c \notin Owed' /\ c \notin Ready'
    BY <2>2 DEF Owed, Ready
  <2> QED
    BY <1>1, <2>3, Quiet
<1> QED
  BY <1>3, <1>4, <1>5

LEMMA MoneyRequests ==
  ASSUME LocalInv, MoneyInv, NEW c \in Caller, Moves(c), stack' = stack,
         Complete(c) \/ Search(c) \/ Create(c)
  PROVE  MoneyInv'
<1>1. CASE Complete(c)
  <2>1. At(c, "send") /\ UNCHANGED <<usage, answered, faults>>
    BY <1>1 DEF Complete, count
  <2>2. PICK r \in Unanswered \cup Errors \cup Decoded :
               Attempted(c, r.out, "record") /\ paid' = IF r.charged THEN paid + 1 ELSE paid
    BY <1>1 DEF Complete
  <2>3. r.out \in Answer /\ (r.out = "ok" => r.charged)
    BY DEF Unanswered, Errors, Decoded, Reply, Answer, Outcome, Succeeded
  <2>4. c \notin Ready /\ c \notin Ready'
    BY <2>1, <2>2, <2>3, AttemptedNotReady DEF At
  <2>5. c \in Owed' => paid' = paid + 1
    <3> SUFFICES ASSUME c \in Owed' PROVE paid' = paid + 1
      OBVIOUS
    <3>1. call'[c].out = "ok" /\ call'[c].at \in {"record", "meter"}
      BY DEF Owed
    <3>2. r.out = "ok"
      BY <2>1, <2>2, <2>3, <3>1, AttemptedOwes
    <3> QED
      BY <2>2, <2>3, <3>2
  <2>6. paid \in Nat /\ usage \in Nat /\ answered \in Nat /\ faults \in Nat
    BY DEF MoneyInv
  <2>7. /\ paid' \in Nat /\ usage' \in Nat /\ answered' \in Nat /\ faults' \in Nat
        /\ paid' >= paid /\ faults' >= faults /\ usage' >= usage
        /\ c \in Owed' => paid' >= paid + 1
    BY <2>1, <2>2, <2>5, <2>6
  <2> QED
    BY <2>1, <2>4, <2>7, Books
<1>2. CASE Search(c) \/ Create(c)
  <2>1. \E out \in Answer, next \in {"record", "create"} : Attempted(c, out, next)
    BY <1>2 DEF Search, Create, Classified, Built, Answer, Outcome, Succeeded
  <2>2. stack = "git" /\ ~At(c, "deliver")
    BY <1>2 DEF Search, Create, At
  <2>3. c \notin Ready'
    BY <2>1, <2>2, AttemptedNotReady
  <2>4. c \notin Owed'
    BY <2>2 DEF Owed
  <2>5. UNCHANGED <<paid, usage, answered>> /\ faults' = faults
    BY <1>2 DEF Search, Create, money, count
  <2> QED
    BY <2>3, <2>4, <2>5, Quiet
<1> QED
  BY <1>1, <1>2

LEMMA MoneyEnds ==
  ASSUME LocalInv, MoneyInv, NEW c \in Caller, Moves(c), stack' = stack,
         Record(c) \/ RecordFails(c) \/ DeliverFails(c) \/ Returns(c) \/ Die(c)
  PROVE  MoneyInv'
<1>1. UNCHANGED <<paid, usage, answered>> /\ faults' \in {faults, faults + 1}
  BY DEF Record, RecordFails, DeliverFails, Returns, Die, Fault, money, count
<1>2. call[c] \in CallRec /\ call \in [Caller -> CallRec]
  BY DEF LocalInv
<1>3. CASE DeliverFails(c) \/ Returns(c) \/ Die(c)
  BY <1>1, <1>3, Landed, Quiet DEF DeliverFails, Returns, Die
<1>4. CASE RecordFails(c)
  <2>1. call'[c] = [call[c] EXCEPT !.at = "send", !.alone = TRUE, !.out = "none"]
    BY <1>2, <1>4 DEF RecordFails
  <2>2. call'[c].at = "send"
    BY <1>2, <2>1 DEF CallRec
  <2>3. c \notin Owed' /\ c \notin Ready'
    BY <2>2 DEF Owed, Ready
  <2> QED
    BY <1>1, <2>3, Quiet
<1>5. CASE Record(c)
  <2>1. At(c, "record") /\ call'[c] = Settled(call[c], call[c].out)
    BY <1>2, <1>5 DEF Record
  <2>2. CASE stack = "llm"
    <3>1. call'[c].at = "meter" /\ call'[c].out = call[c].out
      BY <1>2, <2>1, <2>2 DEF Settled, CallRec
    <3>2. c \notin Ready' /\ (c \in Owed' => c \in Owed)
      BY <2>1, <2>2, <3>1 DEF Owed, Ready, At
    <3> QED
      BY <1>1, <3>2, Quiet
  <2>3. CASE stack # "llm"
    <3>1. call'[c].at = "return"
      BY <1>2, <2>1, <2>3 DEF Settled, CallRec
    <3>2. c \notin Owed' /\ c \notin Ready'
      BY <3>1 DEF Owed, Ready
    <3> QED
      BY <1>1, <3>2, Quiet
  <2> QED
    BY <2>2, <2>3
<1> QED
  BY <1>3, <1>4, <1>5

LEMMA MoneyMeters ==
  ASSUME LocalInv, MoneyInv, NEW c \in Caller, Moves(c), stack' = stack,
         Meter(c) \/ MeterFails(c) \/ Deliver(c)
  PROVE  MoneyInv'
<1>1. paid \in Nat /\ usage \in Nat /\ answered \in Nat /\ faults \in Nat
  BY DEF MoneyInv
<1>2. CASE Deliver(c)
  <2>1. /\ c \in Ready /\ Return(c) /\ answered' = answered + 1
        /\ UNCHANGED <<paid, usage, faults>>
    BY <1>2 DEF Deliver, Ready, At, count
  <2>2. c \notin Owed' /\ c \notin Ready'
    BY <2>1, Landed
  <2>3. /\ paid' \in Nat /\ usage' \in Nat /\ answered' \in Nat /\ faults' \in Nat
        /\ paid' >= paid /\ faults' >= faults /\ usage' >= usage
        /\ answered' <= answered + 1
    BY <1>1, <2>1
  <2> QED
    BY <2>1, <2>2, <2>3, Books
<1>3. CASE MeterFails(c)
  <2>1. /\ UNCHANGED <<paid, usage, answered>> /\ faults' = faults + 1
        /\ GoTo(c, "deliver") \/ Return(c)
    BY <1>3 DEF MeterFails, HandOn, Fault, money
  <2> QED
    BY <2>1, Landed, Quiet
<1>4. CASE Meter(c) /\ call[c].out # "ok"
  <2>1. UNCHANGED <<paid, usage, answered>> /\ faults' = faults /\ Return(c)
    BY <1>4 DEF Meter, Metered, HandOn, count
  <2> QED
    BY <2>1, Landed, Quiet
<1>5. CASE Meter(c) /\ call[c].out = "ok"
  <2>1. /\ UNCHANGED <<paid, answered, faults>> /\ usage' = usage + 1
        /\ GoTo(c, "deliver") /\ At(c, "meter")
    BY <1>5 DEF Meter, Metered, HandOn, count
  <2>2. stack = "llm"
    BY <2>1 DEF LocalInv, SentOK, At
  <2>3. c \in Owed /\ c \notin Ready
    BY <1>5, <2>1, <2>2 DEF Owed, Ready, At
  <2>4. c \notin Owed' /\ c \in Ready'
    BY <2>1, Landed
  <2>5. /\ paid' \in Nat /\ usage' \in Nat /\ answered' \in Nat /\ faults' \in Nat
        /\ paid' >= paid /\ faults' >= faults /\ usage' >= usage
        /\ usage' + faults' >= usage + faults + 1
    BY <1>1, <2>1
  <2> QED
    BY <2>1, <2>3, <2>4, <2>5, Books
<1> QED
  BY <1>2, <1>3, <1>4, <1>5

LEMMA MoneyStep == LocalInv /\ MoneyInv /\ [CallsNext]_allVars => MoneyInv'
<1> SUFFICES ASSUME LocalInv, MoneyInv, [CallsNext]_allVars PROVE MoneyInv'
  OBVIOUS
<1>1. stack' = stack
  BY StackFixed
<1>2. ASSUME call' = call, UNCHANGED <<paid, usage, answered>>, faults' \in {faults, faults + 1}
      PROVE  MoneyInv'
  <2>1. Owed' = Owed /\ Ready' = Ready
    BY <1>1, <1>2 DEF Owed, Ready
  <2>2. Cardinality(Ready) \in Nat /\ Cardinality(Owed) \in Nat
    BY CallerSets DEF Ready, Owed
  <2>3. Cardinality(Ready)' = Cardinality(Ready) /\ Cardinality(Owed)' = Cardinality(Owed)
    BY <2>1
  <2> QED
    BY <1>2, <2>2, <2>3 DEF MoneyInv
<1>3. CASE UNCHANGED allVars \/ TimePasses \/ Foreign
  BY <1>2, <1>3 DEF allVars, TimePasses, Foreign, money, count
<1>4. ASSUME NEW c \in Caller, Begin(c) \/ BeginFails(c) \/ Step(c) PROVE MoneyInv'
  <2>1. CASE BeginFails(c)
    BY <1>2, <2>1 DEF BeginFails, money
  <2>2. CASE Begin(c)
    BY <1>1, <2>2, BeginOK, MoneyCheckpoints
  <2>3. CASE Step(c)
    <3>1. Moves(c)
      BY <2>3, StepMoves
    <3> QED
      BY <1>1, <2>3, <3>1, MoneyCheckpoints, MoneyRequests, MoneyEnds, MoneyMeters DEF Step
  <2> QED
    BY <1>4, <2>1, <2>2, <2>3
<1> QED
  BY <1>3, <1>4 DEF CallsNext

LEMMA MoneyInit == CallsInit => MoneyInv
<1> SUFFICES ASSUME CallsInit PROVE MoneyInv
  OBVIOUS
<1>1. Owed = {} /\ Ready = {}
  BY DEF CallsInit, NoCall, Owed, Ready
<1>2. Cardinality(Owed) = 0 /\ Cardinality(Ready) = 0
  BY <1>1, FS_EmptySet
<1> QED
  BY <1>2 DEF CallsInit, MoneyInv

\* MeteredLLMClient: for any number of workers, retries and failures the log
\* never holds more answers than the provider charged for, and a graph has
\* no answer that is missing from the log unless a backend failed.
THEOREM MeterIsHonest == CallsSpec => []MeteredWasPaid
<1>1. MoneyInv => MeteredWasPaid
  <2> SUFFICES ASSUME MoneyInv PROVE MeteredWasPaid
    OBVIOUS
  <2>1. Cardinality(Ready) \in Nat /\ Cardinality(Owed) \in Nat
    BY CallerSets DEF Ready, Owed
  <2> QED
    BY <2>1 DEF MoneyInv, MeteredWasPaid
<1> QED
  BY <1>1, LocalInit, LocalStep, MoneyInit, MoneyStep, PTL DEF CallsSpec

-----------------------------------------------------------------------------
(* Types *)

\* The branch at GitHub.
HubOK == pr \in {"none", "open"} /\ head \in {"ours", "other"} /\ touched \subseteq Caller

LEMMA HubStep == HubOK /\ [CallsNext]_allVars => HubOK'
<1> SUFFICES ASSUME HubOK, [CallsNext]_allVars PROVE HubOK'
  OBVIOUS
<1>1. ASSUME UNCHANGED hub PROVE HubOK'
  BY <1>1 DEF HubOK, hub
<1>2. CASE Foreign
  BY <1>2 DEF Foreign, HubOK
<1>3. ASSUME NEW c \in Caller, Begin(c) \/ BeginFails(c) \/ Step(c) PROVE HubOK'
  <2>1. CASE Search(c) \/ Create(c)
    BY <2>1 DEF Search, Create, Seen, HubOK
  <2>2. CASE ~(Search(c) \/ Create(c))
    BY <1>1, <1>3, <2>2 DEF Begin, BeginFails, Step, Check, CheckFails, Acquire,
       AcquireFails, Admit, Reject, GateFails, Complete, Record, RecordFails, Meter,
       MeterFails, Deliver, DeliverFails, Returns, Die
  <2> QED
    BY <2>1, <2>2
<1> QED
  BY <1>1, <1>2, <1>3 DEF CallsNext, TimePasses, allVars

\* The client stacks keep their types, with the breaker they wrap.
THEOREM CallsTypeCorrect == CallsSpec => []CallsTypeOK
<1>1. CallsInit => HubOK
  BY DEF CallsInit, HubOK
<1>2. TypeOK /\ LocalInv /\ BudgetInv /\ MoneyInv /\ CountInv /\ HubOK => CallsTypeOK
  BY DEF CallsTypeOK, HubOK, LocalInv, CallRec, BudgetInv, MoneyInv, CountInv
<1>3. CallsSpec => []TypeOK
  BY CallsUseTheBreaker, RedisTypeCorrect, PTL
<1> QED
  BY <1>1, <1>2, <1>3, HubStep, LocalInit, LocalStep, BudgetInit, BudgetStep, MoneyInit,
     MoneyStep, CountInit, CountStep, PTL DEF CallsSpec
=============================================================================
