------------------------- MODULE ClientGuardProofs --------------------------
(***************************************************************************)
(* Proofs about the two guards that a process puts in front of a provider: *)
(* CircuitBreaker, for any number of callers and any threshold, window and *)
(* cooldown, and TokenBucket, for any number of callers, rate, burst and   *)
(* delay.  The two specifications share no variable.                       *)
(***************************************************************************)
EXTENDS CircuitBreaker, TokenBucket, FiniteSetTheorems, TLAPS

Age == 0 .. Window + 1

\* Pruning a list of ages leaves a list of ages.
LEMMA PrunedType ==
  ASSUME NEW f \in Seq(Age)
  PROVE  Pruned(f) \in Seq(Age)
<1>1. Stale(f) \subseteq 1 .. Len(f) /\ IsFiniteSet(1 .. Len(f))
  BY FS_Interval DEF Stale
<1>2. IsFiniteSet(Stale(f))
  BY <1>1, FS_Subset
<1>3. Cardinality(Stale(f)) \in Nat
  BY <1>2, FS_CardinalityType
<1> DEFINE m == Cardinality(Stale(f)) + 1
<1>4. m \in Nat \ {0}
  BY <1>3
<1> HIDE DEF m
<1>5. SubSeq(f, m, Len(f)) \in Seq(Age)
  BY <1>4
<1> QED
  BY <1>5 DEF Pruned, m

\* Adding a failure and pruning leaves a list of ages.
LEMMA RecordedType ==
  ASSUME NEW f \in Seq(Age)
  PROVE  Pruned(Append(f, 0)) \in Seq(Age)
<1>1. 0 \in Age
  BY BreakerAssumption DEF Age
<1>2. Append(f, 0) \in Seq(Age)
  BY <1>1
<1> QED
  BY <1>2, PrunedType

\* The inductive invariant: types, and the two safety properties.
BreakerInv == TypeOK /\ ClosedIsHealthy /\ HalfOpenHasProbe

\* A new bucket satisfies the invariant.
LEMMA BreakerInvInit == Init => BreakerInv
<1> SUFFICES ASSUME Init PROVE BreakerInv
  OBVIOUS
<1>1. Len(failures) = 0 /\ failures \in Seq(0 .. Window + 1)
  BY DEF Init
<1>2. inFlight \in BOOLEAN
  BY DEF Init
<1>3. /\ state \in BreakerState /\ openAge \in 0 .. Cooldown
      /\ pc \in [Caller -> {"idle", "call", "probe"}]
  BY BreakerAssumption DEF Init, BreakerState
<1>4. TypeOK
  BY <1>1, <1>2, <1>3 DEF TypeOK
<1>5. ClosedIsHealthy
  BY <1>1, BreakerAssumption DEF ClosedIsHealthy
<1>6. HalfOpenHasProbe
  BY DEF Init, HalfOpenHasProbe
<1> QED
  BY <1>4, <1>5, <1>6 DEF BreakerInv

\* A call that is let through changes nothing the invariant is about, except
\* that the breaker was closed and not half open.
LEMMA PassPreserves ==
  ASSUME BreakerInv, NEW c \in Caller, Pass(c)
  PROVE  BreakerInv'
BY DEF BreakerInv, TypeOK, ClosedIsHealthy, HalfOpenHasProbe, Pass, BreakerState

\* The caller that opens the probing phase is its probe.
LEMMA ProbePreserves ==
  ASSUME BreakerInv, NEW c \in Caller, Probe(c)
  PROVE  BreakerInv'
BY DEF BreakerInv, TypeOK, ClosedIsHealthy, HalfOpenHasProbe, Probe, BreakerState

\* A probe that ends leaves HALF_OPEN with an empty failure log.
LEMMA ProbeEndPreserves ==
  ASSUME BreakerInv, NEW c \in Caller, ProbeSucceeds(c) \/ ProbeFails(c)
  PROVE  BreakerInv'
<1>1. /\ state' \in {"CLOSED", "OPEN"} /\ failures' = <<>> /\ openAge' = 0
      /\ inFlight' = FALSE /\ pc' = [pc EXCEPT ![c] = "idle"]
  BY DEF ProbeSucceeds, ProbeFails
<1>2. Len(failures') = 0 /\ failures' \in Seq(0 .. Window + 1)
  BY <1>1
<1>3. inFlight' \in BOOLEAN
  BY <1>1
<1>4. /\ state' \in BreakerState /\ openAge' \in 0 .. Cooldown
      /\ pc' \in [Caller -> {"idle", "call", "probe"}]
  BY <1>1, BreakerAssumption DEF BreakerInv, TypeOK, BreakerState
<1>5. TypeOK'
  BY <1>2, <1>3, <1>4 DEF TypeOK
<1>6. ClosedIsHealthy'
  BY <1>2, BreakerAssumption DEF ClosedIsHealthy
<1>7. HalfOpenHasProbe'
  BY <1>1 DEF HalfOpenHasProbe
<1> QED
  BY <1>5, <1>6, <1>7 DEF BreakerInv

\* An ordinary call that ends is not the probe; one that fails either trips
\* the breaker or leaves fewer failures than the threshold.
LEMMA CallEndPreserves ==
  ASSUME BreakerInv, NEW c \in Caller, CallEnds(c) \/ CallFails(c)
  PROVE  BreakerInv'
<1>1. CASE CallEnds(c)
  BY <1>1 DEF BreakerInv, TypeOK, ClosedIsHealthy, HalfOpenHasProbe, CallEnds,
              BreakerState
<1>2. CASE CallFails(c)
  <2> DEFINE f == Pruned(Append(failures, 0))
  <2>1. failures' = f /\ f \in Seq(0 .. Window + 1) /\ Len(f) \in Nat
    BY <1>2, RecordedType DEF BreakerInv, TypeOK, CallFails, Age
  <2> HIDE DEF f
  <2>2. /\ state' = IF Len(f) >= Threshold THEN "OPEN" ELSE state
        /\ openAge' = IF Len(f) >= Threshold THEN 0 ELSE openAge
        /\ pc' = [pc EXCEPT ![c] = "idle"] /\ pc[c] = "call"
        /\ inFlight' = inFlight
    BY <1>2 DEF CallFails, Trips, f
  <2>3. TypeOK'
    BY <2>1, <2>2, BreakerAssumption DEF BreakerInv, TypeOK, BreakerState
  <2>4. ClosedIsHealthy'
    BY <2>1, <2>2, BreakerAssumption DEF ClosedIsHealthy
  <2>5. HalfOpenHasProbe'
    BY <2>2 DEF BreakerInv, TypeOK, HalfOpenHasProbe
  <2> QED
    BY <2>3, <2>4, <2>5 DEF BreakerInv
<1> QED
  BY <1>1, <1>2

\* Time only ages the stamps.
LEMMA TickPreserves ==
  ASSUME BreakerInv, Tick
  PROVE  BreakerInv'
<1>1. failures' \in Seq(0 .. Window + 1) /\ Len(failures') = Len(failures)
  BY BreakerAssumption DEF BreakerInv, TypeOK, Tick, Older
<1>2. openAge' \in 0 .. Cooldown
  BY BreakerAssumption DEF BreakerInv, TypeOK, Tick, Older
<1> QED
  BY <1>1, <1>2 DEF BreakerInv, TypeOK, ClosedIsHealthy, HalfOpenHasProbe, Tick

\* Every gate, outcome and tick preserves the invariant.
LEMMA BreakerInvStep == BreakerInv /\ [Next]_vars => BreakerInv'
<1> SUFFICES ASSUME BreakerInv, [Next]_vars PROVE BreakerInv'
  OBVIOUS
<1>1. CASE UNCHANGED vars
  BY <1>1 DEF vars, BreakerInv, TypeOK, ClosedIsHealthy, HalfOpenHasProbe
<1>2. CASE Tick
  BY <1>2, TickPreserves
<1>3. ASSUME NEW c \in Caller, Pass(c) \/ Probe(c) \/ End(c)
      PROVE  BreakerInv'
  BY <1>3, PassPreserves, ProbePreserves, ProbeEndPreserves, CallEndPreserves
  DEF End
<1> QED
  BY <1>1, <1>2, <1>3 DEF Next

\* BreakerInv is an invariant of the breaker of a process.
THEOREM BreakerIsSafe == Spec => []BreakerInv
BY BreakerInvInit, BreakerInvStep, PTL DEF Spec

\* InMemoryCircuitBreaker lets calls through only below the threshold.
THEOREM ClosedBreakerIsHealthy == Spec => []ClosedIsHealthy
<1>1. BreakerInv => ClosedIsHealthy
  BY DEF BreakerInv
<1> QED
  BY <1>1, BreakerIsSafe, PTL

\* InMemoryCircuitBreaker is never half open without a running probe, so it
\* never rejects callers with nobody left to close it.
THEOREM ProbingHasProbe == Spec => []HalfOpenHasProbe
<1>1. BreakerInv => HalfOpenHasProbe
  BY DEF BreakerInv
<1> QED
  BY <1>1, BreakerIsSafe, PTL
-----------------------------------------------------------------------------
(* Which failures trip the breaker *)

\* Failures are recorded oldest first.
OldestFirst(f) == \A i, j \in 1 .. Len(f) : i <= j => f[i] >= f[j]

\* The recorded ages are numbers.
LEMMA AgesAreNumbers ==
  ASSUME NEW f \in Seq(Age)
  PROVE  Len(f) \in Nat /\ \A k \in 1 .. Len(f) : f[k] \in Nat
<1>1. Age \subseteq Nat
  BY BreakerAssumption DEF Age
<1>2. \A k \in 1 .. Len(f) : f[k] \in Age
  OBVIOUS
<1> QED
  BY <1>1, <1>2, Len(f) \in Nat

\* What pruning leaves is in order, and all of it lies in the window: dropping
\* the leading stale entries drops every stale entry.
LEMMA PrunedIsRecent ==
  ASSUME NEW f \in Seq(Age), OldestFirst(f)
  PROVE  /\ OldestFirst(Pruned(f))
         /\ \A i \in 1 .. Len(Pruned(f)) : Pruned(f)[i] <= Window
<1> DEFINE m == Cardinality(Stale(f))
<1>1. IsFiniteSet(Stale(f)) /\ m \in Nat
  <2>1. Stale(f) \subseteq 1 .. Len(f) /\ IsFiniteSet(1 .. Len(f))
    BY FS_Interval DEF Stale
  <2>2. IsFiniteSet(Stale(f))
    BY <2>1, FS_Subset
  <2> QED
    BY <2>2, FS_CardinalityType
<1>2. Len(f) \in Nat /\ \A k \in 1 .. Len(f) : f[k] \in Nat
  BY AgesAreNumbers
<1>3. ASSUME NEW k \in 1 .. Len(f), f[k] > Window
      PROVE  k <= m
  <2>1. \A i \in 1 .. k : i \in 1 .. Len(f)
    BY <1>2
  <2>2. \A j \in 1 .. k : f[j] > Window
    BY <1>2, <1>3, <2>1, BreakerAssumption DEF OldestFirst
  <2>3. 1 .. k \subseteq Stale(f)
    BY <2>1, <2>2 DEF Stale
  <2>4. Cardinality(1 .. k) = k
    BY FS_Interval
  <2>5. Cardinality(1 .. k) <= m
    BY <2>3, <1>1, FS_Subset
  <2> QED
    BY <2>4, <2>5
<1> HIDE DEF m
<1> DEFINE g == SubSeq(f, m + 1, Len(f))
<1>4. Pruned(f) = g
  BY DEF Pruned, m
<1>5. /\ Len(g) \in Nat
      /\ \A i \in 1 .. Len(g) : m + i \in 1 .. Len(f) /\ g[i] = f[m + i]
  BY <1>1, <1>2
<1> HIDE DEF g
<1>6. OldestFirst(g)
  BY <1>1, <1>5 DEF OldestFirst
<1>7. \A i \in 1 .. Len(g) : g[i] <= Window
  <2> TAKE i \in 1 .. Len(g)
  <2>1. m + i \in 1 .. Len(f) /\ ~(m + i <= m)
    BY <1>1, <1>5
  <2> QED
    BY <2>1, <1>2, <1>3, <1>5, BreakerAssumption
<1> QED
  BY <1>4, <1>6, <1>7

\* A failure recorded now is the youngest.
LEMMA RecordedIsRecent ==
  ASSUME NEW f \in Seq(Age), OldestFirst(f)
  PROVE  /\ OldestFirst(Pruned(Append(f, 0)))
         /\ \A i \in 1 .. Len(Pruned(Append(f, 0))) :
              Pruned(Append(f, 0))[i] <= Window
<1> DEFINE g == Append(f, 0)
<1>1. g \in Seq(Age)
  BY BreakerAssumption DEF Age
<1>2. /\ Len(f) \in Nat /\ Len(g) = Len(f) + 1 /\ g[Len(f) + 1] = 0
      /\ \A i \in 1 .. Len(f) : g[i] = f[i] /\ f[i] \in Nat
  BY AgesAreNumbers
<1> HIDE DEF g
<1>3. OldestFirst(g)
  BY <1>2 DEF OldestFirst
<1>4. /\ OldestFirst(Pruned(g))
      /\ \A i \in 1 .. Len(Pruned(g)) : Pruned(g)[i] <= Window
  BY <1>1, <1>3, PrunedIsRecent
<1> QED
  BY <1>4 DEF g

\* The log of failures is in order, also while time passes.
LEMMA OrderStep ==
  ASSUME BreakerInv, OldestFirst(failures), [Next]_vars
  PROVE  OldestFirst(failures)'
<1>1. failures \in Seq(Age)
  BY DEF BreakerInv, TypeOK, Age
<1>2. CASE UNCHANGED failures
  BY <1>2 DEF OldestFirst
<1>3. CASE Tick
  <2>1. /\ Len(failures) \in Nat
        /\ \A i \in 1 .. Len(failures) : failures[i] \in Nat
    BY <1>1, AgesAreNumbers
  <2>2. /\ Len(failures') = Len(failures)
        /\ \A i \in 1 .. Len(failures) : failures'[i] = Older(failures[i], Window + 1)
    BY <1>1, <1>3 DEF Tick
  <2> QED
    BY <2>1, <2>2, BreakerAssumption DEF OldestFirst, Older
<1>4. ASSUME NEW c \in Caller, ProbeSucceeds(c) \/ ProbeFails(c)
      PROVE  OldestFirst(failures)'
  <2>1. Len(failures') = 0
    BY <1>4 DEF ProbeSucceeds, ProbeFails
  <2> QED
    BY <2>1 DEF OldestFirst
<1>5. ASSUME NEW c \in Caller, CallFails(c)
      PROVE  OldestFirst(failures)'
  <2>1. failures' = Pruned(Append(failures, 0))
    BY <1>5 DEF CallFails
  <2>2. OldestFirst(Pruned(Append(failures, 0)))
    BY <1>1, RecordedIsRecent
  <2> QED
    BY <2>1, <2>2 DEF OldestFirst
<1> QED
  BY <1>2, <1>3, <1>4, <1>5 DEF Next, End, Pass, Probe, CallEnds, vars

\* InMemoryCircuitBreaker opens on a threshold of failures that all lie within
\* the trailing window, because _record_outcome's popleft loop sees them
\* oldest first.
THEOREM TripsAreRecent == Spec => TripIsRecent
<1> DEFINE Trip ==
      state = "CLOSED" /\ state' = "OPEN" /\ (\A c \in Caller : pc[c] # "probe")
        => /\ Len(failures') >= Threshold
           /\ \A i \in DOMAIN failures' : failures'[i] <= Window
<1> DEFINE Ordered == OldestFirst(failures)
<1>1. Init => Ordered
  BY DEF Init, OldestFirst
<1>2. BreakerInv /\ Ordered /\ [Next]_vars => Ordered'
  BY OrderStep
<1>3. ASSUME BreakerInv, Ordered, [Next]_vars
      PROVE  Trip
  <2> SUFFICES ASSUME state = "CLOSED", state' = "OPEN",
                      \A c \in Caller : pc[c] # "probe"
               PROVE  /\ Len(failures') >= Threshold
                      /\ \A i \in DOMAIN failures' : failures'[i] <= Window
    OBVIOUS
  <2>1. PICK c \in Caller : CallFails(c)
    BY <1>3 DEF Next, vars, Tick, Pass, Probe, End, ProbeSucceeds, ProbeFails, CallEnds
  <2> DEFINE f == Pruned(Append(failures, 0))
  <2>2. failures' = f /\ Trips(f)
    BY <2>1 DEF CallFails
  <2>3. failures \in Seq(Age)
    BY <1>3 DEF BreakerInv, TypeOK, Age
  <2>4. f \in Seq(Age) /\ \A i \in 1 .. Len(f) : f[i] <= Window
    BY <1>3, <2>3, RecordedType, RecordedIsRecent
  <2> HIDE DEF f
  <2>5. DOMAIN f = 1 .. Len(f)
    BY <2>4
  <2> QED
    BY <2>2, <2>4, <2>5 DEF Trips
<1>4. ASSUME BreakerInv, Ordered, [Next]_vars
      PROVE  [Trip]_vars
  BY <1>3, <1>4
<1> QED
  BY <1>1, <1>2, <1>4, BreakerIsSafe, PTL DEF Spec, TripIsRecent

-----------------------------------------------------------------------------
(* TokenBucket: arithmetic *)

\* What a number of ticks is worth.
LEMMA Worth ==
  ASSUME NEW a \in Int, NEW b \in Int
  PROVE  /\ a * Rate \in Int /\ (a + b) * Rate = a * Rate + b * Rate
         /\ (a - b) * Rate = a * Rate - b * Rate
         /\ a <= b => a * Rate <= b * Rate
         /\ 0 * Rate = 0 /\ 1 * Rate = Rate
<1>1. Rate \in Nat
  BY BucketAssumption
<1>2. a * Rate \in Int /\ (a + b) * Rate = a * Rate + b * Rate
  BY <1>1
<1>3. (a - b) * Rate = a * Rate - b * Rate
  BY <1>1
<1>4. a <= b => a * Rate <= b * Rate
  BY <1>1
<1>5. 0 * Rate = 0 /\ 1 * Rate = Rate
  BY <1>1
<1> QED
  BY <1>2, <1>3, <1>4, <1>5

\* What a number of tokens is worth.
LEMMA Units ==
  ASSUME NEW a \in Nat
  PROVE  /\ a * Unit \in Nat
         /\ a <= Burst => a * Unit <= Full
<1>1. Unit \in Nat /\ Burst \in Nat
  BY BucketAssumption
<1>2. a * Unit \in Nat
  BY <1>1
<1>3. a <= Burst => a * Unit <= Burst * Unit
  BY <1>1
<1> QED
  BY <1>2, <1>3 DEF Full

LEMMA BucketLimits ==
  /\ Unit \in Nat /\ Unit > 0 /\ Rate \in Nat /\ Rate > 0
  /\ Burst \in Nat /\ Burst > 0 /\ Second \in Nat /\ Second > 0
  /\ MaxCost \in Nat /\ MaxDelay \in Nat /\ MaxAge \in Nat /\ Full \in Nat
  /\ MaxSkew \in Nat /\ MaxBack \in Nat
  /\ \A c \in Client : Offset[c] \in Nat /\ Offset[c] <= MaxSkew
<1>1. Burst \in Nat
  BY BucketAssumption
<1>2. Full \in Nat
  BY <1>1, Units DEF Full
<1>3. \A c \in Client : Offset[c] \in 0 .. MaxSkew
  BY BucketAssumption
<1> QED
  BY <1>2, <1>3, BucketAssumption

\* A bucket that is as old as can be told is full, whatever lag is allowed for.
LEMMA OldIsFull ==
  (MaxAge - MaxDelay) * Rate >= Full /\ MaxDelay <= MaxAge
<1>1. (MaxAge - MaxDelay) * Rate >= Full
  BY BucketAssumption
<1>2. MaxAge - MaxDelay <= 0 => (MaxAge - MaxDelay) * Rate <= 0
  <2>1. MaxAge - MaxDelay \in Int
    BY BucketLimits
  <2> QED
    BY <2>1, Worth
<1>3. Full > 0
  BY BucketLimits DEF Full
<1>4. ~(MaxAge - MaxDelay <= 0)
  <2>1. (MaxAge - MaxDelay) * Rate \in Int
    BY BucketLimits
  <2> QED
    BY <1>1, <1>2, <1>3, <2>1, BucketLimits
<1> QED
  BY <1>1, <1>4, BucketLimits

\* Rounding up covers what is rounded.
LEMMA CeilCovers ==
  ASSUME NEW a \in Nat, NEW b \in Nat, b > 0
  PROVE  Ceil(a, b) \in Nat /\ Ceil(a, b) * b >= a
<1> DEFINE x == a + b - 1
<1>1. x \in Nat
  OBVIOUS
<1>2. x \div b \in Nat /\ x < (x \div b) * b + b
  <2> HIDE DEF x
  <2> QED
    BY <1>1
<1>3. (x \div b) * b \in Nat
  <2> HIDE DEF x
  <2> QED
    BY <1>2
<1> QED
  BY <1>2, <1>3 DEF Ceil

\* The time given to a refused caller yields the tokens that were missing.
LEMMA RetryCovers ==
  ASSUME NEW n \in Nat
  PROVE  RetryAfter(n) \in Nat /\ RetryAfter(n) * Rate >= n
<1>1. Ceil(n, Rate) \in Nat /\ Ceil(n, Rate) * Rate >= n
  BY CeilCovers, BucketLimits
<1>2. RetryAfter(n) \in Nat /\ RetryAfter(n) >= Ceil(n, Rate)
  BY <1>1 DEF RetryAfter, AtLeast
<1>3. Ceil(n, Rate) * Rate <= RetryAfter(n) * Rate
  BY <1>1, <1>2, Worth
<1>4. Ceil(n, Rate) * Rate \in Int /\ RetryAfter(n) * Rate \in Int
  BY <1>1, <1>2, BucketLimits
<1> QED
  BY <1>1, <1>2, <1>3, <1>4

\* A key lives long enough to fill its bucket twice.
LEMMA LifetimeCovers ==
  Lifetime \in Nat /\ Lifetime * Rate \in Int /\ Lifetime * Rate >= 2 * Full
<1> DEFINE q == Rate * Second
<1> DEFINE k == Ceil(2 * Full, q)
<1> DEFINE n == AtLeast(1, k)
<1>1. q \in Nat /\ q > 0
  BY BucketLimits
<1>2. k \in Nat /\ k * q >= 2 * Full
  <2> HIDE DEF q
  <2>1. 2 * Full \in Nat
    BY BucketLimits
  <2> QED
    BY <1>1, <2>1, CeilCovers
<1>3. n \in Nat /\ k <= n
  <2> HIDE DEF k
  <2> QED
    BY <1>2 DEF AtLeast
<1>4. k * q <= n * q /\ k * q \in Int /\ n * q \in Int
  <2> HIDE DEF k, n, q
  <2> QED
    BY <1>1, <1>2, <1>3
<1>5. Lifetime = n * Second
  BY DEF Lifetime
<1>6. Lifetime * Rate = n * q
  <2> HIDE DEF n
  <2> QED
    BY <1>3, <1>5, BucketLimits
<1>7. Lifetime \in Nat
  <2> HIDE DEF n
  <2> QED
    BY <1>3, <1>5, BucketLimits
<1> HIDE DEF n, k, q
<1> QED
  BY <1>2, <1>4, <1>6, <1>7, BucketLimits

-----------------------------------------------------------------------------
(* TokenBucket: one decision *)

\* The parts of the bucket's type.
LEMMA BucketParts ==
  ASSUME BucketTypeOK
  PROVE  /\ tokens \in Nat /\ tokens <= Full /\ since \in Int /\ ttl \in Nat
         /\ steady \in Int /\ stored \in BOOLEAN /\ back \in Nat
         /\ Lag \in Nat /\ Lag <= MaxDelay /\ Skew \in Nat /\ Skew <= MaxSkew
         /\ \A c \in Client : /\ call[c].cost \in Nat /\ call[c].age \in Nat
                              /\ call[c].cost <= MaxCost /\ call[c].age <= MaxDelay
                              /\ hint[c].cost \in Nat /\ hint[c].left \in Nat
                              /\ hint[c].cost <= MaxCost /\ Ahead(c) \in Nat
<1>1. \A c \in Client : call[c] \in [cost : 0 .. MaxCost, age : 0 .. MaxDelay]
                        /\ hint[c] \in [cost : 0 .. MaxCost, left : Nat]
  BY DEF BucketTypeOK
<1>2. \A c \in Client : /\ call[c].cost \in Nat /\ call[c].age \in Nat
                        /\ call[c].cost <= MaxCost /\ call[c].age <= MaxDelay
                        /\ hint[c].cost \in Nat /\ hint[c].left \in Nat
                        /\ hint[c].cost <= MaxCost
  BY <1>1, BucketLimits
<1>3. /\ Lag \in Nat /\ Lag <= MaxDelay /\ Skew \in Nat /\ Skew <= MaxSkew
      /\ \A c \in Client : Ahead(c) \in Nat
  BY BucketLimits DEF Lag, Skew, Ahead
<1>4. ttl \in Nat /\ back \in Nat
  BY LifetimeCovers, BucketLimits DEF BucketTypeOK
<1> QED
  BY <1>2, <1>3, <1>4, BucketLimits DEF BucketTypeOK

\* What a clock in the past or in the future credits, and what it takes back.
LEMMA Moves ==
  ASSUME NEW a \in Int, NEW b \in Int
  PROVE  /\ AtLeast(0, a - b) \in Nat /\ AtLeast(0, b - a) \in Nat
         /\ AtLeast(0, a - b) = AtLeast(0, b - a) + (a - b)
         /\ AtLeast(0, a - b) * Rate \in Int /\ AtLeast(0, a - b) * Rate >= 0
         /\ AtLeast(0, b - a) * Rate \in Int /\ AtLeast(0, b - a) * Rate >= 0
<1> DEFINE u == AtLeast(0, a - b)
<1> DEFINE v == AtLeast(0, b - a)
<1>1. u \in Nat /\ v \in Nat /\ u = v + (a - b)
  BY DEF AtLeast
<1> HIDE DEF u, v
<1>2. u * Rate \in Int /\ v * Rate \in Int /\ 0 * Rate = 0
      /\ 0 * Rate <= u * Rate /\ 0 * Rate <= v * Rate
  BY <1>1, Worth
<1>3. u * Rate >= 0 /\ v * Rate >= 0
  BY <1>2
<1> QED
  BY <1>1, <1>2, <1>3 DEF u, v

(***************************************************************************)
(* The level a caller finds whose clock makes w the age of the new stamp:  *)
(* full, or the tokens and what came between the stamps.                   *)
(***************************************************************************)
LEMMA LevelFound ==
  ASSUME BucketTypeOK, NEW w \in Int
  PROVE  LET level == Refilled(since - w) IN
         /\ level \in Nat /\ level <= Full
         /\ stored => /\ level <= tokens + AtLeast(0, since - w) * Rate
                      /\ \/ level = Full
                         \/ level = tokens + AtLeast(0, since - w) * Rate
         /\ ~stored => level = Full
<1> DEFINE gained == AtLeast(0, since - w) * Rate
<1>1. gained \in Int /\ gained >= 0
  BY BucketParts, Moves
<1>2. tokens \in Nat /\ Full \in Nat /\ tokens <= Full
  BY BucketParts, BucketLimits
<1>3. CASE stored
  <2>1. Refilled(since - w) = AtMost(Full, tokens + gained)
    BY <1>3 DEF Refilled
  <2> HIDE DEF gained
  <2>2. LET level == AtMost(Full, tokens + gained) IN
        /\ level \in Nat /\ level <= Full /\ level <= tokens + gained
        /\ level = Full \/ level = tokens + gained
    BY <1>1, <1>2 DEF AtMost
  <2> QED
    BY <1>3, <2>1, <2>2 DEF gained
<1>4. CASE ~stored
  BY <1>2, <1>4 DEF Refilled
<1> QED
  BY <1>3, <1>4

\* The ticks that a stamp of age w moves the stored one back.
Back(w) == IF stored THEN AtLeast(0, w - since) ELSE 0

(***************************************************************************)
(* What is found is backed by the steady bucket, a lag later, with the     *)
(* ticks that stamps were moved back.                                      *)
(***************************************************************************)
LEMMA LevelIsBacked ==
  ASSUME BucketInv, NEW w \in Int, w <= Lag
  PROVE  Refilled(since - w) + (w - Lag) * Rate <= Covered + Back(w) * Rate
<1> DEFINE level == Refilled(since - w)
<1> DEFINE g == AtLeast(0, since - w)
<1> DEFINE x == g * Rate
<1> DEFINE m == Back(w) * Rate
<1> DEFINE y == (w - Lag) * Rate
<1> DEFINE z == (since - Lag) * Rate
<1>1. BucketTypeOK /\ LevelInv
  BY DEF BucketInv, HintsInv
<1>2. /\ level \in Nat /\ level <= Full
      /\ stored => level <= tokens + x
      /\ tokens \in Nat /\ Full \in Nat /\ since \in Int /\ Lag \in Nat
      /\ steady \in Int /\ back \in Nat
  BY <1>1, LevelFound, BucketParts, BucketLimits
<1>3. Covered \in Int
  <2>1. back * Rate \in Int
    BY <1>2, Worth
  <2> QED
    BY <1>2, <2>1 DEF Covered
<1>4. y \in Int /\ z \in Int /\ y <= 0
  <2>1. w - Lag \in Int /\ since - Lag \in Int /\ w - Lag <= 0
    BY <1>2
  <2>2. y \in Int /\ z \in Int /\ (w - Lag) * Rate <= 0 * Rate /\ 0 * Rate = 0
    BY <2>1, Worth
  <2> QED
    BY <2>2
<1>5. m \in Int /\ m >= 0 /\ x \in Int
  <2>1. CASE stored
    <3>1. m = AtLeast(0, w - since) * Rate
      BY <2>1 DEF Back
    <3> QED
      BY <1>2, <3>1, Moves
  <2>2. CASE ~stored
    <3>1. m = 0 * Rate
      BY <2>2 DEF Back
    <3>2. 0 * Rate = 0
      BY BucketLimits
    <3>3. x \in Int
      BY <1>2, Moves
    <3> HIDE DEF m, x
    <3> QED
      BY <3>1, <3>2, <3>3
  <2> QED
    BY <2>1, <2>2
<1>6. stored => x + y = m + z
  <2> SUFFICES ASSUME stored PROVE x + y = m + z
    OBVIOUS
  <2> DEFINE b == AtLeast(0, w - since)
  <2>1. b \in Int /\ g \in Int /\ g = b + (since - w) /\ m = b * Rate
    BY <1>2, Moves DEF Back
  <2> HIDE DEF b, g
  <2>2. g + (w - Lag) = b + (since - Lag) /\ w - Lag \in Int /\ since - Lag \in Int
    BY <1>2, <2>1
  <2>3. (g + (w - Lag)) * Rate = g * Rate + (w - Lag) * Rate
    BY <2>1, <2>2, Worth
  <2>4. (b + (since - Lag)) * Rate = b * Rate + (since - Lag) * Rate
    BY <2>1, <2>2, Worth
  <2> QED
    BY <2>1, <2>2, <2>3, <2>4
<1>7. (stored /\ tokens + z <= Covered) \/ Covered >= Full
  BY <1>1 DEF LevelInv
<1> HIDE DEF level, x, y, z, m
<1>8. level + y <= Covered + m
  BY <1>2, <1>3, <1>4, <1>5, <1>6, <1>7
<1> QED
  BY <1>8 DEF level, y, m

(***************************************************************************)
(* A written bucket is backed, and the steady one is not overdrawn by more *)
(* than a lag and a skew beyond what was moved back, whether or not the    *)
(* answer reaches the caller.                                              *)
(***************************************************************************)
LEMMA WrittenIsBacked ==
  ASSUME BucketInv, NEW w \in Int, w <= Lag, -Skew <= w, NEW cost \in Nat,
         WriteBack(Refilled(since - w), cost, w),
         \/ steady' = steady
         \/ Granted(Refilled(since - w), cost) /\ steady' = steady - cost * Unit,
         back' = back + Back(w)
  PROVE  /\ steady' <= Full /\ Covered' \in Int
         /\ tokens' + (w - Lag) * Rate <= Covered'
         /\ Covered' + (Lag + Skew) * Rate >= 0
<1> DEFINE level == Refilled(since - w)
<1> DEFINE k == cost * Unit
<1> DEFINE y == (w - Lag) * Rate
<1> DEFINE u == (Lag + Skew) * Rate
<1> DEFINE b == back * Rate
<1> DEFINE m == Back(w) * Rate
<1>1. BucketTypeOK /\ LevelInv
  BY DEF BucketInv, HintsInv
<1>2. level \in Nat /\ level <= Full
  BY <1>1, LevelFound
<1>3. level + y <= Covered + m
  BY LevelIsBacked
<1>4. /\ tokens' = IF level >= k THEN level - k ELSE level
      /\ steady' = steady \/ (level >= k /\ steady' = steady - k)
  BY DEF WriteBack, Granted
<1>5. k \in Nat /\ Full \in Nat /\ steady \in Int /\ steady <= Full
      /\ back \in Nat /\ Lag \in Nat /\ Skew \in Nat /\ since \in Int
  BY <1>1, Units, BucketParts, BucketLimits DEF LevelInv
<1>6. Back(w) \in Int
  BY <1>5 DEF Back, AtLeast
<1>7. b \in Int /\ m \in Int /\ Covered = steady + b /\ Covered' = steady' + (b + m)
  <2>1. (back + Back(w)) * Rate = b + m /\ b \in Int /\ m \in Int
    <3>1. back \in Int
      BY <1>5
    <3> QED
      BY <1>6, <3>1, Worth
  <2>2. Covered' = steady' + back' * Rate
    BY DEF Covered
  <2>3. back' * Rate = b + m
    BY <2>1
  <2> HIDE DEF b, m
  <2> QED
    BY <2>1, <2>2, <2>3 DEF Covered, b
<1>8. y \in Int /\ u \in Int /\ y + u >= 0
  <2>1. w - Lag \in Int /\ Lag + Skew \in Int /\ (w - Lag) + (Lag + Skew) \in Int
        /\ 0 <= (w - Lag) + (Lag + Skew)
    BY <1>5
  <2>2. y \in Int /\ u \in Int /\ ((w - Lag) + (Lag + Skew)) * Rate = y + u
    <3> DEFINE p == w - Lag
    <3> DEFINE q == Lag + Skew
    <3>1. p \in Int /\ q \in Int
      BY <2>1
    <3> HIDE DEF p, q
    <3>2. p * Rate \in Int /\ q * Rate \in Int /\ (p + q) * Rate = p * Rate + q * Rate
      BY <3>1, Worth
    <3> QED
      BY <3>2 DEF p, q
  <2>3. 0 * Rate <= ((w - Lag) + (Lag + Skew)) * Rate /\ 0 * Rate = 0
    <3> DEFINE p == (w - Lag) + (Lag + Skew)
    <3>1. p \in Int /\ 0 <= p
      BY <2>1
    <3> HIDE DEF p
    <3>2. 0 * Rate <= p * Rate /\ 0 * Rate = 0
      BY <3>1, Worth
    <3> QED
      BY <3>2 DEF p
  <2> HIDE DEF y, u
  <2> QED
    BY <2>2, <2>3
<1> HIDE DEF level, k, y, u, b, m
<1>9. steady' \in Int /\ steady' <= Full /\ tokens' \in Nat
  BY <1>2, <1>4, <1>5
<1>10. tokens' + y <= steady' + (b + m) /\ steady' + (b + m) \in Int
  <2>1. \A t, s \in Int : /\ t = IF level >= k THEN level - k ELSE level
                          /\ s = steady \/ (level >= k /\ s = steady - k)
                          => t + y <= s + (b + m)
    BY <1>2, <1>3, <1>5, <1>7, <1>8
  <2> QED
    BY <1>4, <1>7, <1>9, <2>1
<1>11. Covered' \in Int /\ tokens' + y <= Covered'
  BY <1>7, <1>10
<1>12. Covered' + u >= 0
  <2>1. \A t, s \in Int : t >= 0 /\ t + y <= s => s + u >= 0
    BY <1>8
  <2>2. tokens' \in Int /\ tokens' >= 0
    BY <1>9
  <2> QED
    BY <1>11, <2>1, <2>2
<1> QED
  BY <1>9, <1>11, <1>12 DEF y, u

\* A refusal of somebody else leaves a hint as good as it was.
LEMMA HintKept ==
  ASSUME HintsInv, NEW w \in Int, NEW c \in Client, hint[c].cost > 0
  PROVE  Refilled(since - w) + AtLeast(0, w + Ahead(c) + hint[c].left) * Rate
           >= hint[c].cost * Unit
<1> DEFINE level == Refilled(since - w)
<1> DEFINE h == Ahead(c) + hint[c].left
<1> DEFINE k == hint[c].cost * Unit
<1> DEFINE g == AtLeast(0, since - w)
<1> DEFINE n == AtLeast(0, w + h)
<1> DEFINE o == AtLeast(0, since + h)
<1> DEFINE x == g * Rate
<1> DEFINE y == n * Rate
<1> DEFINE z == o * Rate
<1>1. BucketTypeOK /\ HintInv
  BY DEF HintsInv
<1>2. Ahead(c) \in Nat /\ hint[c].left \in Nat /\ since \in Int /\ tokens \in Nat
      /\ hint[c].cost \in Nat
  BY <1>1, BucketParts
<1>3. /\ h \in Nat /\ since + Ahead(c) + hint[c].left = since + h
      /\ w + Ahead(c) + hint[c].left = w + h
  BY <1>2
<1>4. k \in Nat /\ k <= Full /\ (stored => tokens + z >= k)
  BY <1>1, <1>2, <1>3, Units DEF HintInv
<1>5. level \in Nat /\ (level = Full \/ (stored /\ level = tokens + x))
  BY <1>1, LevelFound
<1>6. Full \in Nat
  BY BucketLimits
<1>7. g \in Nat /\ n \in Nat /\ o \in Nat /\ o <= g + n
  <2> HIDE DEF h
  <2> QED
    BY <1>2, <1>3 DEF AtLeast
<1> HIDE DEF g, n, o
<1>8. x \in Int /\ y \in Int /\ z \in Int /\ y >= 0 /\ z <= x + y
  <2>0. g \in Int /\ n \in Int /\ o \in Int
    BY <1>7
  <2>1. x \in Int /\ y \in Int /\ z \in Int
    BY <2>0, Worth
  <2>2. (g + n) * Rate = x + y /\ z <= (g + n) * Rate
    <3>1. g + n \in Int
      BY <1>7
    <3>2. (g + n) * Rate = x + y
      BY <2>0, Worth
    <3>3. o * Rate <= (g + n) * Rate
      BY <1>7, <2>0, <3>1, Worth
    <3> QED
      BY <3>2, <3>3
  <2>3. 0 * Rate <= y /\ 0 * Rate = 0
    BY <1>7, <2>0, Worth
  <2> HIDE DEF x, y, z
  <2> QED
    BY <2>1, <2>2, <2>3
<1> HIDE DEF level, k, x, y, z
<1>9. level + y >= k
  BY <1>2, <1>4, <1>5, <1>6, <1>8
<1> QED
  BY <1>3, <1>9 DEF level, y, k, n

\* The hint of a refusal covers what was missing.
LEMMA HintGiven ==
  ASSUME NEW level \in Nat, NEW cost \in Nat, ~Granted(level, cost),
         NEW w \in Int, NEW o \in Int, w + o >= 0
  PROVE  LET left == RetryAfter(cost * Unit - level) IN
         left \in Nat /\ level + AtLeast(0, w + o + left) * Rate >= cost * Unit
<1> DEFINE k == cost * Unit
<1> DEFINE left == RetryAfter(k - level)
<1> DEFINE n == AtLeast(0, w + o + left)
<1> DEFINE v == left * Rate
<1> DEFINE y == n * Rate
<1>1. k \in Nat /\ k - level \in Nat
  <2>1. k \in Nat
    BY Units
  <2>2. ~(level >= k)
    BY DEF Granted
  <2> HIDE DEF k
  <2> QED
    BY <2>1, <2>2
<1>2. left \in Nat /\ v >= k - level
  <2> HIDE DEF k
  <2> QED
    BY <1>1, RetryCovers
<1>3. v \in Int /\ y \in Int /\ v <= y
  <2> HIDE DEF left
  <2>1. left \in Int /\ n \in Int /\ left <= n
    BY <1>2 DEF AtLeast
  <2> HIDE DEF n
  <2> QED
    BY <2>1, Worth
<1> HIDE DEF k, v, y
<1>4. level + y >= k
  BY <1>1, <1>2, <1>3
<1> QED
  BY <1>2, <1>4 DEF y, k

(***************************************************************************)
(* A decision that leaves a stamp of age w keeps the hints good and, with  *)
(* what it moves the stamp back, the bucket backed, whether the caller     *)
(* learns of it or not.                                                    *)
(***************************************************************************)
LEMMA DecisionKeeps ==
  ASSUME HintsInv, NEW c \in Client, NEW cost \in 1 .. MaxCost, NEW w \in Int, cost <= Burst,
         w <= Lag, -Skew <= w, w + Ahead(c) >= 0,
         WriteBack(Refilled(since - w), cost, w),
         \/ steady' = steady
         \/ Granted(Refilled(since - w), cost) /\ steady' = steady - cost * Unit,
         \/ Granted(Refilled(since - w), cost) /\ hint' = NoHints
         \/ ~Granted(Refilled(since - w), cost) /\ hint' = hint
         \/ /\ ~Granted(Refilled(since - w), cost)
            /\ hint' = [hint EXCEPT ![c] = [cost |-> cost,
                          left |-> RetryAfter(cost * Unit - Refilled(since - w))]],
         backend' = backend, back' = back + Back(w),
         (backend = "redis" /\ ttl' = Lifetime) \/ (backend # "redis" /\ ttl' = ttl)
  PROVE  /\ stored' = TRUE /\ since' = w /\ tokens' \in 0 .. Full /\ steady' \in Int
         /\ hint' \in [Client -> [cost : 0 .. MaxCost, left : Nat]]
         /\ ttl' \in 0 .. Lifetime
         /\ HintInv'
         /\ SkewIsSmall /\ BucketInv => LevelInv'
<1> DEFINE level == Refilled(since - w)
<1>1. BucketTypeOK /\ HintInv
  BY DEF HintsInv
<1>2. cost \in Nat /\ cost > 0 /\ cost <= MaxCost
  BY BucketLimits
<1>3. level \in Nat /\ level <= Full
  BY <1>1, LevelFound
<1>4. stored' = TRUE /\ since' = w /\ tokens' \in 0 .. Full /\ steady' \in Int
  <2> DEFINE k == cost * Unit
  <2>1. k \in Nat /\ steady \in Int /\ Full \in Nat
    BY <1>1, <1>2, Units, BucketParts, BucketLimits
  <2>2. /\ stored' = TRUE /\ since' = w
        /\ tokens' = IF level >= k THEN level - k ELSE level
        /\ steady' = steady \/ steady' = steady - k
    BY DEF WriteBack, Granted
  <2> HIDE DEF level, k
  <2> QED
    BY <1>3, <2>1, <2>2
<1>5. ttl' \in 0 .. Lifetime
  BY <1>1, LifetimeCovers DEF BucketTypeOK
<1>6. ASSUME SkewIsSmall, BucketInv
      PROVE  LevelInv'
  <2>1. Lag' = Lag /\ Full' = Full
    BY DEF Lag, Full
  <2>2. /\ steady' <= Full /\ Covered' \in Int
        /\ tokens' + (w - Lag) * Rate <= Covered'
        /\ Covered' + (Lag + Skew) * Rate >= 0
    BY <1>2, <1>6, WrittenIsBacked
  <2>3. backend = "redis" => Covered' + ttl' * Rate >= Full
    <3> SUFFICES ASSUME backend = "redis" PROVE Covered' + ttl' * Rate >= Full
      OBVIOUS
    <3> DEFINE v == (MaxDelay + MaxSkew) * Rate
    <3> DEFINE u == Lifetime * Rate
    <3>1. Lag = MaxDelay /\ Skew = MaxSkew /\ ttl' = Lifetime
      BY DEF Lag, Skew
    <3>2. v \in Int /\ v <= Full /\ u \in Int /\ u >= 2 * Full /\ Full \in Nat
      <4>1. MaxDelay + MaxSkew \in Int
        BY BucketLimits
      <4> QED
        BY <1>6, <4>1, Worth, BucketLimits, LifetimeCovers DEF SkewIsSmall
    <3>3. Covered' \in Int /\ Covered' + v >= 0
      BY <2>2, <3>1
    <3> HIDE DEF u, v
    <3>4. \A s \in Int : s + v >= 0 => s + u >= Full
      BY <3>2
    <3>5. Covered' + u >= Full
      BY <3>3, <3>4
    <3> QED
      BY <3>1, <3>5 DEF u
  <2> QED
    BY <1>4, <2>1, <2>2, <2>3 DEF LevelInv
<1>7. CASE Granted(level, cost) /\ hint' = NoHints
  <2>1. NoHints \in [Client -> [cost : 0 .. MaxCost, left : Nat]]
        /\ \A d \in Client : NoHints[d].cost = 0
    BY BucketLimits DEF NoHints, NoHint
  <2>2. HintInv'
    BY <1>7, <2>1 DEF HintInv
  <2> QED
    BY <1>4, <1>5, <1>6, <1>7, <2>1, <2>2
<1>8. CASE ~Granted(level, cost)
  <2> DEFINE left == RetryAfter(cost * Unit - level)
  <2>1. tokens' = level /\ \A d \in Client : Ahead(d)' = Ahead(d)
    BY <1>8 DEF WriteBack, Ahead
  <2>2. left \in Nat /\ level + AtLeast(0, w + Ahead(c) + left) * Rate >= cost * Unit
    <3>1. Ahead(c) \in Int
      BY <1>1, BucketParts
    <3> HIDE DEF level
    <3> QED
      BY <1>2, <1>3, <1>8, <3>1, HintGiven
  <2> HIDE DEF left
  <2>3. \A d \in Client : \/ hint'[d] = hint[d]
                          \/ d = c /\ hint'[d] = [cost |-> cost, left |-> left]
    BY <1>1, <1>7, <1>8 DEF BucketTypeOK, left
  <2>4. hint' \in [Client -> [cost : 0 .. MaxCost, left : Nat]]
    <3>1. [cost |-> cost, left |-> left] \in [cost : 0 .. MaxCost, left : Nat]
      BY <1>2, <2>2
    <3>2. hint \in [Client -> [cost : 0 .. MaxCost, left : Nat]]
      BY <1>1 DEF BucketTypeOK
    <3> QED
      BY <1>7, <1>8, <3>1, <3>2 DEF left
  <2>5. HintInv'
    <3> SUFFICES ASSUME NEW d \in Client, hint'[d].cost > 0
                 PROVE  /\ hint'[d].cost <= Burst
                        /\ level + AtLeast(0, w + Ahead(d) + hint'[d].left) * Rate
                             >= hint'[d].cost * Unit
      BY <1>4, <2>1 DEF HintInv
    <3>1. CASE hint'[d] = hint[d]
      <4>1. hint[d].cost > 0 /\ hint[d].cost <= Burst
        BY <1>1, <3>1 DEF HintInv
      <4>2. level + AtLeast(0, w + Ahead(d) + hint[d].left) * Rate >= hint[d].cost * Unit
        BY <4>1, HintKept
      <4> HIDE DEF level
      <4> QED
        BY <3>1, <4>1, <4>2
    <3>2. CASE d = c /\ hint'[d] = [cost |-> cost, left |-> left]
      <4>1. hint'[d].cost = cost /\ hint'[d].left = left
        BY <3>2
      <4> HIDE DEF level
      <4> QED
        BY <3>2, <4>1, <2>2
    <3> QED
      BY <2>3, <3>1, <3>2
  <2> QED
    BY <1>4, <1>5, <1>6, <2>4, <2>5
<1> QED
  BY <1>7, <1>8

-----------------------------------------------------------------------------
(* TokenBucket: the steps *)

LEMMA BucketInvInit == BucketInit => BucketInv
<1> SUFFICES ASSUME BucketInit PROVE BucketInv
  OBVIOUS
<1>1. /\ backend \in Backends /\ stored = FALSE /\ tokens = 0 /\ since = 0 /\ ttl = 0
      /\ call = [c \in Client |-> NoCall] /\ hint = [c \in Client |-> NoHint]
      /\ steady = Full /\ back = 0
  BY DEF BucketInit, NoHints
<1>2. \A c \in Client : call[c] = NoCall /\ hint[c].cost = 0
  BY <1>1 DEF NoHint
<1>3. BucketTypeOK
  <2>1. call \in [Client -> [cost : 0 .. MaxCost, age : 0 .. MaxDelay]]
    BY <1>1, BucketLimits DEF NoCall
  <2>2. hint \in [Client -> [cost : 0 .. MaxCost, left : Nat]]
    BY <1>1, BucketLimits DEF NoHint
  <2>3. tokens \in 0 .. Full /\ ttl \in 0 .. Lifetime /\ steady \in Int /\ since \in Int
        /\ back \in 0 .. MaxBack
    BY <1>1, BucketLimits, LifetimeCovers
  <2>4. stored \in BOOLEAN
    BY <1>1
  <2> QED
    BY <1>1, <2>1, <2>2, <2>3, <2>4 DEF BucketTypeOK
<1>4. CallsInv
  BY <1>1, <1>2 DEF CallsInv, InFlight
<1>5. LevelInv
  <2>1. 0 * Rate = 0 /\ Full \in Nat
    BY BucketLimits
  <2>2. Covered = Full
    BY <1>1, <2>1 DEF Covered
  <2> QED
    BY <1>1, <2>1, <2>2 DEF LevelInv
<1>6. HintInv
  BY <1>2 DEF HintInv
<1> QED
  BY <1>3, <1>4, <1>5, <1>6 DEF BucketInv, HintsInv

\* In the process-local bucket the clock is read under the lock: no lag.
LEMMA AcquireStep ==
  ASSUME HintsInv, NEW c \in Client, NEW cost \in 1 .. MaxCost, Acquire(c, cost)
  PROVE  HintsInv' /\ (SkewIsSmall /\ BucketInv => BucketInv')
<1>1. /\ backend = "memory" /\ cost <= Burst /\ Decide(c, cost, since, 0)
      /\ UNCHANGED <<backend, ttl, call, back>>
  BY DEF Acquire
<1>2. BucketTypeOK /\ CallsInv
  BY DEF HintsInv
<1>3. /\ since - 0 = since /\ 0 \in Int /\ 0 <= Lag /\ -Skew <= 0 /\ Skew = 0
      /\ 0 + Ahead(c) >= 0 /\ back \in Nat /\ since \in Int
  BY <1>1, <1>2, BucketParts DEF Skew, Ahead
<1>4. /\ WriteBack(Refilled(since - 0), cost, 0)
      /\ hint' = IF Granted(Refilled(since - 0), cost) THEN NoHints
                 ELSE [hint EXCEPT ![c] = [cost |-> cost,
                         left |-> RetryAfter(cost * Unit - Refilled(since - 0))]]
      /\ steady' = IF Granted(Refilled(since - 0), cost) THEN steady - cost * Unit
                   ELSE steady
  BY <1>1, <1>3 DEF Decide
<1>5. back' = back + Back(0)
  <2>1. stored => since >= 0
    BY <1>2, <1>3, BucketLimits DEF CallsInv
  <2>2. Back(0) = 0
    BY <1>3, <2>1 DEF Back, AtLeast
  <2> QED
    BY <1>1, <1>3, <2>2
<1>6. /\ stored' = TRUE /\ since' = 0 /\ tokens' \in 0 .. Full /\ steady' \in Int
      /\ hint' \in [Client -> [cost : 0 .. MaxCost, left : Nat]]
      /\ ttl' \in 0 .. Lifetime /\ HintInv' /\ (SkewIsSmall /\ BucketInv => LevelInv')
  BY <1>1, <1>3, <1>4, <1>5, DecisionKeeps
<1>7. BucketTypeOK'
  <2>1. backend' \in Backends /\ call' \in [Client -> [cost : 0 .. MaxCost, age : 0 .. MaxDelay]]
        /\ back' \in 0 .. MaxBack
    BY <1>1, <1>2 DEF BucketTypeOK
  <2>2. Full' = Full /\ Lifetime' = Lifetime
    BY DEF Full, Lifetime, AtLeast, Ceil
  <2> QED
    BY <1>6, <2>1, <2>2 DEF BucketTypeOK
<1>8. CallsInv'
  <2>1. back' = 0 /\ \A d \in Client : ~InFlight(d) /\ ~InFlight(d)'
    BY <1>1, <1>2 DEF CallsInv, InFlight
  <2>2. Skew' = 0
    BY <1>1 DEF Skew
  <2> QED
    BY <1>1, <1>6, <2>1, <2>2, BucketLimits DEF CallsInv
<1> QED
  BY <1>6, <1>7, <1>8 DEF BucketInv, HintsInv

\* A call is sent.
LEMMA SendStep ==
  ASSUME HintsInv, NEW c \in Client, NEW cost \in 1 .. MaxCost, Send(c, cost)
  PROVE  HintsInv' /\ (BucketInv => BucketInv')
<1>1. /\ backend = "redis" /\ call' = [call EXCEPT ![c] = [cost |-> cost, age |-> 0]]
      /\ UNCHANGED <<backend, stored, tokens, since, ttl, hint, steady, back>>
  BY DEF Send, bucket
<1>2. BucketTypeOK /\ CallsInv /\ HintInv
  BY DEF HintsInv
<1>3. BucketTypeOK'
  <2>1. [cost |-> cost, age |-> 0] \in [cost : 0 .. MaxCost, age : 0 .. MaxDelay]
    BY BucketLimits
  <2>2. call' \in [Client -> [cost : 0 .. MaxCost, age : 0 .. MaxDelay]]
    BY <1>1, <1>2, <2>1 DEF BucketTypeOK
  <2>3. Full' = Full /\ Lifetime' = Lifetime
    BY DEF Full, Lifetime, AtLeast, Ceil
  <2> QED
    BY <1>1, <1>2, <2>2, <2>3 DEF BucketTypeOK
<1>4. CallsInv'
  <2>1. ASSUME NEW d \in Client, InFlight(d)'
        PROVE  call'[d].cost > 0
    <3>1. CASE d = c
      <4>1. call'[d].cost = cost
        BY <1>1, <1>2, <3>1 DEF BucketTypeOK
      <4> QED
        BY <4>1, BucketLimits
    <3>2. CASE d # c
      <4>1. call'[d] = call[d]
        BY <1>1, <1>2, <3>2 DEF BucketTypeOK
      <4> QED
        BY <1>2, <2>1, <4>1 DEF CallsInv, InFlight
    <3> QED
      BY <3>1, <3>2
  <2> QED
    BY <1>1, <1>2, <2>1 DEF CallsInv, Skew
<1>6. HintInv' /\ (LevelInv => LevelInv')
  BY <1>1, <1>2 DEF LevelInv, HintInv, Lag, Covered, Ahead
<1> QED
  BY <1>3, <1>4, <1>6 DEF BucketInv, HintsInv

\* The call is gone; what else is under way stays.
LEMMA CallGone ==
  ASSUME BucketTypeOK, NEW c \in Client, call' = [call EXCEPT ![c] = NoCall]
  PROVE  /\ call' \in [Client -> [cost : 0 .. MaxCost, age : 0 .. MaxDelay]]
         /\ \A d \in Client : InFlight(d)' => InFlight(d) /\ call'[d] = call[d]
<1>1. NoCall \in [cost : 0 .. MaxCost, age : 0 .. MaxDelay]
  BY BucketLimits DEF NoCall
<1>2. call' \in [Client -> [cost : 0 .. MaxCost, age : 0 .. MaxDelay]]
  BY <1>1 DEF BucketTypeOK
<1>3. \A d \in Client : d # c => call'[d] = call[d]
  BY DEF BucketTypeOK
<1>4. call'[c] = NoCall
  BY DEF BucketTypeOK
<1> QED
  BY <1>2, <1>3, <1>4 DEF InFlight

\* A call that ends without a decision.
LEMMA CallGoneStep ==
  ASSUME HintsInv, NEW c \in Client, call' = [call EXCEPT ![c] = NoCall],
         UNCHANGED <<backend, stored, tokens, since, ttl, hint, steady, back>>
  PROVE  HintsInv' /\ (BucketInv => BucketInv')
<1>1. BucketTypeOK /\ CallsInv /\ HintInv
  BY DEF HintsInv
<1>2. /\ call' \in [Client -> [cost : 0 .. MaxCost, age : 0 .. MaxDelay]]
      /\ \A d \in Client : InFlight(d)' => InFlight(d) /\ call'[d] = call[d]
  BY <1>1, CallGone
<1>3. BucketTypeOK'
  <2>1. Full' = Full /\ Lifetime' = Lifetime
    BY DEF Full, Lifetime, AtLeast, Ceil
  <2> QED
    BY <1>1, <1>2, <2>1 DEF BucketTypeOK
<1>4. CallsInv'
  BY <1>1, <1>2 DEF CallsInv, Skew
<1>5. HintInv' /\ (LevelInv => LevelInv')
  BY <1>1 DEF LevelInv, HintInv, Lag, Covered, Ahead
<1> QED
  BY <1>3, <1>4, <1>5 DEF BucketInv, HintsInv

\* What the clock of a call makes of the stamp.
LEMMA RunsByTheClock ==
  ASSUME HintsInv, NEW c \in Client, InFlight(c)
  PROVE  /\ backend = "redis" /\ Written(c) \in Int
         /\ Written(c) <= Lag /\ -Skew <= Written(c) /\ Written(c) + Ahead(c) >= 0
         /\ Elapsed(c) = since - Written(c) /\ MovedBack(c) = Back(Written(c))
         /\ Written(c) \in -Skew .. MaxAge
<1>1. BucketTypeOK /\ CallsInv
  BY DEF HintsInv
<1>2. backend = "redis"
  BY <1>1, BucketAssumption DEF CallsInv, BucketTypeOK
<1>3. /\ call[c].age \in Nat /\ call[c].age <= MaxDelay /\ since \in Int
      /\ Offset[c] \in Nat /\ Offset[c] <= MaxSkew /\ MaxDelay \in Nat /\ MaxSkew \in Nat
      /\ MaxAge \in Nat /\ MaxDelay <= MaxAge
      /\ Lag = MaxDelay /\ Skew = MaxSkew /\ Ahead(c) = Offset[c]
  BY <1>1, <1>2, BucketParts, BucketLimits, OldIsFull DEF Lag, Skew, Ahead
<1>4. ASSUME NEW a \in Nat, NEW o \in Nat, a <= MaxDelay, o <= MaxSkew
      PROVE  /\ a - o \in Int /\ a - o <= MaxDelay /\ -MaxSkew <= a - o /\ (a - o) + o >= 0
             /\ since - a + o = since - (a - o) /\ a - o \in -MaxSkew .. MaxAge
  BY <1>3, <1>4
<1>5. MovedBack(c) = Back(Written(c))
  BY DEF MovedBack, Back
<1> QED
  BY <1>2, <1>3, <1>4, <1>5 DEF Elapsed, Written

LEMMA ScriptRunStep ==
  ASSUME HintsInv, NEW c \in Client, InFlight(c), call[c].cost <= Burst,
         WriteBack(Refilled(Elapsed(c)), call[c].cost, Written(c)),
         \/ steady' = steady
         \/ /\ Granted(Refilled(Elapsed(c)), call[c].cost)
            /\ steady' = steady - call[c].cost * Unit,
         \/ Granted(Refilled(Elapsed(c)), call[c].cost) /\ hint' = NoHints
         \/ ~Granted(Refilled(Elapsed(c)), call[c].cost) /\ hint' = hint
         \/ /\ ~Granted(Refilled(Elapsed(c)), call[c].cost)
            /\ hint' = [hint EXCEPT ![c] = [cost |-> call[c].cost,
                          left |-> RetryAfter(call[c].cost * Unit - Refilled(Elapsed(c)))]],
         CountBack(c), ttl' = Lifetime, call' = [call EXCEPT ![c] = NoCall],
         backend' = backend
  PROVE  HintsInv' /\ (SkewIsSmall /\ BucketInv => BucketInv')
<1> DEFINE w == Written(c)
<1> DEFINE cost == call[c].cost
<1>1. BucketTypeOK /\ CallsInv
  BY DEF HintsInv
<1>2. /\ backend = "redis" /\ w \in Int /\ w <= Lag /\ -Skew <= w /\ w + Ahead(c) >= 0
      /\ Elapsed(c) = since - w /\ MovedBack(c) = Back(w) /\ w \in -Skew .. MaxAge
  BY RunsByTheClock
<1>3. cost \in 1 .. MaxCost
  BY <1>1, BucketParts, BucketLimits DEF CallsInv
<1>4. /\ stored' = TRUE /\ since' = w /\ tokens' \in 0 .. Full /\ steady' \in Int
      /\ hint' \in [Client -> [cost : 0 .. MaxCost, left : Nat]]
      /\ ttl' \in 0 .. Lifetime /\ HintInv'
      /\ SkewIsSmall /\ BucketInv => LevelInv'
  <2> HIDE DEF w, cost
  <2>1. back' = back + Back(w)
    BY <1>2 DEF CountBack
  <2> QED
    BY <1>2, <1>3, <2>1, DecisionKeeps DEF cost, w
<1>5. /\ call' \in [Client -> [cost : 0 .. MaxCost, age : 0 .. MaxDelay]]
      /\ \A d \in Client : InFlight(d)' => InFlight(d) /\ call'[d] = call[d]
  BY <1>1, CallGone
<1>6. back' \in 0 .. MaxBack
  <2>1. back \in Nat /\ since \in Int /\ MaxBack \in Nat
    BY <1>1, BucketParts, BucketLimits
  <2>2. Back(w) \in Nat
    <3> HIDE DEF w
    <3> QED
      BY <1>2, <2>1 DEF Back, AtLeast
  <2>3. back' = back + Back(w) /\ back' <= MaxBack
    BY <1>2 DEF CountBack
  <2> HIDE DEF w
  <2> QED
    BY <2>1, <2>2, <2>3
<1>7. BucketTypeOK'
  <2>1. Full' = Full /\ Lifetime' = Lifetime
    BY DEF Full, Lifetime, AtLeast, Ceil
  <2>2. since' \in Int /\ stored' \in BOOLEAN /\ backend' \in Backends
    BY <1>1, <1>2, <1>4 DEF BucketTypeOK
  <2> QED
    BY <1>4, <1>5, <1>6, <2>1, <2>2 DEF BucketTypeOK
<1>8. CallsInv'
  <2>1. \A d \in Client : InFlight(d)' => call'[d].cost > 0
    BY <1>1, <1>5 DEF CallsInv
  <2>2. Skew' = Skew
    BY DEF Skew
  <2> HIDE DEF w
  <2> QED
    BY <1>2, <1>4, <2>1, <2>2 DEF CallsInv
<1> QED
  BY <1>4, <1>7, <1>8 DEF BucketInv, HintsInv

LEMMA ScriptStep ==
  ASSUME HintsInv, NEW c \in Client, Script(c)
  PROVE  HintsInv' /\ (SkewIsSmall /\ BucketInv => BucketInv')
<1>1. /\ InFlight(c) /\ call[c].cost <= Burst
      /\ Decide(c, call[c].cost, Elapsed(c), Written(c)) /\ CountBack(c)
      /\ ttl' = Lifetime /\ call' = [call EXCEPT ![c] = NoCall] /\ backend' = backend
  BY DEF Script
<1>2. /\ WriteBack(Refilled(Elapsed(c)), call[c].cost, Written(c))
      /\ \/ /\ Granted(Refilled(Elapsed(c)), call[c].cost)
            /\ hint' = NoHints /\ steady' = steady - call[c].cost * Unit
         \/ /\ ~Granted(Refilled(Elapsed(c)), call[c].cost) /\ steady' = steady
            /\ hint' = [hint EXCEPT ![c] = [cost |-> call[c].cost,
                          left |-> RetryAfter(call[c].cost * Unit - Refilled(Elapsed(c)))]]
  BY <1>1 DEF Decide
<1> QED
  BY <1>1, <1>2, ScriptRunStep

LEMMA ScriptFailsStep ==
  ASSUME HintsInv, NEW c \in Client, ScriptFails(c)
  PROVE  HintsInv' /\ (SkewIsSmall /\ BucketInv => BucketInv')
<1>1. /\ InFlight(c) /\ call' = [call EXCEPT ![c] = NoCall]
      /\ backend' = backend /\ steady' = steady
  BY DEF ScriptFails
<1>2. CASE UNCHANGED <<bucket, hint, back>>
  BY <1>1, <1>2, CallGoneStep DEF bucket
<1>3. CASE /\ call[c].cost <= Burst /\ CountBack(c)
           /\ WriteBack(Refilled(Elapsed(c)), call[c].cost, Written(c))
           /\ hint' = IF Granted(Refilled(Elapsed(c)), call[c].cost) THEN NoHints ELSE hint
           /\ ttl' = Lifetime
  <2>1. \/ Granted(Refilled(Elapsed(c)), call[c].cost) /\ hint' = NoHints
        \/ ~Granted(Refilled(Elapsed(c)), call[c].cost) /\ hint' = hint
    BY <1>3
  <2> QED
    BY <1>1, <1>3, <2>1, ScriptRunStep
<1> QED
  BY <1>2, <1>3 DEF ScriptFails

(***************************************************************************)
(* Time fills both buckets alike; a key expires when the steady one, with  *)
(* what was moved back, is full, and what the capped age no longer tells   *)
(* is full as well.                                                        *)
(***************************************************************************)
LEMMA TickLevels ==
  ASSUME BucketInv, BucketTick
  PROVE  LevelInv'
<1> DEFINE b == back * Rate
<1>1. BucketTypeOK /\ CallsInv /\ LevelInv
  BY DEF BucketInv, HintsInv
<1>2. /\ steady' = AtMost(Full, steady + Rate) /\ since' = AtMost(MaxAge, since + 1)
      /\ stored' = (stored /\ ~Expires) /\ ttl' = AtLeast(0, ttl - 1)
      /\ tokens' = tokens /\ backend' = backend /\ back' = back
  BY DEF BucketTick
<1>3. /\ tokens \in Nat /\ since \in Int /\ ttl \in Nat /\ steady \in Int /\ back \in Nat
      /\ Lag \in Nat /\ Lag <= MaxDelay /\ Lag' = Lag /\ Full' = Full
      /\ Full \in Nat /\ Rate \in Nat /\ MaxAge \in Nat /\ MaxDelay \in Nat
      /\ steady <= Full /\ stored \in BOOLEAN
  BY <1>1, <1>2, BucketParts, BucketLimits DEF LevelInv, Lag, Full
<1>4. b \in Int /\ b >= 0 /\ Covered = steady + b /\ Covered' = steady' + b
  <2>1. b \in Int /\ 0 * Rate <= b /\ 0 * Rate = 0
    BY <1>3, Worth
  <2>2. Covered = steady + b /\ Covered' = steady' + b
    BY <1>2 DEF Covered
  <2> HIDE DEF b
  <2> QED
    BY <2>1, <2>2
<1> HIDE DEF b
<1>5. /\ steady' \in Int /\ steady' <= Full
      /\ steady' = Full \/ steady' = steady + Rate
  BY <1>2, <1>3 DEF AtMost
<1>6. /\ Covered \in Int /\ Covered' \in Int
      /\ Covered' >= Full \/ Covered' = Covered + Rate
      /\ Covered >= Full => Covered' >= Full
  <2>1. \A p, q \in Int : (q = Full \/ q = p + Rate) /\ p <= Full =>
          /\ q + b >= Full \/ q + b = (p + b) + Rate
          /\ p + b >= Full => q + b >= Full
    BY <1>3, <1>4
  <2>2. steady + b \in Int /\ steady' + b \in Int
    BY <1>3, <1>4, <1>5
  <2>3. /\ steady' + b >= Full \/ steady' + b = (steady + b) + Rate
        /\ steady + b >= Full => steady' + b >= Full
    BY <1>3, <1>5, <2>1
  <2> QED
    BY <1>4, <2>2, <2>3
<1>7. ASSUME stored'
      PROVE  tokens + (since' - Lag) * Rate <= Covered' \/ Covered' >= Full
  <2>1. stored /\ since <= MaxAge
    BY <1>1, <1>2, <1>3, <1>7 DEF CallsInv
  <2>2. CASE Covered >= Full
    BY <1>6, <2>2
  <2>3. CASE ~(Covered >= Full) /\ since < MaxAge
    <3> DEFINE x == (since - Lag) * Rate
    <3>1. since' = since + 1
      BY <1>2, <1>3, <2>3 DEF AtMost
    <3>2. since - Lag \in Int /\ since' - Lag = (since - Lag) + 1
      BY <1>3, <3>1
    <3>3. (since' - Lag) * Rate = x + Rate /\ x \in Int
      BY <3>2, Worth
    <3>4. tokens + x <= Covered
      BY <1>1, <2>1, <2>3 DEF LevelInv
    <3> HIDE DEF x
    <3>5. tokens + (x + Rate) <= Covered + Rate
      BY <1>3, <1>6, <3>3, <3>4
    <3> QED
      BY <1>6, <3>3, <3>5
  <2>4. CASE ~(Covered >= Full) /\ ~(since < MaxAge)
    <3> DEFINE x == (since - Lag) * Rate
    <3> DEFINE m == (MaxAge - MaxDelay) * Rate
    <3>1. m >= Full
      BY OldIsFull
    <3>2. since - Lag \in Int /\ MaxAge - MaxDelay \in Int /\ MaxAge - MaxDelay <= since - Lag
      BY <1>3, <2>1, <2>4
    <3>3. m <= x /\ m \in Int /\ x \in Int
      BY <3>2, Worth
    <3>4. tokens + x <= Covered
      BY <1>1, <2>1, <2>4 DEF LevelInv
    <3> HIDE DEF x, m
    <3>5. Covered >= Full
      BY <1>3, <1>6, <3>1, <3>3, <3>4
    <3> QED
      BY <2>4, <3>5
  <2> QED
    BY <2>2, <2>3, <2>4
<1>8. ASSUME backend = "redis", stored
      PROVE  (stored' => Covered' + ttl' * Rate >= Full) /\ (~stored' => Covered' >= Full)
  <2> DEFINE x == ttl * Rate
  <2>1. Covered + x >= Full /\ x \in Int
    BY <1>1, <1>3, <1>8, Worth DEF LevelInv
  <2>2. CASE ttl <= 1
    <3>1. ~stored'
      BY <1>2, <1>8, <2>2 DEF Expires
    <3>2. x <= Rate
      <4>1. ttl * Rate <= 1 * Rate /\ 1 * Rate = Rate
        BY <1>3, <2>2, Worth
      <4> QED
        BY <4>1
    <3> HIDE DEF x
    <3>3. Covered + Rate >= Full
      BY <1>3, <1>6, <2>1, <3>2
    <3>4. Covered' >= Full
      BY <1>6, <3>3
    <3> QED
      BY <3>1, <3>4
  <2>3. CASE ~(ttl <= 1)
    <3>1. stored'
      BY <1>2, <1>8, <2>3 DEF Expires
    <3>2. ttl' = ttl - 1 /\ ttl' \in Nat
      BY <1>2, <1>3, <2>3 DEF AtLeast
    <3>3. ttl' * Rate = x - Rate
      <4>1. (ttl - 1) * Rate = ttl * Rate - 1 * Rate /\ 1 * Rate = Rate
        BY <1>3, Worth
      <4> QED
        BY <3>2, <4>1
    <3>4. x - Rate >= 0
      <4>1. 0 * Rate <= ttl' * Rate /\ 0 * Rate = 0
        BY <3>2, Worth
      <4> QED
        BY <3>3, <4>1
    <3> HIDE DEF x
    <3>5. \A p, q, v, f \in Int : (p >= f \/ p = q) /\ v >= 0 /\ q + v >= f => p + v >= f
      OBVIOUS
    <3>6. (Covered + Rate) + (x - Rate) >= Full /\ x - Rate \in Int /\ Covered + Rate \in Int
      BY <1>3, <1>6, <2>1
    <3>7. Covered' + (x - Rate) >= Full
      BY <1>3, <1>6, <3>4, <3>5, <3>6
    <3> QED
      BY <3>1, <3>3, <3>7
  <2> QED
    BY <2>2, <2>3
<1>9. ~stored' => Covered' >= Full
  <2>1. CASE stored
    <3>1. ~stored' => backend = "redis"
      BY <1>2, <2>1 DEF Expires
    <3> QED
      BY <1>8, <2>1, <3>1
  <2>2. CASE ~stored
    BY <1>1, <1>6, <2>2 DEF LevelInv
  <2> QED
    BY <2>1, <2>2
<1>10. stored' => stored
  BY <1>2
<1> QED
  BY <1>2, <1>3, <1>5, <1>7, <1>8, <1>9, <1>10 DEF LevelInv

\* Time that passes for the hint passes for the bucket.
LEMMA TickHints ==
  ASSUME HintsInv, BucketTick
  PROVE  HintInv' /\ hint' \in [Client -> [cost : 0 .. MaxCost, left : Nat]]
<1>1. BucketTypeOK /\ CallsInv /\ HintInv
  BY DEF HintsInv
<1>2. /\ hint' = [c \in Client |-> IF hint[c].left > 0
                    THEN [hint[c] EXCEPT !.left = hint[c].left - 1] ELSE hint[c]]
      /\ since' = AtMost(MaxAge, since + 1)
      /\ stored' = (stored /\ ~Expires) /\ tokens' = tokens /\ backend' = backend
  BY DEF BucketTick
<1>3. ASSUME NEW c \in Client
      PROVE  /\ hint'[c] \in [cost : 0 .. MaxCost, left : Nat]
             /\ hint'[c].cost = hint[c].cost
             /\ hint'[c].left = IF hint[c].left > 0 THEN hint[c].left - 1 ELSE hint[c].left
  <2>1. hint[c] \in [cost : 0 .. MaxCost, left : Nat]
    BY <1>1 DEF BucketTypeOK
  <2>2. CASE hint[c].left > 0
    <3>1. hint'[c] = [hint[c] EXCEPT !.left = hint[c].left - 1] /\ hint[c].left - 1 \in Nat
      BY <1>2, <2>1, <2>2
    <3> QED
      BY <2>1, <2>2, <3>1
  <2>3. CASE ~(hint[c].left > 0)
    BY <1>2, <2>1, <2>3
  <2> QED
    BY <2>2, <2>3
<1>4. hint' \in [Client -> [cost : 0 .. MaxCost, left : Nat]]
  BY <1>2, <1>3
<1>5. ASSUME NEW c \in Client, hint'[c].cost > 0, stored'
      PROVE  tokens + AtLeast(0, since' + Ahead(c) + hint'[c].left) * Rate
               >= hint[c].cost * Unit
  <2> DEFINE o == Ahead(c)
  <2> DEFINE h == hint[c].left
  <2> DEFINE g == hint'[c].left
  <2> DEFINE k == hint[c].cost * Unit
  <2> DEFINE m == AtLeast(0, since + o + h)
  <2> DEFINE n == AtLeast(0, since' + o + g)
  <2> DEFINE x == m * Rate
  <2> DEFINE y == n * Rate
  <2>1. stored /\ since <= MaxAge
    BY <1>1, <1>2, <1>5, BucketParts, BucketLimits DEF CallsInv
  <2>2. h \in Nat /\ o \in Nat /\ tokens \in Nat /\ since \in Int /\ MaxAge \in Nat
        /\ Full \in Nat /\ hint[c].cost \in Nat /\ MaxDelay \in Nat
    BY <1>1, BucketParts, BucketLimits
  <2>3. k \in Nat /\ k <= Full /\ tokens + x >= k
    BY <1>1, <1>3, <1>5, <2>1, <2>2, Units DEF HintInv
  <2>4. g = IF h > 0 THEN h - 1 ELSE h
    BY <1>3
  <2> HIDE DEF h, g, o
  <2>5. g \in Nat
    BY <2>2, <2>4
  <2>6. CASE since < MaxAge
    <3>1. since' = since + 1
      BY <1>2, <2>2, <2>6 DEF AtMost
    <3>2. m \in Int /\ n \in Int /\ m <= n
      BY <2>2, <2>4, <2>5, <3>1 DEF AtLeast
    <3> HIDE DEF m, n
    <3>3. x <= y /\ x \in Int /\ y \in Int
      BY <3>2, Worth
    <3> HIDE DEF x, y, k
    <3>4. tokens + y >= k
      BY <2>2, <2>3, <3>3
    <3> QED
      BY <3>4 DEF y, n, g, k, o
  <2>7. CASE ~(since < MaxAge)
    <3> DEFINE old == (MaxAge - MaxDelay) * Rate
    <3>1. since' = MaxAge
      BY <1>2, <2>2, <2>7 DEF AtMost
    <3>2. old >= Full
      BY OldIsFull
    <3>3. MaxAge - MaxDelay \in Int /\ n \in Int /\ MaxAge - MaxDelay <= n
      BY <2>2, <2>5, <3>1 DEF AtLeast
    <3> HIDE DEF m, n
    <3>4. old <= y /\ old \in Int /\ y \in Int
      BY <3>3, Worth
    <3> HIDE DEF y, k, old
    <3>5. tokens + y >= k
      BY <2>2, <2>3, <3>2, <3>4
    <3> QED
      BY <3>5 DEF y, n, g, k, o
  <2> QED
    BY <2>6, <2>7
<1>6. ASSUME NEW c \in Client, hint'[c].cost > 0
      PROVE  hint'[c].cost <= Burst
  BY <1>1, <1>3, <1>6 DEF HintInv
<1>7. \A c \in Client : Ahead(c)' = Ahead(c)
  BY <1>2 DEF Ahead
<1> QED
  BY <1>2, <1>3, <1>4, <1>5, <1>6, <1>7 DEF HintInv

LEMMA BucketTickStep ==
  ASSUME HintsInv, BucketTick
  PROVE  HintsInv' /\ (BucketInv => BucketInv')
<1>1. BucketTypeOK /\ CallsInv
  BY DEF HintsInv
<1>2. /\ \A c \in Client : InFlight(c) => call[c].age < MaxDelay
      /\ call' = [c \in Client |->
                    IF InFlight(c) THEN [call[c] EXCEPT !.age = call[c].age + 1] ELSE call[c]]
      /\ steady' = AtMost(Full, steady + Rate) /\ since' = AtMost(MaxAge, since + 1)
      /\ stored' = (stored /\ ~Expires) /\ ttl' = AtLeast(0, ttl - 1)
      /\ UNCHANGED <<backend, tokens, back>>
  BY DEF BucketTick
<1>3. ASSUME NEW c \in Client
      PROVE  /\ call'[c] \in [cost : 0 .. MaxCost, age : 0 .. MaxDelay]
             /\ InFlight(c)' => InFlight(c)
             /\ InFlight(c) => call'[c].age = call[c].age + 1 /\ call'[c].cost = call[c].cost
  <2>1. call[c] \in [cost : 0 .. MaxCost, age : 0 .. MaxDelay]
    BY <1>1 DEF BucketTypeOK
  <2>2. CASE InFlight(c)
    <3>1. call'[c] = [call[c] EXCEPT !.age = call[c].age + 1]
      BY <1>2, <2>2
    <3>2. call[c].age + 1 \in 0 .. MaxDelay
      BY <1>2, <2>1, <2>2, BucketLimits
    <3> QED
      BY <2>1, <2>2, <3>1, <3>2
  <2>3. CASE ~InFlight(c)
    <3>1. call'[c] = call[c]
      BY <1>2, <2>3
    <3> QED
      BY <2>1, <2>3, <3>1 DEF InFlight
  <2> QED
    BY <2>2, <2>3
<1>4. HintInv' /\ hint' \in [Client -> [cost : 0 .. MaxCost, left : Nat]]
  BY TickHints
<1>5. BucketTypeOK'
  <2>1. call' \in [Client -> [cost : 0 .. MaxCost, age : 0 .. MaxDelay]]
    BY <1>2, <1>3
  <2>2. Full' = Full /\ Lifetime' = Lifetime
    BY DEF Full, Lifetime, AtLeast, Ceil
  <2>3. steady' \in Int /\ since' \in Int
    BY <1>1, <1>2, BucketParts, BucketLimits DEF AtMost
  <2>4. ttl' \in 0 .. Lifetime
    BY <1>1, <1>2, LifetimeCovers DEF AtLeast, BucketTypeOK
  <2>5. stored' \in BOOLEAN
    BY <1>2
  <2> QED
    BY <1>1, <1>2, <1>4, <2>1, <2>2, <2>3, <2>4, <2>5 DEF BucketTypeOK
<1>6. CallsInv'
  <2>1. \A c \in Client : InFlight(c)' => call'[c].cost > 0
    BY <1>1, <1>3 DEF CallsInv
  <2>2. backend' = "memory" => back' = 0 /\ \A c \in Client : ~InFlight(c)'
    BY <1>1, <1>2, <1>3 DEF CallsInv
  <2>3. Skew' = Skew
    BY <1>2 DEF Skew
  <2>4. ASSUME stored'
        PROVE  since' \in -Skew .. MaxAge
    <3>1. stored /\ since \in -Skew .. MaxAge
      BY <1>1, <1>2, <2>4 DEF CallsInv
    <3>2. Skew \in Nat /\ since \in Int
      BY <1>1, BucketParts
    <3> QED
      BY <1>2, <3>1, <3>2, BucketLimits DEF AtMost
  <2> QED
    BY <2>1, <2>2, <2>3, <2>4 DEF CallsInv
<1> QED
  BY <1>4, <1>5, <1>6, TickLevels DEF BucketInv, HintsInv

-----------------------------------------------------------------------------
(* TokenBucket: the theorems *)

LEMMA BucketInvStep ==
  ASSUME HintsInv, [BucketNext]_bucketVars
  PROVE  HintsInv' /\ (SkewIsSmall /\ BucketInv => BucketInv')
<1>1. CASE BucketTick
  BY <1>1, BucketTickStep
<1>2. ASSUME NEW c \in Client, NEW cost \in 1 .. MaxCost, Acquire(c, cost) \/ Send(c, cost)
      PROVE  HintsInv' /\ (SkewIsSmall /\ BucketInv => BucketInv')
  BY <1>2, AcquireStep, SendStep
<1>3. ASSUME NEW c \in Client, TooLarge(c)
      PROVE  HintsInv' /\ (SkewIsSmall /\ BucketInv => BucketInv')
  BY <1>3, CallGoneStep DEF TooLarge, bucket
<1>4. ASSUME NEW c \in Client, Script(c) \/ ScriptFails(c)
      PROVE  HintsInv' /\ (SkewIsSmall /\ BucketInv => BucketInv')
  BY <1>4, ScriptStep, ScriptFailsStep
<1>5. CASE UNCHANGED bucketVars
  <2>1. UNCHANGED <<backend, stored, tokens, since, ttl, call, hint, steady, back>>
    BY <1>5 DEF bucketVars, bucket
  <2>2. BucketTypeOK /\ CallsInv /\ HintInv
    BY DEF HintsInv
  <2>3. BucketTypeOK'
    <3>1. Full' = Full /\ Lifetime' = Lifetime
      BY DEF Full, Lifetime, AtLeast, Ceil
    <3> QED
      BY <2>1, <2>2, <3>1 DEF BucketTypeOK
  <2>4. CallsInv' /\ HintInv' /\ (LevelInv => LevelInv')
    BY <2>1, <2>2 DEF CallsInv, InFlight, LevelInv, HintInv, Lag, Skew, Ahead, Covered
  <2> QED
    BY <2>3, <2>4 DEF BucketInv, HintsInv
<1> QED
  BY <1>1, <1>2, <1>3, <1>4, <1>5 DEF BucketNext

(***************************************************************************)
(* The inductive invariant of the buckets, their types in it, for scripts  *)
(* that overtake each other and clocks that differ by less than the bucket *)
(* takes to fill.                                                          *)
(***************************************************************************)
THEOREM BucketsAreSafe ==
  ASSUME SkewIsSmall
  PROVE  BucketSpec => []BucketInv
<1>1. BucketInv /\ [BucketNext]_bucketVars => BucketInv'
  BY BucketInvStep DEF BucketInv
<1> QED
  BY BucketInvInit, <1>1, PTL DEF BucketSpec

(***************************************************************************)
(* The in-memory bucket grants in any stretch of time no more than the     *)
(* burst and what the rate yields in that time.  What the Redis bucket     *)
(* grants beyond that, a lag and a skew is the rate times the ticks by     *)
(* which its scripts moved the stamp back: expiring keys, refusals and     *)
(* lost answers never create tokens.                                       *)
(***************************************************************************)
THEOREM OverdraftIsExplained ==
  ASSUME SkewIsSmall
  PROVE  BucketSpec => []OverdraftIsMovedBack
<1>1. ASSUME BucketInv PROVE OverdraftIsMovedBack
  <2> DEFINE t == Lag + Skew
  <2> DEFINE v == t * Rate
  <2> DEFINE x == (since - Lag) * Rate
  <2> DEFINE w == (since + Skew) * Rate
  <2>1. BucketTypeOK /\ CallsInv /\ LevelInv
    BY <1>1 DEF BucketInv, HintsInv
  <2>2. /\ tokens \in Nat /\ since \in Int /\ steady \in Int /\ back \in Nat
        /\ Lag \in Nat /\ Skew \in Nat /\ Full \in Nat /\ t \in Int /\ 0 <= t
    BY <2>1, BucketParts, BucketLimits
  <2>3. v \in Int /\ 0 <= v /\ back * Rate \in Int /\ Covered \in Int
    <3>1. back * Rate \in Int
      BY <2>2, Worth
    <3>2. Covered \in Int
      BY <2>2, <3>1 DEF Covered
    <3> HIDE DEF t
    <3>3. v \in Int /\ 0 * Rate <= v /\ 0 * Rate = 0
      BY <2>2, Worth
    <3> HIDE DEF v
    <3> QED
      BY <3>1, <3>2, <3>3
  <2>4. Covered + v >= 0
    <3>1. CASE Covered >= Full
      <4> HIDE DEF v
      <4> QED
        BY <2>2, <2>3, <3>1
    <3>2. CASE ~(Covered >= Full)
      <4>1. stored /\ tokens + x <= Covered /\ 0 <= since + Skew
        BY <2>1, <2>2, <3>2, BucketLimits DEF LevelInv, CallsInv
      <4>2. x + v = w /\ x \in Int /\ w \in Int
        <5> DEFINE p == since - Lag
        <5>1. p \in Int /\ t \in Int /\ p + t = since + Skew
          BY <2>2
        <5> HIDE DEF p, t
        <5>2. (p + t) * Rate = p * Rate + t * Rate /\ p * Rate \in Int
          BY <5>1, Worth
        <5>3. x + v = w /\ x \in Int
          BY <5>1, <5>2 DEF p
        <5> HIDE DEF x, v, w
        <5> QED
          BY <2>3, <5>3
      <4>3. 0 <= w
        <5> DEFINE p == since + Skew
        <5>1. p \in Int /\ 0 <= p
          BY <2>2, <4>1
        <5> HIDE DEF p
        <5>2. 0 * Rate <= p * Rate /\ 0 * Rate = 0
          BY <5>1, Worth
        <5> QED
          BY <5>2 DEF p
      <4> HIDE DEF v, w, x
      <4> QED
        BY <2>2, <2>3, <4>1, <4>2, <4>3
    <3> QED
      BY <3>1, <3>2
  <2>5. CASE backend = "memory"
    <3>1. t = 0 /\ back = 0
      BY <2>1, <2>5 DEF Lag, Skew, CallsInv
    <3>2. v = 0 /\ back * Rate = 0
      BY <3>1, BucketLimits
    <3>3. Covered = steady
      BY <2>2, <3>2 DEF Covered
    <3> HIDE DEF v
    <3>4. steady >= 0
      BY <2>2, <2>4, <3>2, <3>3
    <3> QED
      BY <2>5, <3>4 DEF OverdraftIsMovedBack
  <2>6. CASE backend # "memory"
    <3> DEFINE u == MaxDelay + MaxSkew
    <3>1. t = u /\ u \in Int
      BY <2>2, <2>6 DEF Lag, Skew
    <3>2. (u + back) * Rate = v + back * Rate
      <4> HIDE DEF u
      <4>1. back \in Int
        BY <2>2
      <4>2. (u + back) * Rate = u * Rate + back * Rate
        BY <3>1, <4>1, Worth
      <4> QED
        BY <3>1, <4>2
    <3> HIDE DEF v, t
    <3>3. steady + (v + back * Rate) >= 0
      BY <2>2, <2>3, <2>4 DEF Covered
    <3> QED
      BY <2>6, <3>2, <3>3 DEF OverdraftIsMovedBack
  <2> QED
    BY <2>5, <2>6
<1> QED
  BY BucketsAreSafe, <1>1, PTL

(***************************************************************************)
(* A caller that waits for the retry_after_ms it was given and asks again  *)
(* with its own clock finds enough tokens, unless somebody took some       *)
(* meanwhile: rounding, refusals of hosts whose clocks differ, scripts     *)
(* that overtake each other and the expiry of the key never make the hint  *)
(* too short.                                                              *)
(***************************************************************************)
THEOREM HintsAreSufficient == BucketSpec => []HintSuffices
<1>1. ASSUME HintsInv PROVE HintSuffices
  <2> SUFFICES ASSUME NEW c \in Client, hint[c].cost > 0, hint[c].left = 0
               PROVE  Refilled(since + Ahead(c)) >= hint[c].cost * Unit
    BY DEF HintSuffices
  <2> DEFINE o == Ahead(c)
  <2> DEFINE k == hint[c].cost * Unit
  <2> DEFINE w == AtLeast(0, since + o) * Rate
  <2>1. BucketTypeOK /\ HintInv
    BY <1>1 DEF HintsInv
  <2>2. o \in Nat /\ since \in Int /\ tokens \in Nat /\ hint[c].cost \in Nat
        /\ Full \in Nat
    BY <2>1, BucketParts, BucketLimits
  <2>3. since + Ahead(c) + hint[c].left = since + o
    BY <2>2
  <2>4. k \in Nat /\ k <= Full /\ (stored => tokens + w >= k)
    BY <2>1, <2>2, <2>3, Units DEF HintInv
  <2> HIDE DEF k
  <2>5. Refilled(since + o) = IF stored THEN AtMost(Full, tokens + w) ELSE Full
    BY DEF Refilled
  <2>6. w \in Int
    <3> HIDE DEF o
    <3>1. AtLeast(0, since + o) \in Int
      BY <2>2 DEF AtLeast
    <3> QED
      BY <3>1, Worth
  <2> HIDE DEF w
  <2>7. Refilled(since + o) >= k
    BY <2>2, <2>4, <2>5, <2>6 DEF AtMost
  <2> QED
    BY <2>7 DEF k
<1>2. BucketInit => HintsInv
  BY BucketInvInit DEF BucketInv
<1>3. HintsInv /\ [BucketNext]_bucketVars => HintsInv'
  BY BucketInvStep
<1> QED
  BY <1>1, <1>2, <1>3, PTL DEF BucketSpec
=============================================================================
