---------------------------- MODULE TokenBucket ----------------------------
(***************************************************************************)
(* The token buckets behind the rate limited clients, one key: the bucket  *)
(* of one process (InMemoryTokenBucketRateLimiter) and the one the         *)
(* replicas share (RedisTokenBucketRateLimiter), whose script is atomic    *)
(* but gets the time from the clock of the caller, read before the script  *)
(* was sent.                                                               *)
(*                                                                         *)
(* Tokens are counted in units, so that rates may be fractions.  steady is *)
(* the bucket a reader of the port has in mind: it refills with true time. *)
(***************************************************************************)
EXTENDS Integers, FiniteSets

CONSTANTS
  Client,      \* concurrent callers, each on a replica of its own
  Offset,      \* how far the monotonic clock of each caller's replica is
               \* ahead of the slowest one
  MaxSkew,     \* the most they differ
  Backends,    \* the adapters to consider
  Unit,        \* units of a token
  Rate,        \* rate_per_sec, in units per tick
  Burst,       \* burst, in tokens
  Second,      \* ticks of a second
  MaxCost,     \* bound: cost of a call
  MaxDelay,    \* bound: ticks between reading the clock and the script
  MaxBack,     \* bound: ticks that scripts move the stamp back in all
  MaxAge       \* bound: ages are not told apart beyond this

Full == Burst * Unit

ASSUME BucketAssumption ==
  /\ MaxSkew \in Nat /\ Offset \in [Client -> 0 .. MaxSkew]
  /\ Backends \subseteq {"memory", "redis"}
  /\ Unit \in Nat \ {0} /\ Rate \in Nat \ {0} /\ Burst \in Nat \ {0} /\ Second \in Nat \ {0}
  /\ MaxCost \in Nat /\ MaxDelay \in Nat /\ MaxAge \in Nat /\ MaxBack \in Nat
  /\ (MaxAge - MaxDelay) * Rate >= Full

VARIABLES
  backend,  \* the adapter that is wired
  stored,   \* is there a bucket for the key?
  tokens,   \* its tokens, in units
  since,    \* true time minus its last refill stamp
  ttl,      \* ticks until the key expires
  call,     \* the call of each caller: its cost (0: none) and its age
  hint,     \* the last refusal: its cost and what is left of retry_after_ms
  steady,   \* history: the bucket that refills with true time
  back      \* history: ticks by which scripts moved the stamp back, in all

bucket == <<stored, tokens, since, ttl>>
bucketVars == <<backend, bucket, call, hint, steady, back>>

NoCall == [cost |-> 0, age |-> 0]
NoHint == [cost |-> 0, left |-> 0]
NoHints == [c \in Client |-> NoHint]

AtMost(a, b) == IF a <= b THEN a ELSE b
AtLeast(a, b) == IF a >= b THEN a ELSE b

\* The whole number at or above a / b.
Ceil(a, b) == (a + b - 1) \div b

BucketInit ==
  /\ backend \in Backends
  /\ stored = FALSE /\ tokens = 0 /\ since = 0 /\ ttl = 0
  /\ call = [c \in Client |-> NoCall]
  /\ hint = NoHints
  /\ steady = Full /\ back = 0

-----------------------------------------------------------------------------

\* A new bucket is full; an old one refills up to its capacity.
Refilled(elapsed) ==
  IF stored THEN AtMost(Full, tokens + AtLeast(0, elapsed) * Rate) ELSE Full

\* Mutant of RetryAfter: rounded down.
RetryAfterFloor(deficit) == AtLeast(1, deficit \div Rate)

\* retry_after_ms of a refusal.
RetryAfter(deficit) == AtLeast(1, Ceil(deficit, Rate))

\* Mutant of Lifetime: one second whatever the rate.
LifetimeShort == Second

\* ttl_sec: twice the time an empty bucket takes to fill, in whole seconds.
Lifetime == AtLeast(1, Ceil(2 * Full, Rate * Second)) * Second

Granted(level, cost) == level >= cost * Unit

\* A refusal takes nothing, but moves the stamp all the same.
WriteBack(level, cost, stamp) ==
  /\ stored' = TRUE
  /\ tokens' = IF Granted(level, cost) THEN level - cost * Unit ELSE level
  /\ since' = stamp

\* Tokens that somebody took make the hints of the others void.
Decide(c, cost, elapsed, stamp) ==
  LET level == Refilled(elapsed) IN
    /\ WriteBack(level, cost, stamp)
    /\ hint' = IF Granted(level, cost) THEN NoHints
               ELSE [hint EXCEPT ![c] =
                       [cost |-> cost, left |-> RetryAfter(cost * Unit - level)]]
    /\ steady' = IF Granted(level, cost) THEN steady - cost * Unit ELSE steady

-----------------------------------------------------------------------------
(* InMemoryTokenBucketRateLimiter.acquire: the lock is held from reading   *)
(* the clock to the decision.                                              *)

Acquire(c, cost) ==
  /\ backend = "memory" /\ cost <= Burst
  /\ Decide(c, cost, since, 0)
  /\ UNCHANGED <<backend, ttl, call, back>>

-----------------------------------------------------------------------------
(* RedisTokenBucketRateLimiter.acquire *)

\* The clock is read and the script is sent.
Send(c, cost) ==
  /\ backend = "redis" /\ call[c] = NoCall
  /\ call' = [call EXCEPT ![c] = [cost |-> cost, age |-> 0]]
  /\ UNCHANGED <<backend, bucket, hint, steady, back>>

InFlight(c) == call[c] # NoCall

\* A call that asks for more than the capacity is refused for good, in both
\* adapters, before the bucket is looked at.
TooLarge(c) ==
  /\ InFlight(c) /\ call[c].cost > Burst
  /\ call' = [call EXCEPT ![c] = NoCall]
  /\ UNCHANGED <<backend, bucket, hint, steady, back>>

\* now_ms - last_ms.
Elapsed(c) == since - call[c].age + Offset[c]

\* last_ms as the script leaves it, whatever it was.
Written(c) == call[c].age - Offset[c]

\* The clock is behind last_ms: of a host that is behind, or read before that
\* of a script which ran first.  Nothing is credited and last_ms goes back.
MovedBack(c) == IF stored THEN AtLeast(0, Written(c) - since) ELSE 0

CountBack(c) == back' = back + MovedBack(c) /\ back' <= MaxBack

\* The script runs and its answer arrives.  Scripts may overtake each other.
Script(c) ==
  /\ InFlight(c) /\ call[c].cost <= Burst
  /\ Decide(c, call[c].cost, Elapsed(c), Written(c))
  /\ CountBack(c)
  /\ ttl' = Lifetime
  /\ call' = [call EXCEPT ![c] = NoCall]
  /\ UNCHANGED backend

\* RateLimiterBackendError: the script does not run, or runs and its answer
\* is lost, with the tokens it took or with the hint.
ScriptFails(c) ==
  /\ InFlight(c)
  /\ call' = [call EXCEPT ![c] = NoCall]
  /\ UNCHANGED <<backend, steady>>
  /\ \/ UNCHANGED <<bucket, hint, back>>
     \/ /\ call[c].cost <= Burst
        /\ CountBack(c)
        /\ WriteBack(Refilled(Elapsed(c)), call[c].cost, Written(c))
        /\ hint' = IF Granted(Refilled(Elapsed(c)), call[c].cost) THEN NoHints ELSE hint
        /\ ttl' = Lifetime

-----------------------------------------------------------------------------

\* Redis removes a key whose time is over; the dict of a process keeps its
\* buckets.
Expires == backend = "redis" /\ stored /\ ttl <= 1

BucketTick ==
  /\ \A c \in Client : InFlight(c) => call[c].age < MaxDelay
  /\ call' = [c \in Client |->
                IF InFlight(c) THEN [call[c] EXCEPT !.age = @ + 1] ELSE call[c]]
  /\ hint' = [c \in Client |->
                IF hint[c].left > 0 THEN [hint[c] EXCEPT !.left = @ - 1] ELSE hint[c]]
  /\ steady' = AtMost(Full, steady + Rate)
  /\ since' = AtMost(MaxAge, since + 1)
  /\ stored' = (stored /\ ~Expires)
  /\ ttl' = AtLeast(0, ttl - 1)
  /\ UNCHANGED <<backend, tokens, back>>

BucketNext ==
  \/ BucketTick
  \/ \E c \in Client :
       \/ \E cost \in 1 .. MaxCost : Acquire(c, cost) \/ Send(c, cost)
       \/ TooLarge(c) \/ Script(c) \/ ScriptFails(c)

BucketSpec == BucketInit /\ [][BucketNext]_bucketVars

-----------------------------------------------------------------------------
(* Properties *)

\* Type invariant.
BucketTypeOK ==
  /\ backend \in Backends /\ stored \in BOOLEAN
  /\ tokens \in 0 .. Full /\ since \in Int /\ ttl \in 0 .. Lifetime
  /\ call \in [Client -> [cost : 0 .. MaxCost, age : 0 .. MaxDelay]]
  /\ hint \in [Client -> [cost : 0 .. MaxCost, left : Nat]]
  /\ steady \in Int /\ back \in 0 .. MaxBack

\* How long a decision may lag behind the clock it is based on, and how far
\* that clock may be from another one.
Lag == IF backend = "memory" THEN 0 ELSE MaxDelay
Skew == IF backend = "memory" THEN 0 ELSE MaxSkew

(***************************************************************************)
(* Parity with the in-memory bucket, as redis_token_bucket.py claims it:   *)
(* in any stretch of time the bucket grants at most burst tokens plus what *)
(* the rate yields in that time, while a script is under way and, once, in *)
(* the time by which clocks differ.  Hosts that alternate refute it: every *)
(* turn is credited with the difference of their clocks again.             *)
(***************************************************************************)
RateBounded == steady + (Lag + Skew) * Rate >= 0

\* The clocks do not differ by more than the bucket takes to fill.
SkewIsSmall == (MaxDelay + MaxSkew) * Rate <= Full

(***************************************************************************)
(* What the two buckets do keep.  In memory the rate is kept exactly.  In  *)
(* Redis whatever is granted beyond it is explained by the ticks for which *)
(* scripts moved the stamp back: refusals that move the stamp forward,     *)
(* keys that expire and come back full, and lost answers add nothing.      *)
(***************************************************************************)
OverdraftIsMovedBack ==
  IF backend = "memory" THEN steady >= 0
  ELSE steady + (MaxDelay + MaxSkew + back) * Rate >= 0

\* How far the clock that a caller brings is ahead of the slowest.
Ahead(c) == IF backend = "memory" THEN 0 ELSE Offset[c]

(***************************************************************************)
(* A caller that waits for the retry_after_ms it was given and then brings *)
(* its own clock again finds enough tokens for the call that was refused,  *)
(* unless somebody took some: no refusal of another host, ahead or behind, *)
(* and no script that was overtaken makes the hint too short.              *)
(***************************************************************************)
HintSuffices ==
  \A c \in Client :
    hint[c].cost > 0 /\ hint[c].left = 0 =>
      Refilled(since + Ahead(c)) >= hint[c].cost * Unit

-----------------------------------------------------------------------------
(* The inductive strengthening of the two properties, for the proofs *)

\* Calls under way are calls on Redis, where alone the stamp goes back; the
\* age of a stamp is in its bounds.
CallsInv ==
  /\ \A c \in Client : InFlight(c) => call[c].cost > 0
  /\ backend = "memory" => back = 0 /\ \A c \in Client : ~InFlight(c)
  /\ stored => since \in -Skew .. MaxAge

\* What is there, what has come since by the caller's clock and what comes
\* while it waits is enough.
HintInv ==
  \A c \in Client : hint[c].cost > 0 =>
    /\ hint[c].cost <= Burst
    /\ stored => tokens + AtLeast(0, since + Ahead(c) + hint[c].left) * Rate
                   >= hint[c].cost * Unit

\* What the steady bucket would hold with the ticks that were moved back.
Covered == steady + back * Rate

\* The bucket as it was a lag ago holds no more than that, and a key is kept
\* until that is a full bucket.
LevelInv ==
  /\ steady <= Full
  /\ stored => \/ tokens + (since - Lag) * Rate <= Covered
               \/ Covered >= Full
  /\ stored /\ backend = "redis" => Covered + ttl * Rate >= Full
  /\ ~stored => Covered >= Full

\* Inductive for any clocks.
HintsInv == BucketTypeOK /\ CallsInv /\ HintInv

\* Inductive when the skew is small.
BucketInv == HintsInv /\ LevelInv
=============================================================================
