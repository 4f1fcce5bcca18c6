------------------------------ MODULE MCGuards ------------------------------
(***************************************************************************)
(* Small instances of the three guards of a client call: the in-process    *)
(* breaker, the shared breaker and the token buckets.  They share nothing; *)
(* a behaviour is about one of them, and the others keep their initial     *)
(* state.                                                                  *)
(***************************************************************************)
EXTENDS CircuitBreaker, TokenBucket

CONSTANTS c1, c2, c3, Ttl, AgeBound

VARIABLES
  guard,  \* the guard that this behaviour is about
  rState, rOpened, rFlag, rFails, rStateTtl, rFailTtl, rPc

\* Replicas of two hosts that were booted at different times.
TwoHosts == [c \in Caller |-> IF c = c1 THEN 0 ELSE 3]

\* Two thirds of a token per tick: a bucket of two tokens fills in three
\* ticks; the second host is ahead.
Skewed == [c \in Client |-> IF c = c1 THEN 0 ELSE MaxSkew]

ASSUME SkewIsSmall

\* The shared breaker expires early and has short phases.
Shared == INSTANCE RedisBreaker WITH
  Offset <- TwoHosts, Window <- 1, Cooldown <- 1, MaxAge <- AgeBound, Silent <- TRUE,
  state <- rState, opened <- rOpened, flag <- rFlag, fails <- rFails,
  stateTtl <- rStateTtl, failTtl <- rFailTtl, pc <- rPc

sharedVars == <<rState, rOpened, rFlag, rFails, rStateTtl, rFailTtl, rPc>>

GuardInit ==
  /\ guard \in {"in_process", "shared", "bucket"}
  /\ Init /\ Shared!Init /\ BucketInit
  /\ guard # "shared" => rOpened = Shared!Now(c1)
  /\ guard # "bucket" => backend = "memory"

GuardNext ==
  /\ guard' = guard
  /\ \/ guard = "in_process" /\ Next /\ UNCHANGED <<sharedVars, bucketVars>>
     \/ guard = "shared" /\ Shared!Next /\ UNCHANGED <<vars, bucketVars>>
     \/ guard = "bucket" /\ BucketNext /\ UNCHANGED <<vars, sharedVars>>

GuardVars == <<guard, vars, sharedVars, bucketVars>>

GuardSpec ==
  /\ GuardInit /\ [][GuardNext]_GuardVars
  /\ \A c \in Caller : WF_vars(End(c))
  /\ WF_sharedVars(Shared!Tick) /\ \A c \in Caller : WF_sharedVars(Shared!End(c))

-----------------------------------------------------------------------------

\* Neither shielding state of the shared breaker is permanent (RedisBreaker).
NeverStuck == Shared!NeverStuck
=============================================================================
