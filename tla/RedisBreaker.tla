---------------------------- MODULE RedisBreaker ----------------------------
(***************************************************************************)
(* RedisCircuitBreaker: the breaker of one key shared by the replicas of   *)
(* the system.  Each of the two Lua scripts is atomic; between them the    *)
(* protected function runs, the replica may die, or the record script may  *)
(* be lost.  Both keys expire.                                             *)
(*                                                                         *)
(* Timestamps come from the monotonic clock of the calling replica.  They  *)
(* are kept as the age of the stamp and the replica that wrote it; what    *)
(* another replica computes from it is off by the difference of their      *)
(* clocks.                                                                 *)
(***************************************************************************)
EXTENDS Integers, Sequences, FiniteSets

CONSTANTS
  Caller,     \* concurrent calls, each on a replica of its own
  Offset,     \* the monotonic clock of each caller's replica at time 0
  Threshold,  \* failure_threshold
  Window,     \* window_ms, in ticks
  Cooldown,   \* cooldown_ms, in ticks
  Ttl,        \* ttl_sec, in ticks
  MaxAge,     \* bound: ages are not told apart beyond this
  Silent      \* may the outcome of a call be lost?

ASSUME RedisBreakerAssumption ==
  /\ Offset \in [Caller -> Int]
  /\ Threshold \in Nat \ {0} /\ Window \in Nat \ {0} /\ Cooldown \in Nat \ {0}
  /\ Ttl \in Nat \ {0} /\ MaxAge \in Nat
  /\ \A c, d \in Caller : /\ Window + Offset[c] - Offset[d] < MaxAge
                          /\ Cooldown + Offset[c] - Offset[d] <= MaxAge
  /\ Silent \in BOOLEAN

VARIABLES
  state,     \* field `state' of the hash ("none": no hash)
  opened,    \* field `opened_at_ms': age and writer
  flag,      \* field `probe_in_flight'
  fails,     \* the failure list, oldest first
  stateTtl,  \* ticks until the hash expires
  failTtl,   \* ticks until the list expires
  pc         \* what each caller is doing

keys == <<state, opened, flag, fails, stateTtl, failTtl>>
vars == <<state, opened, flag, fails, stateTtl, failTtl, pc>>

Stamp == [age : 0 .. MaxAge, by : Caller]

\* now_ms of caller c minus a stamp.
Elapsed(c, s) == s.age + Offset[c] - Offset[s.by]

Now(c) == [age |-> 0, by |-> c]

Init ==
  /\ state = "none"
  /\ opened \in {Now(c) : c \in Caller}
  /\ flag = FALSE
  /\ fails = <<>>
  /\ stateTtl = 0 /\ failTtl = 0
  /\ pc = [c \in Caller |-> "idle"]

-----------------------------------------------------------------------------
(* _GATE_SCRIPT.  A rejected call changes nothing. *)

Pass(c) ==
  /\ pc[c] = "idle" /\ state \in {"none", "closed"}
  /\ pc' = [pc EXCEPT ![c] = "call"]
  /\ UNCHANGED keys

\* OPEN and cooled down by the caller's clock, or half open with nobody
\* probing.
MayProbe(c) ==
  \/ state = "open" /\ Elapsed(c, opened) >= Cooldown
  \/ state = "half_open" /\ ~flag

Probe(c) ==
  /\ pc[c] = "idle" /\ MayProbe(c)
  /\ state' = "half_open"
  /\ flag' = TRUE
  /\ pc' = [pc EXCEPT ![c] = "probe"]
  /\ UNCHANGED <<opened, fails, stateTtl, failTtl>>

-----------------------------------------------------------------------------
(* _RECORD_SCRIPT *)

\* Mutant of ProbeEnds: a probe that ends with an exception that does not
\* count leaves the breaker half open for the next caller.
ProbeEndsUncounted(c) ==
  /\ pc[c] = "probe"
  /\ state' \in {"closed", "open", state}
  /\ opened' = Now(c)
  /\ flag' = FALSE
  /\ fails' = <<>> /\ failTtl' = 0
  /\ stateTtl' = Ttl
  /\ pc' = [pc EXCEPT ![c] = "idle"]

\* The probe's outcome: the failure list is deleted either way.
ProbeEnds(c) ==
  /\ pc[c] = "probe"
  /\ \E ok \in BOOLEAN : state' = IF ok THEN "closed" ELSE "open"
  /\ opened' = Now(c)
  /\ flag' = FALSE
  /\ fails' = <<>> /\ failTtl' = 0
  /\ stateTtl' = Ttl
  /\ pc' = [pc EXCEPT ![c] = "idle"]

\* Success, or an exception that does not count.
CallEnds(c) ==
  /\ pc[c] = "call"
  /\ pc' = [pc EXCEPT ![c] = "idle"]
  /\ UNCHANGED keys

\* LPOP while the head is out of the window; it stops at the first stamp
\* that is not, whatever lies behind it.
Stale(c, f) ==
  {i \in 1 .. Len(f) : \A j \in 1 .. i : Elapsed(c, f[j]) > Window}
Pruned(c, f) == SubSeq(f, Cardinality(Stale(c, f)) + 1, Len(f))

Trips(f) == Len(f) >= Threshold

\* Mutant of CallFails: the expiry of the hash is not set when it is made.
CallFailsNoExpire(c) ==
  LET f == Pruned(c, Append(fails, Now(c)))
  IN  /\ pc[c] = "call"
      /\ fails' = IF Trips(f) THEN <<>> ELSE f
      /\ failTtl' = IF Trips(f) THEN 0 ELSE Ttl
      /\ state' = IF Trips(f) THEN "open" ELSE state
      /\ opened' = IF Trips(f) THEN Now(c) ELSE opened
      /\ flag' = IF Trips(f) THEN FALSE ELSE flag
      /\ UNCHANGED stateTtl
      /\ pc' = [pc EXCEPT ![c] = "idle"]

\* A counted failure of an admitted call, whatever the state is by now.
CallFails(c) ==
  LET f == Pruned(c, Append(fails, Now(c)))
  IN  /\ pc[c] = "call"
      /\ fails' = IF Trips(f) THEN <<>> ELSE f
      /\ failTtl' = IF Trips(f) THEN 0 ELSE Ttl
      /\ state' = IF Trips(f) THEN "open" ELSE state
      /\ opened' = IF Trips(f) THEN Now(c) ELSE opened
      /\ flag' = IF Trips(f) THEN FALSE ELSE flag
      /\ stateTtl' = IF Trips(f) \/ state # "none" THEN Ttl ELSE stateTtl
      /\ pc' = [pc EXCEPT ![c] = "idle"]

\* The replica dies during the call, or Redis does not answer the record.
OutcomeLost(c) ==
  /\ Silent /\ pc[c] \in {"call", "probe"}
  /\ pc' = [pc EXCEPT ![c] = "idle"]
  /\ UNCHANGED keys

-----------------------------------------------------------------------------

Older(s) == [s EXCEPT !.age = IF @ < MaxAge THEN @ + 1 ELSE @]

\* Time passes for the stamps and for the expiry of both keys.
Tick ==
  /\ LET gone == state # "none" /\ stateTtl = 1
     IN /\ state' = IF gone THEN "none" ELSE state
        /\ flag' = IF gone THEN FALSE ELSE flag
        /\ opened' = IF state = "open" /\ ~gone THEN Older(opened) ELSE opened
        /\ stateTtl' = IF stateTtl > 0 THEN stateTtl - 1 ELSE 0
  /\ failTtl' = IF failTtl > 0 THEN failTtl - 1 ELSE 0
  /\ fails' = IF failTtl = 1 THEN <<>>
              ELSE [i \in 1 .. Len(fails) |-> Older(fails[i])]
  /\ UNCHANGED pc

End(c) == ProbeEnds(c) \/ CallEnds(c) \/ CallFails(c) \/ OutcomeLost(c)

Next == Tick \/ \E c \in Caller : Pass(c) \/ Probe(c) \/ End(c)

Spec == Init /\ [][Next]_vars

\* Time passes, and a protected call ends or dies with its replica.  Nobody
\* is obliged to call.
FairSpec == Spec /\ WF_vars(Tick) /\ \A c \in Caller : WF_vars(End(c))
-----------------------------------------------------------------------------
(* Properties *)

\* Type invariant: the two keys, their expiries and the callers.
TypeOK ==
  /\ state \in {"none", "closed", "open", "half_open"}
  /\ opened \in Stamp
  /\ flag \in BOOLEAN
  /\ fails \in Seq(Stamp)
  /\ stateTtl \in 0 .. Ttl /\ failTtl \in 0 .. Ttl
  /\ pc \in [Caller -> {"idle", "call", "probe"}]

(***************************************************************************)
(* No stored state outlives its replicas: whenever the hash exists it will *)
(* expire, whichever script wrote it last and however the two keys came    *)
(* and went.  It is what ends a probing phase whose replica died.          *)
(***************************************************************************)
StateExpires == state # "none" => stateTtl > 0

(***************************************************************************)
(* The failure log never holds a full threshold, so a breaker that lets    *)
(* calls through, also after its hash expired, starts below the trip       *)
(* point.                                                                  *)
(***************************************************************************)
LogBelowThreshold == Len(fails) < Threshold

(***************************************************************************)
(* Neither shielding state is permanent, with any clock offsets and with   *)
(* probes that never report.                                               *)
(***************************************************************************)
NeverStuck ==
  /\ state = "open" ~> state # "open"
  /\ state = "half_open" ~> state # "half_open"
=============================================================================
