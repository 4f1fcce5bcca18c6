--------------------------- MODULE ProviderCalls ---------------------------
(***************************************************************************)
(* The clients a graph calls providers through: the decorators around the  *)
(* LLM client (redacting, routing, budget_enforcing, rate_limited, metered, *)
(* circuit_breaking) and around the git provider (rate_limited,            *)
(* circuit_breaking), and the retry loops of the two HTTP clients.         *)
(*                                                                         *)
(* A caller is a worker process: it makes one call at a time, keeps its    *)
(* own cache of budget decisions, and shares the breaker (Redis) and the   *)
(* usage log (Postgres) with the others.  The breaker is RedisBreaker;     *)
(* Record below is its record script together with the wrapper that        *)
(* decides which exceptions count.                                         *)
(***************************************************************************)
EXTENDS RedisBreaker

CONSTANTS
  Limit,       \* limit_tokens, in tokens of one answer
  CacheTtl,    \* cache_ttl_s of the budget decisions, in ticks
  MaxRetries,  \* max_retries of the HTTP clients
  MaxCalls,    \* bound: calls made
  MaxFaults    \* bound: backend errors and dead workers

ASSUME CallsAssumption ==
  /\ IsFiniteSet(Caller) /\ Caller # {}
  /\ Limit \in Nat /\ CacheTtl \in Nat \ {0}
  /\ MaxRetries \in Nat /\ MaxCalls \in Nat /\ MaxFaults \in Nat

VARIABLES
  stack,   \* which provider is called: "llm" or "git"
  call,    \* the running call of each caller
  cache,   \* BudgetEnforcingLLMClient._cache of each process
  paid,    \* answers the provider charged for
  usage,   \* answers in llm_usage_logs
  answered,  \* history: answers a graph received
  over,    \* history: ticks since the log reached the limit
  failures,  \* history: counted failures recorded since the failure log was empty
  pr,      \* the pull request of the branch at GitHub: "none" or "open"
  head,    \* its head, the commit to publish or another: "ours", "other"
  touched, \* history: callers whose pull request somebody has changed since
  calls,   \* calls made
  faults   \* faults so far

money == <<paid, usage, over, answered>>
count == <<calls, faults>>
breaker == <<keys, pc, failures>>
hub == <<pr, head, touched>>
allVars == <<breaker, stack, call, cache, money, hub, count>>

NoCall == [at |-> "idle", tries |-> 0, sent |-> 0, alone |-> FALSE, out |-> "none"]

NoDecision == [allowed |-> TRUE, left |-> 0]

CallsInit ==
  /\ Init
  /\ opened = Now(CHOOSE c \in Caller : TRUE)  \* not read before it is written
  /\ stack \in {"llm", "git"}
  /\ call = [c \in Caller |-> NoCall]
  /\ cache = [c \in Caller |-> NoDecision]
  /\ paid = 0 /\ usage = 0 /\ over = 0 /\ answered = 0
  /\ failures = 0
  /\ pr \in IF stack = "git" THEN {"none", "open"} ELSE {"none"}
  /\ head \in IF stack = "git" THEN {"ours", "other"} ELSE {"ours"}
  /\ touched = {}
  /\ calls = 0 /\ faults = 0

At(c, stage) == call[c].at = stage

GoTo(c, stage) == call' = [call EXCEPT ![c].at = stage]

Return(c) == call' = [call EXCEPT ![c] = NoCall]

Fault == faults < MaxFaults /\ faults' = faults + 1 /\ UNCHANGED calls

-----------------------------------------------------------------------------
(* RedactingLLMClient and RoutingLLMClient: the request is scrubbed and its *)
(* model chosen before anything else, and the answer is scrubbed last.  If *)
(* something was redacted and the audit fails, the call fails.             *)

Begin(c) ==
  /\ At(c, "idle") /\ calls < MaxCalls
  /\ GoTo(c, IF stack = "llm" THEN "check" ELSE "acquire")
  /\ calls' = calls + 1
  /\ UNCHANGED <<breaker, stack, cache, money, hub, faults>>

BeginFails(c) ==
  /\ stack = "llm" /\ At(c, "idle") /\ calls < MaxCalls
  /\ faults < MaxFaults /\ faults' = faults + 1
  /\ calls' = calls + 1
  /\ UNCHANGED <<breaker, stack, call, cache, money, hub>>

\* The scrubbed answer reaches the graph.
Deliver(c) ==
  /\ At(c, "deliver")
  /\ answered' = answered + 1
  /\ Return(c)
  /\ UNCHANGED <<breaker, stack, cache, paid, usage, over, hub, count>>

\* An answer that was paid for and metered is lost with its audit.
DeliverFails(c) ==
  /\ At(c, "deliver") /\ Fault
  /\ Return(c)
  /\ UNCHANGED <<breaker, stack, cache, money, hub>>

-----------------------------------------------------------------------------
(* BudgetEnforcingLLMClient *)

Cached(c) == cache[c].left > 0

\* aggregate_since over the usage log.
Spent == usage

\* LLMUsageAggregatorBudgetEnforcer.check.
Fresh == [allowed |-> Spent < Limit, left |-> CacheTtl]

\* Mutant of Decision: a hit renews the entry.
DecisionSlides(c) ==
  IF Cached(c) THEN [cache[c] EXCEPT !.left = CacheTtl] ELSE Fresh

\* _check: the cached decision while it is valid, else a fresh one, which is
\* cached from the moment before it was read.
Decision(c) == IF Cached(c) THEN cache[c] ELSE Fresh

\* LLMBudgetExceededError, after an audit event.
OverBudget(c) == Return(c)

Check(c) ==
  /\ At(c, "check")
  /\ cache' = [cache EXCEPT ![c] = Decision(c)]
  /\ IF Decision(c).allowed THEN GoTo(c, "acquire") ELSE OverBudget(c)
  /\ UNCHANGED <<breaker, stack, money, hub, count>>

\* fail_open: the log cannot be read.
CheckFails(c) ==
  /\ At(c, "check") /\ ~Cached(c) /\ Fault
  /\ GoTo(c, "acquire")
  /\ UNCHANGED <<breaker, stack, cache, money, hub>>

-----------------------------------------------------------------------------
(* RateLimitedLLMClient, RateLimitedGitProvider.  The token bucket refills  *)
(* by the monotonic clock of whichever host asks, so with several hosts it *)
(* may grant or deny at any time: its answer is left open.                 *)

Granted(c) == GoTo(c, "gate")

\* LLMRateLimitedError.  The call is not metered: the limiter is outside
\* the meter.
LlmDenied(c) == stack = "llm" /\ Return(c)

\* GitProviderTransientError.
GitDenied(c) == stack = "git" /\ Return(c)

Acquire(c) ==
  /\ At(c, "acquire")
  /\ Granted(c) \/ LlmDenied(c) \/ GitDenied(c)
  /\ UNCHANGED <<breaker, stack, cache, money, hub, count>>

\* fail_open: Redis does not answer.
AcquireFails(c) ==
  /\ At(c, "acquire") /\ Fault
  /\ GoTo(c, "gate")
  /\ UNCHANGED <<breaker, stack, cache, money, hub>>

-----------------------------------------------------------------------------
(* CircuitBreakingLLMClient, CircuitBreakingGitProvider *)

\* Where a call goes once its outcome is known: the LLM client meters it,
\* the git provider returns.
Settled(r, out) ==
  [r EXCEPT !.at = IF stack = "llm" THEN "meter" ELSE "return", !.tries = 0, !.out = out]

Admit(c) ==
  /\ At(c, "gate")
  /\ Pass(c) \/ Probe(c)
  /\ GoTo(c, "send")
  /\ UNCHANGED <<failures, stack, cache, money, hub, count>>

\* CircuitBreakerOpenError becomes LLMTransientError, which is metered.
LlmRejected(c) ==
  stack = "llm" /\ call' = [call EXCEPT ![c].at = "meter", ![c].out = "failed"]

\* CircuitBreakerOpenError becomes GitProviderTransientError.
GitRejected(c) == stack = "git" /\ Return(c)

Reject(c) ==
  /\ At(c, "gate") /\ state \in {"open", "half_open"} /\ ~MayProbe(c)
  /\ LlmRejected(c) \/ GitRejected(c)
  /\ UNCHANGED <<breaker, stack, cache, money, hub, count>>

\* fail_open: the gate script fails and the provider is called unprotected.
GateFails(c) ==
  /\ At(c, "gate") /\ Fault
  /\ call' = [call EXCEPT ![c].at = "send", ![c].alone = TRUE]
  /\ UNCHANGED <<breaker, stack, cache, money, hub>>

-----------------------------------------------------------------------------
(* The HTTP clients.  An outcome is a success, "refused" (auth and 4xx,    *)
(* which do not count against the provider) or "failed" (anything else).   *)
(* A publication succeeds with a pull request "created" or "reused".       *)

Succeeded == {"ok", "created", "reused"}

\* attempt + 1 < attempts.
MayRetry(c) == call[c].tries < MaxRetries

\* One request has been answered.  A transient failure is retried; the last
\* request of a call gives its outcome, which goes to the breaker unless the
\* call is unprotected.
Attempted(c, out, next) ==
  LET r == [call[c] EXCEPT !.sent = @ + 1, !.tries = 0]
      o == IF out = "transient" THEN "failed" ELSE out
  IN  call' = [call EXCEPT ![c] =
        IF out = "transient" /\ MayRetry(c) THEN [r EXCEPT !.tries = call[c].tries + 1]
        ELSE IF next # "record" THEN [r EXCEPT !.at = next]
        ELSE IF r.alone THEN Settled(r, o)
        ELSE [r EXCEPT !.at = "record", !.out = o]]

Reply(out, charged) == [out |-> out, charged |-> charged]

\* Timeouts and transport errors: the provider may have worked and charged.
Unanswered == {Reply("transient", b) : b \in BOOLEAN}

\* _parse of another status than 200.
Errors == {Reply(out, FALSE) : out \in {"refused", "failed", "transient"}}

\* 200: an answer, or a body that cannot be used and is paid for as well.
Decoded == {Reply("ok", TRUE), Reply("transient", TRUE)}

\* OpenRouterClient.complete, one request.
Complete(c) ==
  /\ stack = "llm" /\ At(c, "send")
  /\ \E r \in Unanswered \cup Errors \cup Decoded :
       /\ Attempted(c, r.out, "record")
       /\ paid' = IF r.charged THEN paid + 1 ELSE paid
  /\ UNCHANGED <<breaker, stack, cache, usage, over, answered, hub, count>>

\* Mutant of Reusable: any open pull request of the branch will do.
ReusableAnySha == pr = "open"

\* The open pull request points at the commit to publish.
Reusable == pr = "open" /\ head = "ours"

\* _classify_4xx: 401, 403, 400, 404 and 422 are refusals.
Classified == {"refused", "failed"}

\* _build_ref: a 2xx whose body is not a pull request is an error.
Built(action) == {action, "failed"}

\* What was asked of GitHub is as of this request.
Seen(c) == touched' = touched \ {c}

\* GitHubGitProvider._search_open_pr and the decision on what it found.
Search(c) ==
  /\ stack = "git" /\ At(c, "send")
  /\ \/ \E out \in {"transient"} \cup Classified : Attempted(c, out, "record")
     \/ Reusable /\ \E out \in Built("reused") : Attempted(c, out, "record")
     \/ ~Reusable /\ pr = "open" /\ Attempted(c, "refused", "record")
     \/ pr = "none" /\ Attempted(c, "ok", "create")
  /\ Seen(c)
  /\ UNCHANGED <<breaker, stack, cache, money, pr, head, count>>

\* GitHubGitProvider._create_pr.  GitHub opens a pull request of the branch,
\* whatever its head is by now, and refuses a second one.  The commit that
\* the answer names is not looked at; a lost answer may have opened it.
Create(c) ==
  /\ stack = "git" /\ At(c, "create")
  /\ \/ Attempted(c, "transient", "record") /\ pr' \in {pr, "open"}
     \/ (\E out \in Classified : Attempted(c, out, "record")) /\ UNCHANGED pr
     \/ /\ pr = "none" /\ pr' = "open"
        /\ \E out \in Built("created") : Attempted(c, out, "record")
  /\ Seen(c)
  /\ UNCHANGED <<breaker, stack, cache, money, head, count>>

\* Somebody pushes to the branch, or opens, merges or closes its pull request.
Foreign ==
  /\ stack = "git"
  /\ pr' \in {"none", "open"} /\ head' \in {"ours", "other"}
  /\ <<pr', head'>> # <<pr, head>>
  /\ touched' = {c \in Caller : call[c].out \in {"created", "reused"}}
  /\ UNCHANGED <<breaker, stack, call, cache, money, count>>

-----------------------------------------------------------------------------
(* The end of a call *)

\* Mutant of Counts: every exception counts.
CountsAll(out) == out \notin Succeeded

\* _default_should_count.
Counts(out) == out = "failed"

\* The record script ran; the wrapper hands the outcome on.  A probe closes
\* the breaker or opens it again, whether or not its exception counts.
Record(c) ==
  /\ At(c, "record")
  /\ \/ pc[c] = "probe" /\ ProbeEnds(c)
        /\ state' = IF call[c].out \in Succeeded THEN "closed" ELSE "open"
     \/ IF Counts(call[c].out) THEN CallFails(c) ELSE CallEnds(c)
  /\ failures' = IF fails' = <<>> THEN 0
                 ELSE IF call[c].out = "failed" THEN failures + 1 ELSE failures
  /\ call' = [call EXCEPT ![c] = Settled(@, @.out)]
  /\ UNCHANGED <<stack, cache, money, hub, count>>

\* Mutant of RecordFails: the second call is taken for a protected one.
RecordFailsProtected(c) ==
  /\ At(c, "record") /\ Fault
  /\ OutcomeLost(c)
  /\ call' = [call EXCEPT ![c].at = "send", ![c].out = "none"]
  /\ UNCHANGED <<failures, stack, cache, money, hub>>

\* fail_open: the record script fails.  The wrapper cannot tell this from a
\* gate that failed and calls the provider a second time.
RecordFails(c) ==
  /\ At(c, "record") /\ Fault
  /\ OutcomeLost(c)
  /\ call' = [call EXCEPT ![c].at = "send", ![c].alone = TRUE, ![c].out = "none"]
  /\ UNCHANGED <<failures, stack, cache, money, hub>>

\* Mutant of Metered: a failed call is metered like an answer.
MeteredAlways(c) == usage + 1

\* _build_record: only an answer carries tokens.
Metered(c) == IF call[c].out = "ok" THEN usage + 1 ELSE usage

\* The meter returns the answer or raises the error it saw.
HandOn(c) == IF call[c].out = "ok" THEN GoTo(c, "deliver") ELSE Return(c)

\* MeteredLLMClient._safe_record: one row per call, errors too.
Meter(c) ==
  /\ At(c, "meter")
  /\ usage' = Metered(c)
  /\ HandOn(c)
  /\ UNCHANGED <<breaker, stack, cache, paid, over, answered, hub, count>>

\* The insert fails and is swallowed.
MeterFails(c) ==
  /\ At(c, "meter") /\ Fault
  /\ HandOn(c)
  /\ UNCHANGED <<breaker, stack, cache, money, hub>>

\* open_or_reuse_pr returns the pull request or raises.
Returns(c) ==
  /\ At(c, "return")
  /\ Return(c)
  /\ UNCHANGED <<breaker, stack, cache, money, hub, count>>

\* The worker process dies; its cache goes with it.
Die(c) ==
  /\ ~At(c, "idle") /\ Fault
  /\ Return(c)
  /\ cache' = [cache EXCEPT ![c] = NoDecision]
  /\ IF pc[c] = "idle" THEN UNCHANGED <<keys, pc>> ELSE OutcomeLost(c)
  /\ UNCHANGED <<failures, stack, money, hub>>

-----------------------------------------------------------------------------

TimePasses ==
  /\ Tick
  /\ failures' = IF fails' = <<>> THEN 0 ELSE failures
  /\ cache' = [c \in Caller |->
                 IF cache[c].left <= 1 THEN NoDecision
                 ELSE [cache[c] EXCEPT !.left = @ - 1]]
  /\ over' = IF usage >= Limit THEN IF over < CacheTtl THEN over + 1 ELSE over ELSE 0
  /\ UNCHANGED <<stack, call, paid, usage, answered, hub, count>>

Step(c) ==
  \/ Check(c) \/ CheckFails(c) \/ Acquire(c) \/ AcquireFails(c)
  \/ Admit(c) \/ Reject(c) \/ GateFails(c)
  \/ Complete(c) \/ Search(c) \/ Create(c)
  \/ Record(c) \/ RecordFails(c) \/ Meter(c) \/ MeterFails(c)
  \/ Deliver(c) \/ DeliverFails(c) \/ Returns(c)
  \/ Die(c)

CallsNext == TimePasses \/ Foreign \/ \E c \in Caller : Begin(c) \/ BeginFails(c) \/ Step(c)

CallsSpec == CallsInit /\ [][CallsNext]_allVars

-----------------------------------------------------------------------------
(* Properties *)

\* Type invariant: the calls, the caches and the counters.
CallsTypeOK ==
  /\ TypeOK
  /\ call \in [Caller -> [at : {"idle", "check", "acquire", "gate", "send",
                                "create", "record", "meter", "deliver", "return"},
                          tries : 0 .. MaxRetries, sent : Nat, alone : BOOLEAN,
                          out : {"none", "refused", "failed"} \cup Succeeded]]
  /\ cache \in [Caller -> [allowed : BOOLEAN, left : 0 .. CacheTtl]]
  /\ paid \in Nat /\ usage \in Nat /\ answered \in Nat /\ failures \in Nat
  /\ pr \in {"none", "open"} /\ head \in {"ours", "other"} /\ touched \subseteq Caller

(***************************************************************************)
(* A worker that asks about the budget once the log has held the limit for *)
(* a cache lifetime is turned away, whatever decisions the processes had   *)
(* cached and whichever calls were in flight, as long as the log can be    *)
(* read.                                                                   *)
(***************************************************************************)
EnforcedAfterTtl ==
  [][\A c \in Caller :
       At(c, "check") /\ call'[c].at = "acquire" /\ faults' = faults
         => over < CacheTtl]_allVars

(***************************************************************************)
(* The usage log never charges a tenant for more than the provider did:    *)
(* retries, refusals, an open breaker and the second call of a failed      *)
(* record add no usage of their own.  And no graph gets an answer that the *)
(* log does not know, unless a backend failed.                             *)
(***************************************************************************)
MeteredWasPaid == usage <= paid /\ answered <= usage + faults

(***************************************************************************)
(* One call reaches the provider at most max_retries + 1 times per request *)
(* it makes (a publication makes two); only a breaker whose backend fails  *)
(* doubles that, and never more than once.                                 *)
(***************************************************************************)
AttemptsBounded ==
  LET requests == IF stack = "llm" THEN 1 ELSE 2
  IN  \A c \in Caller :
        call[c].sent <= (MaxRetries + 1) * requests * (IF call[c].alone THEN 2 ELSE 1)

(***************************************************************************)
(* What the failure window counts: a breaker that lets calls through opens *)
(* only with a failure that makes up the threshold together with others    *)
(* recorded since the failure log was empty, however many refusals and     *)
(* lost outcomes lie between them, or with the late report of a probe of   *)
(* an earlier phase.  It says nothing of a half-open breaker: there a      *)
(* refusal does open it again, see RefusalsDoNotReopen.                    *)
(***************************************************************************)
RefusalsDoNotTrip ==
  [][(state \in {"none", "closed"} /\ state' = "open")
       => \E c \in Caller :
            /\ At(c, "record")
            /\ \/ pc[c] = "probe"
               \/ call[c].out = "failed" /\ failures + 1 >= Threshold]_allVars

(***************************************************************************)
(* Refuted by the code, and not part of a run: the wrapper leaves auth     *)
(* errors and bad requests out "because retrying will not help and they    *)
(* should not poison the failure window" (infra/llm/circuit_breaking.py:   *)
(* 31-34).  The record script ignores `counted' for a probe, so a refused  *)
(* probe shuts the provider off for every caller for another cooldown.     *)
(***************************************************************************)
RefusalsDoNotReopen ==
  [][\A c \in Caller :
       At(c, "record") /\ call'[c].at # "record" /\ call[c].out = "refused"
         => state' # "open" \/ state = "open"]_allVars

(***************************************************************************)
(* What a publication reports is true of the branch until somebody else    *)
(* changes it: there is an open pull request, and one that is reported as  *)
(* reused points at the published commit.  Under lost answers, a second    *)
(* pass after a failed record, and with other workers publishing the same  *)
(* branch.                                                                 *)
(***************************************************************************)
PublishedIsOurs ==
  stack = "git" =>
    \A c \in Caller \ touched :
      /\ call[c].out \in {"created", "reused"} => pr = "open"
      /\ call[c].out = "reused" => head = "ours"

(***************************************************************************)
(* Refuted by the code, and not part of a run: for "a commit produced by   *)
(* builtin.bug_fix", "the adapter publishes the change as a real pull      *)
(* request" (core/ports/git_provider.py:3-6).  The adapter creates a pull  *)
(* request of whatever the branch points at by then, and returns the       *)
(* caller's head_commit_sha without a look at the head.sha of the answer   *)
(* (infra/git_provider/github.py:130-144, 149-170).                        *)
(***************************************************************************)
CreatedIsOurs ==
  \A c \in Caller \ touched : call[c].out = "created" => head = "ours"
=============================================================================
