----------------------------- MODULE CodeReview -----------------------------
(***************************************************************************)
(* CODE_REVIEW tasks, one after the other, on a worker with a prompt cache *)
(* while other workers boot and register new versions: prepare fetches the *)
(* prompt and stores the finished request, review sends it and parses the  *)
(* answer, finalize projects it.  Nodes may raise and the worker may die.  *)
(***************************************************************************)
EXTENDS PromptRegistry

CONSTANTS MaxReviews, MaxDeliveries

ASSUME ReviewAssumption == MaxReviews \in Nat \ {0} /\ MaxDeliveries \in Nat \ {0}

VARIABLES
  reviews,     \* tasks finished so far
  cp,          \* the latest checkpoint of the task at hand
  deliveries,  \* delivery_count of that task
  pc,          \* what the worker is doing
  calls        \* history: model calls made for the task at hand

task == <<reviews, cp, deliveries, calls>>
vars == <<registry, task, pc>>

NoRequest == [version |-> 0, text |-> "none"]
FirstCheckpoint == [node |-> "prepare", request |-> NoRequest]

Init ==
  /\ RegistryInit
  /\ reviews = 0 /\ cp = FirstCheckpoint /\ deliveries = 0
  /\ pc = "idle" /\ calls = 0

Persist(next) ==
  /\ cp' = next
  /\ pc' = "node"
  /\ UNCHANGED <<reviews, deliveries>>

Start ==
  /\ pc = "idle" /\ boot[Home] = "up"
  /\ reviews < MaxReviews /\ deliveries < MaxDeliveries
  /\ deliveries' = deliveries + 1
  /\ pc' = "node"
  /\ UNCHANGED <<registry, reviews, cp, calls>>

\* A task ends, completed or abandoned; the next one starts afresh.
TaskEnds ==
  /\ \/ pc = "node" /\ cp.node = "end"
     \/ pc = "idle" /\ deliveries = MaxDeliveries /\ reviews < MaxReviews
  /\ reviews' = reviews + 1
  /\ cp' = FirstCheckpoint /\ deliveries' = 0 /\ calls' = 0
  /\ pc' = "idle"
  /\ UNCHANGED registry

\* A GraphError, an LLMError or a missing prompt: delivered again.
NodeFails ==
  /\ pc # "idle"
  /\ pc' = "idle"
  /\ reading' = NoRead
  /\ UNCHANGED <<task, rows, release, boot, latest, cache, sinceNew>>

Die ==
  /\ pc # "idle"
  /\ pc' = "idle"
  /\ ForgetCache
  /\ UNCHANGED task

\* The rendered prompt and its version; the scope is not kept.
Request(a) == [version |-> a[2], text |-> Text(a)]

Prepared(a) == Persist([node |-> "review", request |-> Request(a)])

PrepareHit ==
  /\ pc = "node" /\ cp.node = "prepare"
  /\ Fresh /\ cache.asset # NoAsset
  /\ Prepared(cache.asset)
  /\ UNCHANGED <<registry, calls>>

PrepareMiss ==
  /\ pc = "node" /\ cp.node = "prepare"
  /\ Miss
  /\ pc' = "fetching"
  /\ UNCHANGED task

PrepareFill ==
  /\ pc = "fetching" /\ reading.asset # NoAsset
  /\ Fill
  /\ Prepared(reading.asset)
  /\ UNCHANGED calls

\* An answer that does not parse is paid for and raises.
Unparsed == pc' = "idle" /\ UNCHANGED <<reviews, cp, deliveries>>

\* llm.complete, then _parse_review.
Review ==
  /\ pc = "node" /\ cp.node = "review"
  /\ calls' = calls + 1
  /\ Persist([cp EXCEPT !.node = "finalize"]) \/ Unparsed
  /\ UNCHANGED registry

Finalize ==
  /\ pc = "node" /\ cp.node = "finalize"
  /\ Persist([cp EXCEPT !.node = "end"])
  /\ UNCHANGED <<registry, calls>>

Seeding ==
  /\ \/ \E w \in Workers : SeedRead(w) \/ SeedRegister(w) \/ SeedLoses(w)
     \/ \E r \in Releases : Override(r)
  /\ UNCHANGED <<task, pc>>

Time == Tick(pc = "fetching") /\ UNCHANGED <<task, pc>>

Next ==
  \/ Start \/ TaskEnds \/ NodeFails \/ Die
  \/ PrepareHit \/ PrepareMiss \/ PrepareFill \/ Review \/ Finalize
  \/ Seeding \/ Time

Spec == Init /\ [][Next]_vars

-----------------------------------------------------------------------------
(* Properties *)

\* Type invariant.
TypeOK ==
  /\ RegistryType
  /\ reviews \in 0 .. MaxReviews
  /\ cp \in [node : {"prepare", "review", "finalize", "end"},
             request : [version : Nat, text : Releases \cup {"none"}]]
  /\ deliveries \in 0 .. MaxDeliveries
  /\ pc \in {"idle", "node", "fetching"}
  /\ calls \in 0 .. MaxDeliveries

(***************************************************************************)
(* Seeding is idempotent: however many workers of however many releases    *)
(* boot at once or again, no version repeats the text of the one before    *)
(* it.  A worker that loses the race does not boot (SeedLoses).            *)
(***************************************************************************)
SeedsEvolve ==
  \A v \in 2 .. Len(rows["global"]) : rows["global"][v] # rows["global"][v - 1]

(***************************************************************************)
(* The version that is sent with a request, and logged with its cost,      *)
(* leads back to the text that was sent, also when the request is repeated *)
(* from a checkpoint after newer versions were registered - but for one    *)
(* case: the text is the global one and the tenant has registered a        *)
(* version of the same number, before the request through a stale cache    *)
(* or after it.                                                            *)
(***************************************************************************)
Attributed ==
  cp.request # NoRequest =>
    LET v == cp.request.version IN
      \/ Lookup(v) = cp.request.text
      \/ /\ v \in 1 .. Len(rows["tenant"]) /\ v \in 1 .. Len(rows["global"])
         /\ rows["global"][v] = cp.request.text

(***************************************************************************)
(* "(prompt_id, version) is unique" and joins "calls back to the exact     *)
(* text that produced them": asked for that version, the registry returns  *)
(* the text that was sent.  Refuted by the code, and not part of a run:    *)
(* the version of a tenant hides the global one of the same number.        *)
(***************************************************************************)
VersionNamesText == cp.request # NoRequest => Lookup(cp.request.version) = cp.request.text

(***************************************************************************)
(* "New prompt versions written out-of-band to the DB become visible       *)
(* across all replicas within ttl_seconds", plus the time one read takes:  *)
(* a review that starts later than that uses the latest version.           *)
(***************************************************************************)
HotReload ==
  [][cp'.request # cp.request /\ cp'.request # NoRequest =>
       cp'.request = Request(Resolve) \/ sinceNew < Ttl + ReadTime]_vars

-----------------------------------------------------------------------------
(* The inductive invariant behind the properties *)

\* A stored version: a row the append-only table holds for good.
Stored(a) == a \in Asset /\ a[2] <= Len(rows[a[1]])

\* The request is for the stored version a.
Carries(a) == Stored(a) /\ cp.request = Request(a)

(***************************************************************************)
(* A worker that is about to register compared its text with a version     *)
(* that is still there.                                                    *)
(***************************************************************************)
SeedInv ==
  \A w \in Workers : boot[w] = "register" =>
    /\ latest[w] <= Len(rows["global"])
    /\ latest[w] > 0 => rows["global"][latest[w]] # release[w]

\* What is cached, read or requested is a stored version.
StoredInv ==
  /\ cache.asset # NoAsset => Stored(cache.asset)
  /\ reading.asset # NoAsset => Stored(reading.asset)
  /\ cp.request # NoRequest => \E s \in Scope : Carries(<<s, cp.request.version>>)

(***************************************************************************)
(* An outdated read began before the last registration; an outdated entry  *)
(* has no more life left than the time bound allows.                       *)
(***************************************************************************)
AgeInv ==
  /\ cache.asset # NoAsset => cache.left <= Ttl
  /\ pc = "fetching" /\ reading.asset # Resolve => sinceNew <= reading.age
  /\ cache.asset \notin {NoAsset, Resolve} /\ Fresh =>
       sinceNew + cache.left <= Ttl + ReadTime

\* One model call per delivery, made at the review node.
CallsInv ==
  /\ calls <= deliveries
  /\ pc # "idle" => reviews < MaxReviews
  /\ pc = "fetching" => cp.node = "prepare"
  /\ pc # "idle" /\ cp.node \in {"prepare", "review"} => calls < deliveries

ReviewInv == TypeOK /\ SeedsEvolve /\ SeedInv /\ StoredInv /\ AgeInv /\ CallsInv
=============================================================================
