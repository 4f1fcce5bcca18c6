-------------------------- MODULE CodeReviewProofs --------------------------
(***************************************************************************)
(* Proofs about CodeReview with its prompt registry, for any number of     *)
(* workers and releases, and every time to live and duration of a read.    *)
(***************************************************************************)
EXTENDS CodeReview, TLAPS

\* The limits.
LEMMA Limits ==
  /\ Home \in Workers
  /\ Ttl \in Nat /\ Ttl > 0 /\ NegativeTtl \in Nat /\ ReadTime \in Nat
  /\ MaxReviews \in Nat /\ MaxReviews > 0
  /\ MaxDeliveries \in Nat /\ MaxDeliveries > 0
  /\ Horizon = Ttl + ReadTime + 1 /\ Horizon \in Nat
BY RegistryAssumption, ReviewAssumption DEF Horizon

-----------------------------------------------------------------------------
(* The table *)

\* The scopes of the table are sequences of texts.
LEMMA TableType ==
  ASSUME RegistryType, NEW s \in Scope
  PROVE  rows[s] \in Seq(Releases) /\ Len(rows[s]) \in Nat
BY DEF RegistryType

\* The version that is served is none, or one that is stored.
LEMMA ResolvedIsStored ==
  ASSUME RegistryType, Resolve # NoAsset
  PROVE  Stored(Resolve)
<1>1. \A s \in Scope : rows[s] # <<>> => Len(rows[s]) \in Nat \ {0}
  BY TableType DEF RegistryType
<1>2. "tenant" \in Scope /\ "global" \in Scope
  BY DEF Scope
<1>3. CASE rows["tenant"] # <<>>
  <2>1. Resolve = <<"tenant", Len(rows["tenant"])>>
    BY <1>3 DEF Resolve
  <2> QED
    BY <1>1, <1>2, <1>3, <2>1 DEF Stored, Asset
<1>4. CASE rows["tenant"] = <<>> /\ rows["global"] # <<>>
  <2>1. Resolve = <<"global", Len(rows["global"])>>
    BY <1>4 DEF Resolve
  <2> QED
    BY <1>1, <1>2, <1>4, <2>1 DEF Stored, Asset
<1>5. CASE rows["tenant"] = <<>> /\ rows["global"] = <<>>
  <2>1. Resolve = NoAsset
    BY <1>5 DEF Resolve
  <2> QED
    BY <2>1
<1> QED
  BY <1>3, <1>4, <1>5

\* None is not the name of a version.
LEMMA NoneIsNoVersion ==
  /\ NoAsset \notin Asset
  /\ \A a \in Asset : Request(a) # NoRequest
<1>1. NoAsset \notin Asset
  BY DEF NoAsset, Asset
<1>2. ASSUME NEW a \in Asset
      PROVE  Request(a) # NoRequest
  <2>1. a[2] \in Nat \ {0} /\ Request(a).version = a[2]
    BY DEF Asset, Request
  <2> QED
    BY <2>1 DEF NoRequest
<1> QED
  BY <1>1, <1>2

\* A stored version has a text.
LEMMA StoredText ==
  ASSUME RegistryType, NEW a, Stored(a)
  PROVE  a \in Asset /\ Text(a) \in Releases
<1>1. a \in Asset /\ a[1] \in Scope /\ a[2] \in Nat /\ a[2] > 0 /\ a[2] <= Len(rows[a[1]])
  BY DEF Stored, Asset
<1>2. rows[a[1]] \in Seq(Releases) /\ Len(rows[a[1]]) \in Nat
  BY <1>1, TableType
<1>3. a[2] \in 1 .. Len(rows[a[1]])
  BY <1>1, <1>2
<1> QED
  BY <1>1, <1>2, <1>3 DEF Text

(***************************************************************************)
(* A registration appends: what is stored stays stored, under its text.    *)
(***************************************************************************)
LEMMA Registered ==
  ASSUME RegistryType, NEW s \in Scope, NEW t \in Releases, NEW v,
         Register(s, v, t)
  PROVE  /\ rows' \in [Scope -> Seq(Releases)]
         /\ \A u \in Scope \ {s} : rows'[u] = rows[u]
         /\ Len(rows'[s]) = Len(rows[s]) + 1
         /\ rows'[s][Len(rows[s]) + 1] = t
         /\ \A u \in Scope : \A k \in 1 .. Len(rows[u]) : rows'[u][k] = rows[u][k]
         /\ \A a : Stored(a) => Stored(a)' /\ rows'[a[1]][a[2]] = Text(a)
<1> DEFINE old == rows[s]
<1>1. old \in Seq(Releases) /\ Len(old) \in Nat
  BY TableType
<1>2. /\ rows' = [rows EXCEPT ![s] = Append(old, t)]
      /\ rows \in [Scope -> Seq(Releases)]
  BY DEF Register, RegistryType
<1>3. /\ Append(old, t) \in Seq(Releases)
      /\ Len(Append(old, t)) = Len(old) + 1
      /\ Append(old, t)[Len(old) + 1] = t
      /\ \A k \in 1 .. Len(old) : Append(old, t)[k] = old[k]
  BY <1>1
<1>4. rows'[s] = Append(old, t) /\ \A u \in Scope \ {s} : rows'[u] = rows[u]
  BY <1>2
<1>5. rows' \in [Scope -> Seq(Releases)]
  BY <1>2, <1>3
<1>6. \A u \in Scope : \A k \in 1 .. Len(rows[u]) : rows'[u][k] = rows[u][k]
  BY <1>3, <1>4
<1>7. \A u \in Scope : Len(rows[u]) \in Nat /\ Len(rows'[u]) \in Nat /\ Len(rows[u]) <= Len(rows'[u])
  BY <1>1, <1>3, <1>4, TableType
<1>8. ASSUME NEW a, Stored(a)
      PROVE  Stored(a)' /\ rows'[a[1]][a[2]] = Text(a)
  <2>1. a \in Asset /\ a[1] \in Scope /\ a[2] \in Nat /\ a[2] > 0 /\ a[2] <= Len(rows[a[1]])
    BY <1>8 DEF Stored, Asset
  <2>2. a[2] \in 1 .. Len(rows[a[1]]) /\ a[2] <= Len(rows'[a[1]])
    BY <2>1, <1>7
  <2> QED
    BY <2>1, <2>2, <1>6 DEF Stored, Text, Asset
<1> QED
  BY <1>3, <1>4, <1>5, <1>6, <1>8

-----------------------------------------------------------------------------
(* Steps that leave the table alone *)

LEMMA TableKept ==
  ASSUME rows' = rows
  PROVE  /\ Resolve' = Resolve
         /\ \A a : Stored(a)' = Stored(a)
         /\ \A a : Text(a)' = Text(a)
         /\ \A a : Request(a)' = Request(a)
         /\ \A a : cp'.request = cp.request => Carries(a)' = Carries(a)
         /\ SeedsEvolve => SeedsEvolve'
BY DEF Resolve, Stored, Text, Request, Carries, SeedsEvolve

\* What the seeding knows stays true while no worker boots.
LEMMA SeedKept ==
  ASSUME SeedInv, UNCHANGED <<rows, release, boot, latest>>
  PROVE  SeedInv'
BY DEF SeedInv

\* The parts of the task's and the registry's types.
LEMMA Parts ==
  ASSUME TypeOK
  PROVE  /\ RegistryType
         /\ cp.node \in {"prepare", "review", "finalize", "end"}
         /\ cp.request \in [version : Nat, text : Releases \cup {"none"}]
         /\ cp = [node |-> cp.node, request |-> cp.request]
         /\ cache.asset \in Asset \cup {NoAsset} /\ cache.left \in Nat
         /\ reading.asset \in Asset \cup {NoAsset} /\ reading.age \in 0 .. ReadTime
         /\ sinceNew \in Nat /\ sinceNew <= Horizon
         /\ reviews \in Nat /\ deliveries \in Nat /\ calls \in Nat
         /\ reviews <= MaxReviews /\ deliveries <= MaxDeliveries
BY Limits DEF TypeOK, RegistryType

LEMMA InitialReview == Init => ReviewInv
<1> SUFFICES ASSUME Init PROVE ReviewInv
  OBVIOUS
<1>1. /\ reviews = 0 /\ cp = FirstCheckpoint /\ deliveries = 0 /\ pc = "idle" /\ calls = 0
      /\ release \in [Workers -> Releases]
      /\ boot = [w \in Workers |-> "down"] /\ latest = [w \in Workers |-> 0]
      /\ cache = NoEntry /\ reading = NoRead /\ sinceNew = Horizon
  BY DEF Init, RegistryInit
<1>2. rows \in [Scope -> Seq(Releases)] /\ Len(rows["global"]) \in {0, 1}
  <2>1. CASE rows \in [Scope -> {<<>>}]
    <3>1. <<>> \in Seq(Releases)
      OBVIOUS
    <3>2. rows \in [Scope -> Seq(Releases)] /\ rows["global"] = <<>>
      BY <2>1, <3>1 DEF Scope
    <3> QED
      BY <3>2
  <2>2. ASSUME NEW r \in Releases, rows = [tenant |-> <<>>, global |-> <<r>>]
        PROVE  rows \in [Scope -> Seq(Releases)] /\ Len(rows["global"]) \in {0, 1}
    <3>1. <<>> \in Seq(Releases) /\ <<r>> \in Seq(Releases) /\ Len(<<r>>) = 1
      OBVIOUS
    <3>2. rows = [s \in Scope |-> IF s = "tenant" THEN <<>> ELSE <<r>>]
      BY <2>2 DEF Scope
    <3>3. rows["global"] = <<r>>
      BY <2>2
    <3> QED
      BY <3>1, <3>2, <3>3
  <2> QED
    BY <2>1, <2>2 DEF Init, RegistryInit
<1>3. RegistryType
  <2>1. NoEntry \in [asset : Asset \cup {NoAsset}, left : Nat]
    BY DEF NoEntry
  <2>2. NoRead \in [asset : Asset \cup {NoAsset}, age : 0 .. ReadTime]
    BY Limits DEF NoRead
  <2> QED
    BY <1>1, <1>2, <2>1, <2>2, Limits DEF RegistryType
<1>4. TypeOK
  <2>1. FirstCheckpoint \in [node : {"prepare", "review", "finalize", "end"},
             request : [version : Nat, text : Releases \cup {"none"}]]
    BY DEF FirstCheckpoint, NoRequest
  <2> QED
    BY <1>1, <1>3, <2>1, Limits DEF TypeOK
<1>5. SeedsEvolve /\ SeedInv
  BY <1>1, <1>2 DEF SeedsEvolve, SeedInv
<1>6. StoredInv
  BY <1>1 DEF StoredInv, NoEntry, NoRead, FirstCheckpoint
<1>7. AgeInv /\ CallsInv
  BY <1>1 DEF AgeInv, CallsInv, NoEntry
<1> QED
  BY <1>4, <1>5, <1>6, <1>7 DEF ReviewInv

-----------------------------------------------------------------------------
(* Steps of the task *)

LEMMA StartStep ==
  ASSUME ReviewInv, Start
  PROVE  ReviewInv'
<1> USE DEF ReviewInv
<1>1. /\ pc = "idle" /\ reviews < MaxReviews /\ deliveries < MaxDeliveries
      /\ deliveries' = deliveries + 1 /\ pc' = "node"
      /\ UNCHANGED <<rows, release, boot, latest, cache, reading, sinceNew, reviews, cp, calls>>
  BY DEF Start, registry
<1>2. TypeOK'
  <2>1. deliveries' \in 0 .. MaxDeliveries
    BY <1>1, Parts, Limits
  <2> QED
    BY <1>1, <2>1 DEF TypeOK, RegistryType, Horizon
<1>3. SeedsEvolve' /\ SeedInv'
  BY <1>1, TableKept, SeedKept
<1>4. StoredInv'
  BY <1>1, TableKept DEF StoredInv
<1>5. AgeInv'
  BY <1>1, TableKept DEF AgeInv, Fresh
<1>6. CallsInv'
  BY <1>1, Parts DEF CallsInv
<1> QED
  BY <1>2, <1>3, <1>4, <1>5, <1>6

LEMMA TaskEndsStep ==
  ASSUME ReviewInv, TaskEnds
  PROVE  ReviewInv'
<1> USE DEF ReviewInv
<1>1. /\ pc # "idle" \/ reviews < MaxReviews
      /\ reviews' = reviews + 1 /\ cp' = FirstCheckpoint
      /\ deliveries' = 0 /\ calls' = 0 /\ pc' = "idle"
      /\ UNCHANGED <<rows, release, boot, latest, cache, reading, sinceNew>>
  BY DEF TaskEnds, registry
<1>2. TypeOK'
  <2>1. reviews' \in 0 .. MaxReviews
    BY <1>1, Parts, Limits DEF CallsInv
  <2>2. FirstCheckpoint \in [node : {"prepare", "review", "finalize", "end"},
             request : [version : Nat, text : Releases \cup {"none"}]]
    BY DEF FirstCheckpoint, NoRequest
  <2> QED
    BY <1>1, <2>1, <2>2, Limits DEF TypeOK, RegistryType
<1>3. SeedsEvolve' /\ SeedInv'
  BY <1>1, TableKept, SeedKept
<1>4. StoredInv'
  BY <1>1, TableKept DEF StoredInv, FirstCheckpoint
<1>5. AgeInv'
  BY <1>1, TableKept DEF AgeInv, Fresh
<1>6. CallsInv'
  BY <1>1, Parts DEF CallsInv
<1> QED
  BY <1>2, <1>3, <1>4, <1>5, <1>6

LEMMA NodeFailsStep ==
  ASSUME ReviewInv, NodeFails
  PROVE  ReviewInv'
<1> USE DEF ReviewInv
<1>1. /\ pc' = "idle" /\ reading' = NoRead
      /\ UNCHANGED <<reviews, cp, deliveries, calls, rows, release, boot, latest, cache, sinceNew>>
  BY DEF NodeFails, task
<1>2. TypeOK'
  <2>1. NoRead \in [asset : Asset \cup {NoAsset}, age : 0 .. ReadTime]
    BY Limits DEF NoRead
  <2> QED
    BY <1>1, <2>1 DEF TypeOK, RegistryType, Horizon
<1>3. SeedsEvolve' /\ SeedInv'
  BY <1>1, TableKept, SeedKept
<1>4. StoredInv'
  BY <1>1, TableKept DEF StoredInv, NoRead
<1>5. AgeInv'
  BY <1>1, TableKept DEF AgeInv, Fresh
<1>6. CallsInv'
  BY <1>1 DEF CallsInv
<1> QED
  BY <1>2, <1>3, <1>4, <1>5, <1>6

LEMMA DieStep ==
  ASSUME ReviewInv, Die
  PROVE  ReviewInv'
<1> USE DEF ReviewInv
<1>1. /\ pc' = "idle" /\ reading' = NoRead /\ cache' = NoEntry
      /\ boot' = [boot EXCEPT ![Home] = "down"]
      /\ UNCHANGED <<reviews, cp, deliveries, calls, rows, release, latest, sinceNew>>
  BY DEF Die, ForgetCache, task
<1>2. TypeOK'
  <2>1. NoRead \in [asset : Asset \cup {NoAsset}, age : 0 .. ReadTime]
    BY Limits DEF NoRead
  <2>2. NoEntry \in [asset : Asset \cup {NoAsset}, left : Nat]
    BY DEF NoEntry
  <2>3. boot' \in [Workers -> {"down", "register", "up"}]
    BY <1>1 DEF TypeOK, RegistryType
  <2> QED
    BY <1>1, <2>1, <2>2, <2>3 DEF TypeOK, RegistryType, Horizon
<1>3. SeedsEvolve'
  BY <1>1, TableKept
<1>4. SeedInv'
  <2>1. \A w \in Workers : boot'[w] = "register" => boot[w] = "register"
    BY <1>1 DEF TypeOK, RegistryType
  <2> QED
    BY <1>1, <2>1 DEF SeedInv
<1>5. StoredInv'
  BY <1>1, TableKept DEF StoredInv, NoRead, NoEntry
<1>6. AgeInv'
  BY <1>1 DEF AgeInv, NoEntry
<1>7. CallsInv'
  BY <1>1 DEF CallsInv
<1> QED
  BY <1>2, <1>3, <1>4, <1>5, <1>6, <1>7

(***************************************************************************)
(* A request is prepared from a stored version: it carries that version's  *)
(* text.                                                                   *)
(***************************************************************************)
LEMMA PreparedRequest ==
  ASSUME ReviewInv, NEW a, Stored(a), Prepared(a), rows' = rows
  PROVE  /\ cp' \in [node : {"prepare", "review", "finalize", "end"},
                     request : [version : Nat, text : Releases \cup {"none"}]]
         /\ cp'.node = "review" /\ pc' = "node"
         /\ cp'.request = Request(a)
         /\ \E s \in Scope : Carries(<<s, cp.request.version>>)'
         /\ UNCHANGED <<reviews, deliveries>>
<1>1. /\ cp' = [node |-> "review", request |-> Request(a)]
      /\ pc' = "node" /\ UNCHANGED <<reviews, deliveries>>
  BY DEF Prepared, Persist
<1>2. a \in Asset /\ Text(a) \in Releases
  BY StoredText DEF ReviewInv, TypeOK
<1>3. /\ a[1] \in Scope /\ a[2] \in Nat /\ a = <<a[1], a[2]>>
      /\ Request(a) \in [version : Nat, text : Releases \cup {"none"}]
      /\ Request(a).version = a[2]
  BY <1>2 DEF Asset, Request
<1>4. cp'.request = Request(a) /\ cp'.node = "review" /\ cp'.request.version = a[2]
  BY <1>1, <1>3
<1>5. Stored(a)' /\ Request(a)' = Request(a)
  BY TableKept
<1>6. Carries(<<a[1], cp.request.version>>)'
  BY <1>3, <1>4, <1>5 DEF Carries, Stored, Request, Text
<1> QED
  BY <1>1, <1>3, <1>4, <1>6

LEMMA PrepareHitStep ==
  ASSUME ReviewInv, PrepareHit
  PROVE  ReviewInv'
<1> USE DEF ReviewInv
<1>1. /\ pc = "node" /\ cp.node = "prepare" /\ cache.asset # NoAsset
      /\ Prepared(cache.asset)
      /\ UNCHANGED <<rows, release, boot, latest, cache, reading, sinceNew, calls>>
  BY DEF PrepareHit, registry
<1>2. Stored(cache.asset)
  BY <1>1 DEF StoredInv
<1>3. /\ cp' \in [node : {"prepare", "review", "finalize", "end"},
                  request : [version : Nat, text : Releases \cup {"none"}]]
      /\ cp'.node = "review" /\ pc' = "node"
      /\ \E s \in Scope : Carries(<<s, cp.request.version>>)'
      /\ UNCHANGED <<reviews, deliveries>>
  BY <1>1, <1>2, PreparedRequest
<1>4. TypeOK'
  BY <1>1, <1>3 DEF TypeOK, RegistryType, Horizon
<1>5. SeedsEvolve' /\ SeedInv'
  BY <1>1, TableKept, SeedKept
<1>6. StoredInv'
  BY <1>1, <1>3, TableKept DEF StoredInv
<1>7. AgeInv'
  BY <1>1, <1>3, TableKept DEF AgeInv, Fresh
<1>8. CallsInv'
  BY <1>1, <1>3 DEF CallsInv
<1> QED
  BY <1>4, <1>5, <1>6, <1>7, <1>8

LEMMA PrepareMissStep ==
  ASSUME ReviewInv, PrepareMiss
  PROVE  ReviewInv'
<1> USE DEF ReviewInv
<1>1. /\ pc = "node" /\ cp.node = "prepare" /\ pc' = "fetching"
      /\ reading' = [asset |-> Resolve, age |-> 0]
      /\ UNCHANGED <<rows, release, boot, latest, cache, sinceNew, reviews, cp, deliveries, calls>>
  BY DEF PrepareMiss, Miss, task
<1>2. Resolve # NoAsset => Stored(Resolve)
  BY ResolvedIsStored DEF TypeOK
<1>3. reading'.asset = Resolve
  BY <1>1
<1>4. TypeOK'
  <2>1. Resolve \in Asset \cup {NoAsset}
    BY <1>2 DEF Stored
  <2>2. reading' \in [asset : Asset \cup {NoAsset}, age : 0 .. ReadTime]
    BY <1>1, <2>1, Limits
  <2> QED
    BY <1>1, <2>2 DEF TypeOK, RegistryType, Horizon
<1>5. SeedsEvolve' /\ SeedInv'
  BY <1>1, TableKept, SeedKept
<1>6. StoredInv'
  <2>1. reading'.asset # NoAsset => Stored(reading'.asset)
    BY <1>2, <1>3
  <2> QED
    BY <1>1, <2>1, TableKept DEF StoredInv, Stored
<1>7. AgeInv'
  BY <1>1, <1>3, TableKept DEF AgeInv, Fresh
<1>8. CallsInv'
  BY <1>1 DEF CallsInv
<1> QED
  BY <1>4, <1>5, <1>6, <1>7, <1>8

(***************************************************************************)
(* The entry's life starts when the read ends, at most ReadTime after the  *)
(* registration it missed.                                                 *)
(***************************************************************************)
LEMMA PrepareFillStep ==
  ASSUME ReviewInv, PrepareFill
  PROVE  ReviewInv'
<1> USE DEF ReviewInv
<1>1. /\ pc = "fetching" /\ reading.asset # NoAsset
      /\ cache' = [asset |-> reading.asset, left |-> Ttl]
      /\ reading' = NoRead /\ Prepared(reading.asset)
      /\ UNCHANGED <<rows, release, boot, latest, sinceNew, calls>>
  BY DEF PrepareFill, Fill
<1>2. Stored(reading.asset)
  BY <1>1 DEF StoredInv
<1>3. /\ cp' \in [node : {"prepare", "review", "finalize", "end"},
                  request : [version : Nat, text : Releases \cup {"none"}]]
      /\ cp'.node = "review" /\ pc' = "node"
      /\ \E s \in Scope : Carries(<<s, cp.request.version>>)'
      /\ UNCHANGED <<reviews, deliveries>>
  BY <1>1, <1>2, PreparedRequest
<1>4. cache'.asset = reading.asset /\ cache'.left = Ttl
  BY <1>1
<1>5. TypeOK'
  <2>1. NoRead \in [asset : Asset \cup {NoAsset}, age : 0 .. ReadTime]
    BY Limits DEF NoRead
  <2>2. cache' \in [asset : Asset \cup {NoAsset}, left : Nat]
    BY <1>1, Parts, Limits
  <2> QED
    BY <1>1, <1>3, <2>1, <2>2 DEF TypeOK, RegistryType, Horizon
<1>6. SeedsEvolve' /\ SeedInv'
  BY <1>1, TableKept, SeedKept
<1>7. StoredInv'
  <2>1. Stored(cache.asset)'
    BY <1>1, <1>2, <1>4 DEF Stored
  <2> QED
    BY <1>1, <1>3, <2>1 DEF StoredInv, NoRead
<1>8. AgeInv'
  <2>1. reading.asset # Resolve => sinceNew <= ReadTime
    BY <1>1, Parts, Limits DEF AgeInv
  <2>2. Resolve' = Resolve /\ cache'.left <= Ttl
    BY <1>1, <1>4, TableKept, Limits
  <2>3. cache'.asset # Resolve => sinceNew' + cache'.left <= Ttl + ReadTime
    BY <1>1, <1>4, <2>1, Parts, Limits
  <2> QED
    BY <1>3, <2>2, <2>3 DEF AgeInv
<1>9. CallsInv'
  BY <1>1, <1>3 DEF CallsInv
<1> QED
  BY <1>5, <1>6, <1>7, <1>8, <1>9

LEMMA ReviewStep ==
  ASSUME ReviewInv, Review
  PROVE  ReviewInv'
<1> USE DEF ReviewInv
<1>1. /\ pc = "node" /\ cp.node = "review" /\ calls' = calls + 1
      /\ \/ cp' = [cp EXCEPT !.node = "finalize"] /\ pc' = "node"
         \/ cp' = cp /\ pc' = "idle"
      /\ UNCHANGED <<rows, release, boot, latest, cache, reading, sinceNew, reviews, deliveries>>
  BY DEF Review, Persist, Unparsed, registry
<1>2. calls < deliveries
  BY <1>1 DEF CallsInv
<1>3. /\ cp' \in [node : {"prepare", "review", "finalize", "end"},
                  request : [version : Nat, text : Releases \cup {"none"}]]
      /\ cp'.request = cp.request
      /\ pc' = "node" => cp'.node = "finalize"
  BY <1>1 DEF TypeOK
<1>4. TypeOK'
  <2>1. calls' \in 0 .. MaxDeliveries
    BY <1>1, <1>2, Parts, Limits
  <2> QED
    BY <1>1, <1>3, <2>1 DEF TypeOK, RegistryType, Horizon
<1>5. SeedsEvolve' /\ SeedInv'
  BY <1>1, TableKept, SeedKept
<1>6. StoredInv'
  BY <1>1, <1>3, TableKept DEF StoredInv
<1>7. AgeInv'
  BY <1>1, TableKept DEF AgeInv, Fresh
<1>8. CallsInv'
  BY <1>1, <1>2, <1>3, Parts DEF CallsInv
<1> QED
  BY <1>4, <1>5, <1>6, <1>7, <1>8

LEMMA FinalizeStep ==
  ASSUME ReviewInv, Finalize
  PROVE  ReviewInv'
<1> USE DEF ReviewInv
<1>1. /\ pc = "node" /\ cp' = [cp EXCEPT !.node = "end"] /\ pc' = "node"
      /\ UNCHANGED <<rows, release, boot, latest, cache, reading, sinceNew,
                     reviews, deliveries, calls>>
  BY DEF Finalize, Persist, registry
<1>2. /\ cp' \in [node : {"prepare", "review", "finalize", "end"},
                  request : [version : Nat, text : Releases \cup {"none"}]]
      /\ cp'.request = cp.request /\ cp'.node = "end"
  BY <1>1 DEF TypeOK
<1>3. TypeOK'
  BY <1>1, <1>2 DEF TypeOK, RegistryType, Horizon
<1>4. SeedsEvolve' /\ SeedInv'
  BY <1>1, TableKept, SeedKept
<1>5. StoredInv'
  BY <1>1, <1>2, TableKept DEF StoredInv
<1>6. AgeInv'
  BY <1>1, TableKept DEF AgeInv, Fresh
<1>7. CallsInv'
  BY <1>1, <1>2 DEF CallsInv
<1> QED
  BY <1>3, <1>4, <1>5, <1>6, <1>7

-----------------------------------------------------------------------------
(* Steps of the registry *)

\* Time: what is outdated grows older as fast as it loses life.
LEMMA TimeStep ==
  ASSUME ReviewInv, Time
  PROVE  ReviewInv'
<1> USE DEF ReviewInv
<1>1. /\ pc = "fetching" => reading.age < ReadTime
      /\ reading' = IF pc = "fetching" THEN [reading EXCEPT !.age = @ + 1] ELSE reading
      /\ cache' = IF cache.left > 0 THEN [cache EXCEPT !.left = @ - 1] ELSE cache
      /\ sinceNew' = IF sinceNew < Horizon THEN sinceNew + 1 ELSE sinceNew
      /\ UNCHANGED <<rows, release, boot, latest, reviews, cp, deliveries, calls, pc>>
  BY DEF Time, Tick, Fresh, task
<1>2. /\ reading' \in [asset : Asset \cup {NoAsset}, age : 0 .. ReadTime]
      /\ reading'.asset = reading.asset
      /\ pc = "fetching" => reading'.age = reading.age + 1
  <2>1. reading \in [asset : Asset \cup {NoAsset}, age : 0 .. ReadTime]
    BY DEF TypeOK, RegistryType
  <2>2. CASE pc = "fetching"
    <3>1. reading.age + 1 \in 0 .. ReadTime
      BY <1>1, <2>1, <2>2, Limits
    <3>2. reading' = [reading EXCEPT !.age = reading.age + 1]
      BY <1>1, <2>2
    <3> QED
      BY <2>1, <3>1, <3>2
  <2>3. CASE pc # "fetching"
    BY <1>1, <2>1, <2>3
  <2> QED
    BY <2>2, <2>3
<1>3. /\ cache' \in [asset : Asset \cup {NoAsset}, left : Nat]
      /\ cache'.asset = cache.asset
      /\ cache.left > 0 => cache'.left = cache.left - 1
      /\ ~(cache.left > 0) => cache'.left = cache.left
  <2>1. cache \in [asset : Asset \cup {NoAsset}, left : Nat]
    BY DEF TypeOK, RegistryType
  <2>2. CASE cache.left > 0
    <3>1. cache.left - 1 \in Nat
      BY <2>1, <2>2
    <3>2. cache' = [cache EXCEPT !.left = cache.left - 1]
      BY <1>1, <2>2
    <3> QED
      BY <2>1, <2>2, <3>1, <3>2
  <2>3. CASE ~(cache.left > 0)
    BY <1>1, <2>1, <2>3
  <2> QED
    BY <2>2, <2>3
<1>4. sinceNew' \in 0 .. Horizon /\ (sinceNew' = sinceNew \/ sinceNew' = sinceNew + 1)
  BY <1>1, Parts, Limits
<1>5. TypeOK'
  BY <1>1, <1>2, <1>3, <1>4 DEF TypeOK, RegistryType, Horizon
<1>6. SeedsEvolve' /\ SeedInv'
  BY <1>1, TableKept, SeedKept
<1>7. StoredInv'
  <2>1. cache'.asset # NoAsset => Stored(cache.asset)'
    BY <1>1, <1>3 DEF StoredInv, Stored
  <2>2. reading'.asset # NoAsset => Stored(reading.asset)'
    BY <1>1, <1>2 DEF StoredInv, Stored
  <2> QED
    BY <1>1, <2>1, <2>2, TableKept DEF StoredInv
<1>8. AgeInv'
  <2>1. Resolve' = Resolve
    BY <1>1, TableKept
  <2>2. cache'.asset # NoAsset => cache'.left <= Ttl
    BY <1>3, Parts, Limits DEF AgeInv
  <2>3. pc' = "fetching" /\ reading'.asset # Resolve' => sinceNew' <= reading'.age
    BY <1>1, <1>2, <1>4, <2>1, Parts DEF AgeInv
  <2>4. cache'.asset \notin {NoAsset, Resolve'} /\ cache'.left > 0 =>
          sinceNew' + cache'.left <= Ttl + ReadTime
    BY <1>3, <1>4, <2>1, Parts, Limits DEF AgeInv, Fresh
  <2> QED
    BY <2>2, <2>3, <2>4 DEF AgeInv, Fresh
<1>9. CallsInv'
  BY <1>1 DEF CallsInv
<1> QED
  BY <1>5, <1>6, <1>7, <1>8, <1>9

\* A worker that boots compares its text with the latest version.
LEMMA SeedReadStep ==
  ASSUME ReviewInv, NEW w \in Workers, SeedRead(w), UNCHANGED <<task, pc>>
  PROVE  ReviewInv'
<1> USE DEF ReviewInv
<1> DEFINE n == Len(rows["global"])
<1>1. /\ latest' = [latest EXCEPT ![w] = n]
      /\ boot' = [boot EXCEPT ![w] =
                    IF n > 0 /\ rows["global"][n] = release[w] THEN "up" ELSE "register"]
      /\ UNCHANGED <<rows, release, cache, reading, sinceNew, reviews, cp, deliveries, calls, pc>>
  BY DEF SeedRead, task
<1>2. n \in Nat
  BY TableType DEF TypeOK, Scope
<1> HIDE DEF n
<1>3. TypeOK'
  <2>1. boot' \in [Workers -> {"down", "register", "up"}]
    BY <1>1 DEF TypeOK, RegistryType
  <2>2. latest' \in [Workers -> Nat]
    BY <1>1, <1>2 DEF TypeOK, RegistryType
  <2> QED
    BY <1>1, <2>1, <2>2 DEF TypeOK, RegistryType, Horizon
<1>4. SeedInv'
  <2> SUFFICES ASSUME NEW u \in Workers, boot'[u] = "register"
               PROVE  /\ latest'[u] <= n
                      /\ latest'[u] > 0 => rows["global"][latest'[u]] # release[u]
    BY <1>1 DEF SeedInv, n
  <2>1. CASE u = w
    <3>1. latest'[w] = n /\ ~(n > 0 /\ rows["global"][n] = release[w])
      BY <1>1, <2>1 DEF TypeOK, RegistryType
    <3> QED
      BY <2>1, <3>1, <1>2
  <2>2. CASE u # w
    <3>1. latest'[u] = latest[u] /\ boot[u] = "register"
      BY <1>1, <2>2 DEF TypeOK, RegistryType
    <3> QED
      BY <3>1 DEF SeedInv, n
  <2> QED
    BY <2>1, <2>2
<1>5. SeedsEvolve'
  BY <1>1, TableKept
<1>6. StoredInv'
  BY <1>1, TableKept DEF StoredInv
<1>7. AgeInv'
  BY <1>1, TableKept DEF AgeInv, Fresh
<1>8. CallsInv'
  BY <1>1 DEF CallsInv
<1> QED
  BY <1>3, <1>4, <1>5, <1>6, <1>7, <1>8

\* A worker whose version was taken starts again.
LEMMA SeedLosesStep ==
  ASSUME ReviewInv, NEW w \in Workers, SeedLoses(w), UNCHANGED <<task, pc>>
  PROVE  ReviewInv'
<1> USE DEF ReviewInv
<1>1. /\ boot' = [boot EXCEPT ![w] = "down"]
      /\ UNCHANGED <<rows, release, latest, cache, reading, sinceNew,
                     reviews, cp, deliveries, calls, pc>>
  BY DEF SeedLoses, task
<1>2. TypeOK'
  <2>1. boot' \in [Workers -> {"down", "register", "up"}]
    BY <1>1 DEF TypeOK, RegistryType
  <2> QED
    BY <1>1, <2>1 DEF TypeOK, RegistryType, Horizon
<1>3. SeedInv'
  <2>1. \A u \in Workers : boot'[u] = "register" => boot[u] = "register"
    BY <1>1 DEF TypeOK, RegistryType
  <2> QED
    BY <1>1, <2>1 DEF SeedInv
<1>4. SeedsEvolve'
  BY <1>1, TableKept
<1>5. StoredInv'
  BY <1>1, TableKept DEF StoredInv
<1>6. AgeInv'
  BY <1>1, TableKept DEF AgeInv, Fresh
<1>7. CallsInv'
  BY <1>1 DEF CallsInv
<1> QED
  BY <1>2, <1>3, <1>4, <1>5, <1>6, <1>7

(***************************************************************************)
(* What a registration in either scope leaves true: the clock starts again *)
(* and versions stay stored, so every age bound holds anew.                *)
(***************************************************************************)
LEMMA RegistrationKeeps ==
  ASSUME ReviewInv, NEW s \in Scope, NEW t \in Releases, NEW v,
         Register(s, v, t), cache' \in {cache, NoEntry},
         UNCHANGED <<release, latest, reading, reviews, cp, deliveries, calls, pc>>,
         boot' \in [Workers -> {"down", "register", "up"}]
  PROVE  TypeOK' /\ StoredInv' /\ AgeInv' /\ CallsInv'
<1> USE DEF ReviewInv
<1>1. /\ rows' \in [Scope -> Seq(Releases)] /\ sinceNew' = 0
      /\ \A a : Stored(a) => Stored(a)' /\ rows'[a[1]][a[2]] = Text(a)
  BY Registered DEF TypeOK, Register
<1>2. cache'.asset # NoAsset => cache' = cache
  BY DEF NoEntry
<1>3. TypeOK'
  <2>1. cache' \in [asset : Asset \cup {NoAsset}, left : Nat]
    BY DEF TypeOK, RegistryType, NoEntry
  <2>2. sinceNew' \in 0 .. Horizon /\ Horizon' = Horizon
    BY <1>1, Limits DEF Horizon
  <2> QED
    BY <1>1, <2>1, <2>2 DEF TypeOK, RegistryType
<1>4. StoredInv'
  <2>1. cache'.asset # NoAsset => Stored(cache.asset)'
    <3>1. cache'.asset # NoAsset => Stored(cache.asset) /\ cache' = cache
      BY <1>2 DEF StoredInv
    <3> QED
      BY <1>1, <3>1 DEF Stored
  <2>2. reading'.asset # NoAsset => Stored(reading.asset)'
    <3>1. reading'.asset # NoAsset => Stored(reading.asset)
      BY DEF StoredInv
    <3> QED
      BY <1>1, <3>1 DEF Stored
  <2>3. cp'.request # NoRequest => \E u \in Scope : Carries(<<u, cp.request.version>>)'
    <3>1. cp'.request # NoRequest => \E u \in Scope : Carries(<<u, cp.request.version>>)
      BY DEF StoredInv
    <3>2. \A a : Carries(a) => Carries(a)'
      BY <1>1 DEF Carries, Stored, Request, Text
    <3> QED
      BY <3>1, <3>2 DEF Carries, Stored, Request, Text
  <2> QED
    BY <2>1, <2>2, <2>3 DEF StoredInv
<1>5. AgeInv'
  <2>1. cache'.asset # NoAsset => cache'.left <= Ttl /\ cache'.left \in Nat
    BY <1>2, Parts DEF AgeInv
  <2>2. sinceNew' <= reading'.age
    BY <1>1, Parts
  <2>3. cache'.asset # NoAsset => sinceNew' + cache'.left <= Ttl + ReadTime
    BY <1>1, <2>1, Limits
  <2> QED
    BY <2>1, <2>2, <2>3 DEF AgeInv
<1>6. CallsInv'
  BY DEF CallsInv
<1> QED
  BY <1>3, <1>4, <1>5, <1>6

(***************************************************************************)
(* A version that is free is the next one: the text the worker compared    *)
(* with is still the latest.                                               *)
(***************************************************************************)
LEMMA SeedRegisterStep ==
  ASSUME ReviewInv, NEW w \in Workers, SeedRegister(w), UNCHANGED <<task, pc>>
  PROVE  ReviewInv'
<1> USE DEF ReviewInv
<1> DEFINE n == Len(rows["global"])
<1>1. /\ boot[w] = "register" /\ Register("global", latest[w] + 1, release[w])
      /\ boot' = [boot EXCEPT ![w] = "up"]
      /\ cache' \in {cache, NoEntry}
      /\ UNCHANGED <<release, latest, reading, reviews, cp, deliveries, calls, pc>>
  BY DEF SeedRegister, task
<1>2. "global" \in Scope /\ release[w] \in Releases /\ latest[w] \in Nat /\ n \in Nat
  BY TableType DEF TypeOK, RegistryType, Scope
<1>3. boot' \in [Workers -> {"down", "register", "up"}]
  BY <1>1 DEF TypeOK, RegistryType
<1>4. TypeOK' /\ StoredInv' /\ AgeInv' /\ CallsInv'
  BY <1>1, <1>2, <1>3, RegistrationKeeps
<1>5. /\ Len(rows'["global"]) = n + 1 /\ rows'["global"][n + 1] = release[w]
      /\ \A k \in 1 .. n : rows'["global"][k] = rows["global"][k]
  BY <1>1, <1>2, Registered DEF TypeOK
<1>6. latest[w] = n /\ (n > 0 => rows["global"][n] # release[w])
  BY <1>1, <1>2 DEF SeedInv, Register, Free
<1>7. /\ \A k \in 2 .. n : rows["global"][k] # rows["global"][k - 1]
      /\ \A u \in Workers : boot[u] = "register" =>
           /\ latest[u] <= n
           /\ latest[u] > 0 => rows["global"][latest[u]] # release[u]
  BY DEF SeedsEvolve, SeedInv
<1> HIDE DEF n
<1>8. SeedsEvolve'
  <2> SUFFICES ASSUME NEW k \in 2 .. n + 1
               PROVE  rows'["global"][k] # rows'["global"][k - 1]
    BY <1>5 DEF SeedsEvolve
  <2>1. CASE k \in 2 .. n
    <3>1. k \in 1 .. n /\ k - 1 \in 1 .. n
      BY <2>1, <1>2
    <3> QED
      BY <2>1, <3>1, <1>5, <1>7
  <2>2. CASE k = n + 1
    <3>1. n \in 1 .. n /\ k - 1 = n /\ n > 0
      BY <2>2, <1>2
    <3> QED
      BY <2>2, <3>1, <1>5, <1>6
  <2> QED
    BY <2>1, <2>2, <1>2
<1>9. SeedInv'
  <2> SUFFICES ASSUME NEW u \in Workers, boot'[u] = "register"
               PROVE  /\ latest[u] <= n + 1
                      /\ latest[u] > 0 => rows'["global"][latest[u]] # release[u]
    BY <1>1, <1>5 DEF SeedInv
  <2>1. boot[u] = "register" /\ latest[u] \in Nat
    BY <1>1 DEF TypeOK, RegistryType
  <2>2. latest[u] <= n /\ (latest[u] > 0 => latest[u] \in 1 .. n)
    BY <2>1, <1>2, <1>7
  <2> QED
    BY <2>1, <2>2, <1>2, <1>5, <1>7
<1> QED
  BY <1>4, <1>8, <1>9

LEMMA OverrideStep ==
  ASSUME ReviewInv, NEW t \in Releases, Override(t), UNCHANGED <<task, pc>>
  PROVE  ReviewInv'
<1> USE DEF ReviewInv
<1>1. /\ Register("tenant", Len(rows["tenant"]) + 1, t)
      /\ UNCHANGED <<release, boot, latest, cache, reading, reviews, cp, deliveries, calls, pc>>
  BY DEF Override, task
<1>2. "tenant" \in Scope /\ "global" \in Scope \ {"tenant"}
  BY DEF Scope
<1>3. TypeOK' /\ StoredInv' /\ AgeInv' /\ CallsInv'
  <2>1. boot' \in [Workers -> {"down", "register", "up"}]
    BY <1>1 DEF TypeOK, RegistryType
  <2> QED
    BY <1>1, <1>2, <2>1, RegistrationKeeps
<1>4. rows'["global"] = rows["global"]
  BY <1>1, <1>2, Registered DEF TypeOK
<1>5. SeedsEvolve' /\ SeedInv'
  BY <1>1, <1>4 DEF SeedsEvolve, SeedInv
<1> QED
  BY <1>3, <1>5

-----------------------------------------------------------------------------
(* The theorems *)

LEMMA ReviewInvStep ==
  ASSUME ReviewInv, Next
  PROVE  ReviewInv'
<1>1. CASE Start
  BY <1>1, StartStep
<1>2. CASE TaskEnds
  BY <1>2, TaskEndsStep
<1>3. CASE NodeFails
  BY <1>3, NodeFailsStep
<1>4. CASE Die
  BY <1>4, DieStep
<1>5. CASE PrepareHit
  BY <1>5, PrepareHitStep
<1>6. CASE PrepareMiss
  BY <1>6, PrepareMissStep
<1>7. CASE PrepareFill
  BY <1>7, PrepareFillStep
<1>8. CASE Review
  BY <1>8, ReviewStep
<1>9. CASE Finalize
  BY <1>9, FinalizeStep
<1>10. CASE Seeding
  BY <1>10, SeedReadStep, SeedRegisterStep, SeedLosesStep, OverrideStep DEF Seeding
<1>11. CASE Time
  BY <1>11, TimeStep
<1> QED
  BY <1>1, <1>2, <1>3, <1>4, <1>5, <1>6, <1>7, <1>8, <1>9, <1>10, <1>11 DEF Next

\* A step that changes nothing keeps the invariant.
LEMMA ReviewInvStutter ==
  ASSUME ReviewInv, UNCHANGED vars
  PROVE  ReviewInv'
<1> USE DEF ReviewInv
<1>1. UNCHANGED <<rows, release, boot, latest, cache, reading, sinceNew,
                  reviews, cp, deliveries, calls, pc>>
  BY DEF vars, registry, task
<1>2. TypeOK'
  BY <1>1 DEF TypeOK, RegistryType, Horizon
<1>3. SeedsEvolve' /\ SeedInv'
  BY <1>1, TableKept, SeedKept
<1>4. StoredInv'
  BY <1>1, TableKept DEF StoredInv
<1>5. AgeInv' /\ CallsInv'
  BY <1>1, TableKept DEF AgeInv, Fresh, CallsInv
<1> QED
  BY <1>2, <1>3, <1>4, <1>5

(***************************************************************************)
(* The inductive invariant holds, the type invariant in it.                *)
(***************************************************************************)
THEOREM ReviewsAreSafe == Spec => []ReviewInv
<1>1. ReviewInv /\ [Next]_vars => ReviewInv'
  BY ReviewInvStep, ReviewInvStutter
<1> QED
  BY InitialReview, <1>1, PTL DEF Spec

(***************************************************************************)
(* However many workers of however many releases seed the global prompt at *)
(* once or again, ensure_seeded never registers a version that repeats the *)
(* text of the one before it.                                              *)
(***************************************************************************)
THEOREM SeedingEvolves == Spec => []SeedsEvolve
<1>1. ReviewInv => SeedsEvolve
  BY DEF ReviewInv
<1> QED
  BY ReviewsAreSafe, <1>1, PTL

(***************************************************************************)
(* The version of a stored request leads back to the text that was sent,   *)
(* whatever was registered since and however often it is repeated from the *)
(* checkpoint, unless a version of the tenant with the same number hides   *)
(* the global text.                                                        *)
(***************************************************************************)
THEOREM RequestsAreAttributed == Spec => []Attributed
<1>1. ReviewInv => Attributed
  <2> SUFFICES ASSUME ReviewInv, cp.request # NoRequest
               PROVE  LET v == cp.request.version IN
                        \/ Lookup(v) = cp.request.text
                        \/ /\ v \in 1 .. Len(rows["tenant"]) /\ v \in 1 .. Len(rows["global"])
                           /\ rows["global"][v] = cp.request.text
    BY DEF Attributed
  <2> DEFINE v == cp.request.version
  <2>1. PICK s \in Scope : Carries(<<s, v>>)
    BY DEF ReviewInv, StoredInv
  <2>2. /\ v \in Nat \ {0} /\ v <= Len(rows[s]) /\ Len(rows[s]) \in Nat
        /\ cp.request.text = rows[s][v]
    BY <2>1, TableType DEF ReviewInv, TypeOK, Carries, Stored, Asset, Request, Text
  <2>3. Len(rows["tenant"]) \in Nat /\ s \in {"tenant", "global"}
    BY TableType DEF ReviewInv, TypeOK, Scope
  <2> QED
    BY <2>2, <2>3 DEF Lookup
<1> QED
  BY ReviewsAreSafe, <1>1, PTL

\* The bound, step by step: only the two ways to prepare set a request.
LEMMA PreparedInTime ==
  ASSUME ReviewInv, Next, cp'.request # cp.request, cp'.request # NoRequest
  PROVE  cp'.request = Request(Resolve) \/ sinceNew < Ttl + ReadTime
<1> USE DEF ReviewInv
<1>1. \/ cp'.request = Request(cache.asset) /\ Fresh /\ cache.asset # NoAsset
      \/ cp'.request = Request(reading.asset) /\ pc = "fetching"
  <2>1. CASE Start \/ NodeFails \/ Die \/ PrepareMiss \/ Seeding \/ Time
    BY <2>1 DEF Start, NodeFails, Die, PrepareMiss, Seeding, Time, task
  <2>2. CASE TaskEnds
    BY <2>2 DEF TaskEnds, FirstCheckpoint
  <2>3. CASE Review \/ Finalize
    <3>1. \/ cp' = [cp EXCEPT !.node = "finalize"] \/ cp' = [cp EXCEPT !.node = "end"]
          \/ cp' = cp
      BY <2>3 DEF Review, Finalize, Persist, Unparsed
    <3>2. cp'.request = cp.request
      BY <3>1 DEF TypeOK
    <3> QED
      BY <3>2
  <2>4. CASE PrepareHit
    <3>1. cp'.request = Request(cache.asset)
      BY <2>4 DEF PrepareHit, Prepared, Persist
    <3> QED
      BY <2>4, <3>1 DEF PrepareHit
  <2>5. CASE PrepareFill
    <3>1. cp'.request = Request(reading.asset)
      BY <2>5 DEF PrepareFill, Prepared, Persist
    <3> QED
      BY <2>5, <3>1 DEF PrepareFill
  <2> QED
    BY <2>1, <2>2, <2>3, <2>4, <2>5 DEF Next
<1>2. CASE cp'.request = Request(cache.asset) /\ Fresh /\ cache.asset # NoAsset
  <2>1. cache.asset # Resolve => sinceNew + cache.left <= Ttl + ReadTime
    BY <1>2 DEF AgeInv
  <2> QED
    BY <1>2, <2>1, Parts, Limits DEF Fresh
<1>3. CASE cp'.request = Request(reading.asset) /\ pc = "fetching"
  <2>1. reading.asset # Resolve => sinceNew <= reading.age
    BY <1>3 DEF AgeInv
  <2> QED
    BY <1>3, <2>1, Parts, Limits
<1> QED
  BY <1>1, <1>2, <1>3

(***************************************************************************)
(* A review that is prepared later than ttl_seconds and one read after the *)
(* last registration uses the latest version, through the cache or not.    *)
(***************************************************************************)
THEOREM NewPromptsAreSeen == Spec => HotReload
<1>1. ReviewInv /\ [Next]_vars =>
        [cp'.request # cp.request /\ cp'.request # NoRequest =>
           cp'.request = Request(Resolve) \/ sinceNew < Ttl + ReadTime]_vars
  BY PreparedInTime
<1> QED
  BY ReviewsAreSafe, <1>1, PTL DEF Spec, HotReload
=============================================================================
