--------------------------- MODULE PromptRegistry ---------------------------
(***************************************************************************)
(* The versioned system prompts: the prompts table, the seeding that every *)
(* worker does when it boots, and the read-through cache of the worker     *)
(* that serves this model's tasks, for one prompt id and one tenant.       *)
(*                                                                         *)
(* An asset is <<scope, version>>; version v of a scope is the v-th entry  *)
(* of its sequence.  Time is counted in ticks of the worker's clock.       *)
(***************************************************************************)
EXTENDS Naturals, Sequences

CONSTANTS
  Workers, Home,   \* the processes that boot; Home runs the tasks
  Releases,        \* the texts of the built-in template, by release
  Ttl, NegativeTtl,\* ttl_seconds, negative_ttl_seconds
  ReadTime,        \* bound: duration of one read of the table
  MaxOverrides     \* bound: versions the tenant registers for itself

ASSUME RegistryAssumption ==
  /\ Home \in Workers
  /\ Ttl \in Nat \ {0} /\ NegativeTtl \in Nat \ {0}
  /\ ReadTime \in Nat /\ MaxOverrides \in Nat

VARIABLES
  rows,      \* the table: scope -> texts, by version
  release,   \* the release a worker runs
  boot,      \* how far a worker is in build_worker
  latest,    \* latest_version as ensure_seeded read it
  cache,     \* Home's entry for the latest version
  reading,   \* the read of the table that is under way
  sinceNew   \* history: ticks since the last registration

registry == <<rows, release, boot, latest, cache, reading, sinceNew>>

Scope == {"tenant", "global"}
NoAsset == <<"none", 0>>
Asset == Scope \X (Nat \ {0})
Horizon == Ttl + ReadTime + 1

\* No entry: one that has expired.
NoEntry == [asset |-> NoAsset, left |-> 0]
NoRead == [asset |-> NoAsset, age |-> 0]

RegistryInit ==
  /\ rows \in [Scope -> {<<>>}] \cup {[tenant |-> <<>>, global |-> <<r>>] : r \in Releases}
  /\ release \in [Workers -> Releases]
  /\ boot = [w \in Workers |-> "down"]
  /\ latest = [w \in Workers |-> 0]
  /\ cache = NoEntry /\ reading = NoRead /\ sinceNew = Horizon

RegistryType ==
  /\ rows \in [Scope -> Seq(Releases)]
  /\ release \in [Workers -> Releases]
  /\ boot \in [Workers -> {"down", "register", "up"}]
  /\ latest \in [Workers -> Nat]
  /\ cache \in [asset : Asset \cup {NoAsset}, left : Nat]
  /\ reading \in [asset : Asset \cup {NoAsset}, age : 0 .. ReadTime]
  /\ sinceNew \in 0 .. Horizon

-----------------------------------------------------------------------------
(* The table *)

\* fetch_or_none without a version: the tenant's rows come first.
Resolve ==
  CASE rows["tenant"] # <<>> -> <<"tenant", Len(rows["tenant"])>>
    [] rows["tenant"] = <<>> /\ rows["global"] # <<>> -> <<"global", Len(rows["global"])>>
    [] OTHER -> NoAsset

Text(a) == rows[a[1]][a[2]]

\* fetch_or_none with a version: the tenant's row of that number comes first.
Lookup(version) ==
  IF version <= Len(rows["tenant"]) THEN rows["tenant"][version]
  ELSE rows["global"][version]

\* The unique index.
Free(scope, version) == version > Len(rows[scope])

\* Mutant of Register: a version that is taken is overwritten.
RegisterUpserts(scope, version, text) ==
  /\ rows' = IF Free(scope, version) THEN [rows EXCEPT ![scope] = Append(@, text)]
             ELSE [rows EXCEPT ![scope][version] = text]
  /\ sinceNew' = 0

\* INSERT; the adapter has raised ValueError if the version is taken.
Register(scope, version, text) ==
  /\ Free(scope, version)
  /\ rows' = [rows EXCEPT ![scope] = Append(@, text)]
  /\ sinceNew' = 0

-----------------------------------------------------------------------------
(* ensure_seeded, in build_worker *)

\* Mutant of SeedRead: the registered text is not compared.
SeedReadBlind(w) ==
  /\ boot[w] = "down"
  /\ latest' = [latest EXCEPT ![w] = Len(rows["global"])]
  /\ boot' = [boot EXCEPT ![w] = "register"]
  /\ UNCHANGED <<rows, release, cache, reading, sinceNew>>

\* latest_version, and the text of that version.
SeedRead(w) ==
  LET n == Len(rows["global"]) IN
    /\ boot[w] = "down"
    /\ latest' = [latest EXCEPT ![w] = n]
    /\ boot' = [boot EXCEPT ![w] =
                  IF n > 0 /\ rows["global"][n] = release[w] THEN "up" ELSE "register"]
    /\ UNCHANGED <<rows, release, cache, reading, sinceNew>>

\* The next version; register drops the process's own entries.
SeedRegister(w) ==
  /\ boot[w] = "register"
  /\ Register("global", latest[w] + 1, release[w])
  /\ boot' = [boot EXCEPT ![w] = "up"]
  /\ cache' = IF w = Home THEN NoEntry ELSE cache
  /\ UNCHANGED <<release, latest, reading>>

\* Another worker took the version: ValueError ends build_worker.
SeedLoses(w) ==
  /\ boot[w] = "register"
  /\ ~Free("global", latest[w] + 1)
  /\ boot' = [boot EXCEPT ![w] = "down"]
  /\ UNCHANGED <<rows, release, latest, cache, reading, sinceNew>>

\* A version for the tenant, registered by another process.
Override(text) ==
  /\ Len(rows["tenant"]) < MaxOverrides
  /\ Register("tenant", Len(rows["tenant"]) + 1, text)
  /\ UNCHANGED <<release, boot, latest, cache, reading>>

-----------------------------------------------------------------------------
(* CachingPromptRegistry of Home *)

\* Mutant of Fresh: an entry never expires.
FreshForEver == cache.asset # NoAsset

Fresh == cache.left > 0

\* A miss goes to the table, without the lock.
Miss ==
  /\ ~Fresh
  /\ reading' = [asset |-> Resolve, age |-> 0]
  /\ UNCHANGED <<rows, release, boot, latest, cache, sinceNew>>

\* The entry's life starts when the read is over.
Fill ==
  /\ cache' = [asset |-> reading.asset,
               left |-> IF reading.asset = NoAsset THEN NegativeTtl ELSE Ttl]
  /\ reading' = NoRead
  /\ UNCHANGED <<rows, release, boot, latest, sinceNew>>

\* Home's process is gone, and its cache with it.
ForgetCache ==
  /\ cache' = NoEntry /\ reading' = NoRead
  /\ boot' = [boot EXCEPT ![Home] = "down"]
  /\ UNCHANGED <<rows, release, latest, sinceNew>>

Tick(fetching) ==
  /\ fetching => reading.age < ReadTime
  /\ reading' = IF fetching THEN [reading EXCEPT !.age = @ + 1] ELSE reading
  /\ cache' = IF Fresh THEN [cache EXCEPT !.left = @ - 1] ELSE cache
  /\ sinceNew' = IF sinceNew < Horizon THEN sinceNew + 1 ELSE sinceNew
  /\ UNCHANGED <<rows, release, boot, latest>>
=============================================================================
