---------------------------- MODULE MCTwoClocks ----------------------------
(***************************************************************************)
(* Two replicas on hosts whose monotonic clocks differ share one bucket.   *)
(***************************************************************************)
EXTENDS TokenBucket

CONSTANTS c1, c2

\* Two thirds of a token per tick; the second host is ahead.
Skewed == [c \in Client |-> IF c = c1 THEN 0 ELSE MaxSkew]
=============================================================================
