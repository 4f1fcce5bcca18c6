-------------------------- MODULE MCProviderCalls --------------------------
(* Two workers on hosts that were booted at different times. *)
EXTENDS ProviderCalls

CONSTANTS c1, c2

TwoHosts == [c \in Caller |-> IF c = c1 THEN 0 ELSE 1]
=============================================================================
