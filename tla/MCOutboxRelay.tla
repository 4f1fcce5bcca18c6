---------------------------- MODULE MCOutboxRelay ---------------------------
(* Small instances of OutboxRelay; the configurations give every constant   *)
(* a literal value.                                                          *)
EXTENDS OutboxRelay
=============================================================================
