------------------------- MODULE MCWebhookDelivery --------------------------
(* A small instance of WebhookDelivery. *)
EXTENDS WebhookDelivery, TLC

CONSTANT p1

\* Every message is about the one task.
OnePause == [m \in Message |-> p1]

\* Messages, and dispatchers, are told apart by their state only.
Symmetry == Permutations(Message) \cup Permutations(Dispatcher)
=============================================================================
