--------------------------- MODULE PermissionGate ---------------------------
(***************************************************************************)
(* The rendezvous between a run that asks for permission and the client    *)
(* that is connected to it: request, deliver and subscribe_prompts of the  *)
(* process-local gate and of the gate on Redis pub/sub.                    *)
(*                                                                         *)
(* A run has one request at a time, under a fresh prompt id; current is    *)
(* the id of the latest one.  Prompts reach only a client that is          *)
(* subscribed, decisions only a request that is listening.                 *)
(***************************************************************************)
EXTENDS Naturals, Sequences, FiniteSets

CONSTANTS
  Backends,    \* the gates to consider
  QueueMax,    \* prompt_queue_maxsize of the process-local gate
  MaxPrompts   \* bound: prompts of one task

ASSUME GateAssumption ==
  /\ Backends \subseteq {"memory", "redis"}
  /\ QueueMax \in Nat \ {0}
  /\ MaxPrompts \in Nat

VARIABLES
  backend,     \* the gate that is wired
  current,     \* the latest prompt id
  request,     \* state of the request under that id
  inbox,       \* the first decision that reached it
  connected,   \* is the client subscribed?
  queue,       \* prompts on their way to the client
  shown,       \* the two prompts the client received last
  sent         \* what the client decided on the current prompt, in order

gate == <<backend, current, request, inbox, connected, queue, shown, sent>>

Decision == {"allow", "deny"}
Prompt == 1 .. MaxPrompts
Open == {"listening", "waiting"}
Settled == Decision \cup {"timeout", "error"}

GateInit ==
  /\ backend \in Backends
  /\ current = 0 /\ request = "unused" /\ inbox = "none"
  /\ connected = FALSE /\ queue = <<>> /\ shown = {} /\ sent = <<>>

GateType ==
  /\ backend \in Backends
  /\ current \in 0 .. MaxPrompts
  /\ request \in {"unused"} \cup Open \cup Settled
  /\ inbox \in Decision \cup {"none"}
  /\ connected \in BOOLEAN
  /\ queue \in Seq(Prompt) /\ Len(queue) <= MaxPrompts
  /\ shown \subseteq Prompt /\ Cardinality(shown) <= 2
  /\ sent \in Seq(Decision)

-----------------------------------------------------------------------------
(* The worker *)

\* The future is registered, or the decision channel subscribed, first.
Listen ==
  /\ request \notin Open
  /\ current < MaxPrompts
  /\ current' = current + 1 /\ request' = "listening"
  /\ inbox' = "none" /\ sent' = <<>>
  /\ UNCHANGED <<backend, connected, queue, shown>>

\* A full queue of the process-local gate loses its oldest prompt.
Offer(q, p) ==
  IF backend = "memory" /\ Len(q) = QueueMax THEN Append(Tail(q), p) ELSE Append(q, p)

\* Then the prompt goes to whoever is subscribed now.
PublishPrompt ==
  /\ request = "listening"
  /\ request' = "waiting"
  /\ queue' = IF connected THEN Offer(queue, current) ELSE queue
  /\ UNCHANGED <<backend, current, inbox, connected, shown, sent>>

\* wait_for returns the first decision.
Decide ==
  /\ request = "waiting" /\ inbox # "none"
  /\ request' = inbox
  /\ UNCHANGED <<backend, current, inbox, connected, queue, shown, sent>>

\* Mutant of TimeOut: a request nobody can see waits on.
TimeOutIfConnected ==
  /\ request = "waiting" /\ connected
  /\ backend = "memory" => inbox = "none"
  /\ request' = "timeout"
  /\ UNCHANGED <<backend, current, inbox, connected, queue, shown, sent>>

\* wait_for gives up.  A future that is done wins; a message that Redis has
\* sent but listen() has not read does not.
TimeOut ==
  /\ request = "waiting"
  /\ backend = "memory" => inbox = "none"
  /\ request' = "timeout"
  /\ UNCHANGED <<backend, current, inbox, connected, queue, shown, sent>>

\* PermissionGateError of Redis; a future that close() cancels.
GateFails ==
  /\ request \in Open
  /\ request' = "error"
  /\ UNCHANGED <<backend, current, inbox, connected, queue, shown, sent>>

-----------------------------------------------------------------------------
(* The client and the API *)

Subscribe ==
  /\ ~connected
  /\ connected' = TRUE /\ queue' = <<>>
  /\ UNCHANGED <<backend, current, request, inbox, shown, sent>>

Unsubscribe ==
  /\ connected
  /\ connected' = FALSE /\ queue' = <<>>
  /\ UNCHANGED <<backend, current, request, inbox, shown, sent>>

Newer(p) == {q \in shown : \A r \in shown : r <= q} \cup {p}

Receive ==
  /\ queue # <<>>
  /\ shown' = Newer(Head(queue)) /\ queue' = Tail(queue)
  /\ UNCHANGED <<backend, current, request, inbox, connected, sent>>

\* Mutant of Deliver: the decision goes to whatever request is open.
DeliverToAny(p, d) ==
  /\ p \in shown
  /\ p = current => \A i \in DOMAIN sent : sent[i] # d
  /\ sent' = IF p = current THEN Append(sent, d) ELSE sent
  /\ inbox' = IF request \in Open /\ inbox = "none" THEN d ELSE inbox
  /\ UNCHANGED <<backend, current, request, connected, queue, shown>>

\* A decision on a prompt that nobody waits for, or a second one, is
\* swallowed.
Deliver(p, d) ==
  /\ p \in shown
  /\ p = current => \A i \in DOMAIN sent : sent[i] # d
  /\ sent' = IF p = current THEN Append(sent, d) ELSE sent
  /\ inbox' = IF p = current /\ request \in Open /\ inbox = "none" THEN d ELSE inbox
  /\ UNCHANGED <<backend, current, request, connected, queue, shown>>

Client ==
  \/ Subscribe \/ Unsubscribe \/ Receive
  \/ \E p \in shown, d \in Decision : Deliver(p, d)
=============================================================================
