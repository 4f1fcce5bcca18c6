------------------------------ MODULE GraphRun ------------------------------
(***************************************************************************)
(* The deterministic control of one graph run: what a single call of       *)
(* Graph.step may turn a TaskRunState into, and what an operator's         *)
(* decision turns the paused snapshot into.                                *)
(*                                                                         *)
(* A TaskRunState is abstracted to its cursor and to the reserved keys of  *)
(* its data dictionary that steer the run (the human decision, the gate    *)
(* the run paused at, the passed budget gate).  What a node computes is    *)
(* data and is left out: a work node may take any of its outgoing edges.   *)
(*                                                                         *)
(* This module has no variables; TaskSystem drives it and SequentialRun    *)
(* states what a run promises.                                             *)
(***************************************************************************)
EXTENDS Naturals

CONSTANTS
  Node,          \* the registered nodes of the graph
  Entry,         \* the entry node
  Succ,          \* edge function: the nodes a work node may hand over to
  HumanGates,    \* the nodes built by build_human_gate
  ApproveTo,     \* next_node_when_approved of each gate
  RejectTo,      \* next_node_when_rejected of each gate (END by default)
  Budgeted,      \* the work nodes that consult check_budget_policy
  BudgetPolicy,  \* the task's _budget_policy
  START, END     \* the two cursor sentinels

Decision == {"approve", "reject"}
Policies == {"none", "gate_on_threshold", "abort_on_threshold"}

ASSUME GraphAssumption ==
  /\ Entry \in Node
  /\ HumanGates \subseteq Node
  /\ Budgeted \subseteq Node
  /\ START \notin Node /\ END \notin Node /\ START # END
  /\ Succ \in [Node -> SUBSET (Node \cup {END})]
  /\ ApproveTo \in [HumanGates -> Node \cup {END}]
  /\ RejectTo \in [HumanGates -> Node \cup {END}]
  /\ BudgetPolicy \in Policies

(***************************************************************************)
(* TaskRunState.  "finished" is not a field: Graph.step sets it exactly    *)
(* when the cursor is END, and no other code writes it.                    *)
(***************************************************************************)
RunState ==
  [node     : Node \cup {START, END},
   seq      : Nat,
   awaiting : BOOLEAN,
   error    : BOOLEAN,
   decision : Decision \cup {"none"},
   gateAt   : {"none", "human", "budget"},
   passed   : BOOLEAN]

InitialRun ==
  [node |-> START, seq |-> 0, awaiting |-> FALSE, error |-> FALSE,
   decision |-> "none", gateAt |-> "none", passed |-> FALSE]

Finished(s) == s.node = END

\* The loop condition of the worker: nothing left to step.
AtRest(s) == Finished(s) \/ s.awaiting

\* TaskRunState.advance: the sequence grows by one, the two flags are
\* rewritten on every step and default to "not paused, no error".
Advance(s, next) ==
  [s EXCEPT !.node = next, !.seq = @ + 1, !.awaiting = FALSE, !.error = FALSE]

\* The reserved keys a gate clears once it consumed the decision.
Consumed(s) == [s EXCEPT !.decision = "none", !.gateAt = "none"]

\* A node returned awaiting_approval: the cursor stays at the node.
Paused(s, n, gate) ==
  [Advance(s, n) EXCEPT !.awaiting = TRUE, !.gateAt = gate]

\* A node returned next_node = END with an error message.
FailedRun(s) == [Advance(s, END) EXCEPT !.error = TRUE]

\* build_human_gate: the gate looks at the decision only, never at gateAt.
HumanGateStep(s, n) ==
  IF s.decision = "approve" THEN Consumed(Advance(s, ApproveTo[n]))
  ELSE IF s.decision = "reject" THEN Consumed(Advance(s, RejectTo[n]))
  ELSE Paused(s, n, "human")

\* An ordinary node: any outgoing edge.
WorkSteps(s, n) == {Advance(s, m) : m \in Succ[n]}

\* check_budget_policy decided that the spend crossed the threshold.
OverBudgetSteps(s, n) ==
  CASE BudgetPolicy = "gate_on_threshold"  -> {Paused(s, n, "budget")}
    [] BudgetPolicy = "abort_on_threshold" -> {FailedRun(s)}
    [] OTHER -> {}

\* A node that consults the budget first.  A decision is consumed only when
\* the run paused at the budget gate; an approved gate never fires again.
BudgetedSteps(s, n) ==
  IF BudgetPolicy # "none" /\ s.gateAt = "budget" /\ s.decision = "approve"
  THEN {[Consumed(Advance(s, n)) EXCEPT !.passed = TRUE]}
  ELSE IF BudgetPolicy # "none" /\ s.gateAt = "budget" /\ s.decision = "reject"
  THEN {Consumed(FailedRun(s))}
  ELSE WorkSteps(s, n) \cup (IF s.passed THEN {} ELSE OverBudgetSteps(s, n))

\* Graph.step: one node is executed, the entry node when the run is fresh.
NodeSteps(s, n) ==
  IF n \in HumanGates THEN {HumanGateStep(s, n)}
  ELSE IF n \in Budgeted THEN BudgetedSteps(s, n)
  ELSE WorkSteps(s, n)

StepResults(s) ==
  IF AtRest(s) THEN {s}
  ELSE NodeSteps(s, IF s.node = START THEN Entry ELSE s.node)

\* _merge_decision: the snapshot the worker resumes from.
Decided(s, d) == [s EXCEPT !.awaiting = FALSE, !.seq = @ + 1, !.decision = d]

DecisionResults(s) == {Decided(s, d) : d \in Decision}

=============================================================================
