----------------------------- MODULE ShellAgent -----------------------------
(***************************************************************************)
(* One shell_agent task: plan (one model call), tool_call (the calls of    *)
(* the plan, in order, each behind the permission gate if the task's mode  *)
(* says so), and finalize, with a checkpoint after every node.  A worker   *)
(* may die and a node may raise anywhere; a redelivery repeats the node of *)
(* the latest checkpoint from its beginning.                               *)
(*                                                                         *)
(* A message is a triple: <<"assistant", step, number of tool calls>> or   *)
(* <<"tool", step, position of the call it answers>>.                      *)
(***************************************************************************)
EXTENDS PermissionGate, Integers

CONSTANTS
  Modes,         \* the permission modes to consider
  MaxSteps,      \* max_steps
  Budgets,       \* values of max_total_tokens; 0 when it is not given
  Usages,        \* total_tokens of a response; -1 when it is not reported
  MaxBatch,      \* bound: tool calls of one response
  MaxDeliveries  \* max_attempts of the worker loop

ASSUME AgentAssumption ==
  /\ Modes \subseteq {"auto", "approve_each_tool", "plan"}
  /\ MaxSteps \in Nat \ {0} /\ MaxBatch \in Nat /\ MaxDeliveries \in Nat \ {0}
  /\ Budgets \subseteq Nat /\ Usages \subseteq Nat \cup {-1}
  /\ MaxPrompts >= MaxSteps * MaxBatch * MaxDeliveries

VARIABLES
  mode,        \* permission_mode of the task
  budget,      \* max_total_tokens
  row,         \* state of the task
  cp,          \* the latest checkpoint
  output,      \* the stored result
  deliveries,  \* delivery_count
  pc,          \* what the worker is doing
  reply,       \* the response that plan holds
  index,       \* position of tool_call in the batch
  asked,       \* has this batch (plan) or this call been asked for?
  ran,         \* history: the calls executed in this delivery
  billed       \* history: model calls made

run == <<row, cp, output, deliveries>>
node == <<pc, reply, index, asked>>
vars == <<gate, mode, budget, run, node, ran, billed>>

NoReply == [calls |-> 0, tokens |-> -1]
NoOutput == [steps |-> 0, invocations |-> 0, cut |-> "none"]

Message == {"assistant", "tool"} \X Nat \X Nat

FirstCheckpoint ==
  [node |-> "plan", step |-> 0, usage |-> -1, pending |-> 0, msgs |-> <<>>,
   invocations |-> 0, cutSteps |-> FALSE, cutTokens |-> FALSE]

Checkpoint ==
  [node : {"plan", "tool_call", "finalize", "end"}, step : Nat,
   usage : Nat \cup {-1}, pending : 0 .. MaxBatch, msgs : Seq(Message),
   invocations : Nat, cutSteps : BOOLEAN, cutTokens : BOOLEAN]

Init ==
  /\ GateInit
  /\ mode \in Modes /\ budget \in Budgets
  /\ row = "pending" /\ cp = FirstCheckpoint /\ output = NoOutput /\ deliveries = 0
  /\ pc = "idle" /\ reply = NoReply /\ index = 0 /\ asked = FALSE
  /\ ran = <<>> /\ billed = 0

Terminal == {"succeeded", "failed"}

-----------------------------------------------------------------------------
(* Deliveries *)

Start ==
  /\ pc = "idle" /\ row \notin Terminal /\ deliveries < MaxDeliveries
  /\ row' = "running" /\ deliveries' = deliveries + 1
  /\ pc' = "node" /\ ran' = <<>>
  /\ UNCHANGED <<gate, mode, budget, cp, output, reply, index, asked, billed>>

Abandon ==
  /\ pc = "idle" /\ row \notin Terminal /\ deliveries = MaxDeliveries
  /\ row' = "failed"
  /\ UNCHANGED <<gate, mode, budget, cp, output, deliveries, node, ran, billed>>

\* A node raises, or the process dies: what is not in the checkpoint is
\* lost, and so is the listener of an open request.
Fault ==
  /\ pc # "idle"
  /\ pc' = "idle" /\ reply' = NoReply /\ index' = 0 /\ asked' = FALSE
  /\ request' = IF request \in Open THEN "error" ELSE request
  /\ UNCHANGED <<backend, current, inbox, connected, queue, shown, sent, mode,
                 budget, run, ran, billed>>

Persist(next) ==
  /\ cp' = next
  /\ pc' = "node" /\ reply' = NoReply /\ index' = 0 /\ asked' = FALSE
  /\ UNCHANGED <<gate, mode, budget, row, output, deliveries, ran, billed>>

-----------------------------------------------------------------------------
(* Node plan *)

Merge(u, v) == IF u = -1 THEN v ELSE IF v = -1 THEN u ELSE u + v

Exhausted(u) == budget # 0 /\ u # -1 /\ u >= budget

\* The budget is used up: no further model call.
PlanStops ==
  /\ pc = "node" /\ cp.node = "plan" /\ Exhausted(cp.usage)
  /\ Persist([cp EXCEPT !.node = "finalize", !.cutTokens = TRUE])

\* llm.complete.  It may raise as well: Fault.
CallModel(n, t) ==
  /\ pc = "node" /\ cp.node = "plan" /\ ~Exhausted(cp.usage)
  /\ reply' = [calls |-> n, tokens |-> t]
  /\ billed' = billed + 1
  /\ pc' = "planned"
  /\ UNCHANGED <<gate, mode, budget, run, index, asked, ran>>

\* Mutant of WantsTools: the last step may still use tools.
WantsToolsAlways(step) == reply.calls > 0

WantsTools(step) == reply.calls > 0 /\ step < MaxSteps

PlanDone ==
  /\ pc = "planned"
  /\ LET step  == cp.step + 1
         usage == Merge(cp.usage, reply.tokens)
     IN  Persist([cp EXCEPT
           !.step = step, !.usage = usage,
           !.msgs = Append(@, <<"assistant", step, reply.calls>>),
           !.pending = IF WantsTools(step) THEN reply.calls ELSE 0,
           !.node = IF WantsTools(step) THEN "tool_call" ELSE "finalize",
           !.cutSteps = @ \/ (reply.calls > 0 /\ step >= MaxSteps),
           !.cutTokens = @ \/ Exhausted(usage)])

-----------------------------------------------------------------------------
(* Node tool_call *)

EnterTools ==
  /\ pc = "node" /\ cp.node = "tool_call"
  /\ pc' = "tools" /\ index' = 1 /\ asked' = FALSE
  /\ UNCHANGED <<gate, mode, budget, run, reply, ran, billed>>

\* One prompt for the batch, or one for each call.
Ask ==
  /\ pc = "tools" /\ index <= cp.pending /\ mode # "auto" /\ ~asked
  /\ Listen
  /\ pc' = "asking"
  /\ UNCHANGED <<mode, budget, run, reply, index, asked, ran, billed>>

Answered ==
  /\ pc = "asking" /\ request \in Decision \cup {"timeout"}
  /\ pc' = "tools" /\ asked' = TRUE
  /\ UNCHANGED <<gate, mode, budget, run, reply, index, ran, billed>>

\* A call passes if it was allowed; a plan also if there was no decision.
Granted ==
  \/ mode = "auto"
  \/ mode = "approve_each_tool" /\ request = "allow"
  \/ mode = "plan" /\ request \in {"allow", "timeout"}

Decided == pc = "tools" /\ index <= cp.pending /\ (mode = "auto" \/ asked)

\* On to the next call; its prompt, if each has one, is still to come.
NextCall ==
  /\ index' = index + 1
  /\ asked' = (mode = "plan")
  /\ UNCHANGED <<gate, mode, budget, run, pc, reply, billed>>

\* The call is executed and answered, with an error result perhaps.
RunTool ==
  /\ Decided /\ Granted
  /\ ran' = Append(ran, <<cp.step, index>>)
  /\ NextCall

\* The call is executed and raises: Fault follows from here.
ToolRaises ==
  /\ Decided /\ Granted
  /\ ran' = Append(ran, <<cp.step, index>>)
  /\ pc' = "idle" /\ index' = 0 /\ asked' = FALSE
  /\ UNCHANGED <<gate, mode, budget, run, reply, billed>>

\* A synthetic error result.
DenyTool ==
  /\ Decided /\ ~Granted
  /\ UNCHANGED ran
  /\ NextCall

Answers(step, n) == [i \in 1 .. n |-> <<"tool", step, i>>]

\* Mutant of ToolsDone: the answers start after the first call.
ToolsDoneShort ==
  /\ pc = "tools" /\ index > cp.pending
  /\ Persist([cp EXCEPT !.node = "plan", !.pending = 0,
                !.msgs = @ \o Tail(Answers(cp.step, cp.pending)),
                !.invocations = @ + cp.pending])

\* Mutant of ToolsDone: the calls stay pending.
ToolsDonePending ==
  /\ pc = "tools" /\ index > cp.pending
  /\ Persist([cp EXCEPT !.msgs = @ \o Answers(cp.step, cp.pending)])

ToolsDone ==
  /\ pc = "tools" /\ index > cp.pending
  /\ Persist([cp EXCEPT !.node = "plan", !.pending = 0,
                !.msgs = @ \o Answers(cp.step, cp.pending),
                !.invocations = @ + cp.pending])

-----------------------------------------------------------------------------
(* Node finalize and the terminal write *)

Finalize ==
  /\ pc = "node" /\ cp.node = "finalize"
  /\ Persist([cp EXCEPT !.node = "end"])

\* The explanation names the token budget first.
Cut == CASE cp.cutTokens -> "token_budget" [] cp.cutSteps -> "max_steps" [] OTHER -> "none"

Complete ==
  /\ pc = "node" /\ cp.node = "end"
  /\ row' = "succeeded"
  /\ output' = [steps |-> cp.step, invocations |-> cp.invocations, cut |-> Cut]
  /\ pc' = "idle"
  /\ UNCHANGED <<gate, mode, budget, cp, deliveries, reply, index, asked, ran, billed>>

-----------------------------------------------------------------------------

GateStep ==
  /\ PublishPrompt \/ Decide \/ TimeOut
  /\ UNCHANGED <<mode, budget, run, node, ran, billed>>

GateBreaks == GateFails /\ UNCHANGED <<mode, budget, run, node, ran, billed>>

ClientStep == Client /\ UNCHANGED <<mode, budget, run, node, ran, billed>>

\* An open request whose gate failed is an exception of the node.
AskFails == pc = "asking" /\ request = "error" /\ Fault

Plan ==
  \/ PlanStops \/ PlanDone
  \/ \E n \in 0 .. MaxBatch, t \in Usages : CallModel(n, t)

Work ==
  \/ Start \/ Abandon \/ Plan \/ EnterTools \/ Ask \/ Answered
  \/ RunTool \/ DenyTool \/ ToolsDone \/ Finalize \/ Complete \/ AskFails

Next ==
  \/ Work \/ GateStep \/ GateBreaks \/ ClientStep \/ Fault \/ ToolRaises
  \/ (row \in Terminal /\ UNCHANGED vars)

Spec == Init /\ [][Next]_vars

\* The worker runs; the timeout of a request fires whatever the client does.
FairSpec == Spec /\ WF_vars(Work) /\ WF_vars(GateStep)

-----------------------------------------------------------------------------
(* Properties *)

\* Type invariant.
TypeOK ==
  /\ GateType
  /\ mode \in Modes /\ budget \in Budgets
  /\ row \in {"pending", "running"} \cup Terminal
  /\ cp \in Checkpoint
  /\ output \in [steps : Nat, invocations : Nat, cut : {"none", "token_budget", "max_steps"}]
  /\ deliveries \in 0 .. MaxDeliveries
  /\ pc \in {"idle", "node", "planned", "tools", "asking"}
  /\ reply \in [calls : 0 .. MaxBatch, tokens : Usages \cup {-1}]
  /\ index \in 0 .. MaxBatch + 1
  /\ asked \in BOOLEAN
  /\ billed \in Nat

(***************************************************************************)
(* The history that goes to the model answers every tool call of every     *)
(* earlier plan once and in order, whatever was denied, timed out, failed  *)
(* or was repeated after a crash: providers reject anything else.          *)
(***************************************************************************)
HistoryAnswered ==
  pc = "planned" =>
    \A k \in 1 .. Len(cp.msgs) :
      cp.msgs[k][1] = "assistant" =>
        LET n == cp.msgs[k][3] IN
          /\ k + n <= Len(cp.msgs)
          /\ \A i \in 1 .. n : cp.msgs[k + i] = <<"tool", cp.msgs[k][2], i>>
          /\ k + n = Len(cp.msgs) \/ cp.msgs[k + n + 1][1] = "assistant"

(***************************************************************************)
(* A delivery costs at most one model call beyond those the checkpoint     *)
(* records, and neither max_steps nor, by more than the last response, the *)
(* token budget is exceeded.                                               *)
(***************************************************************************)
SpendBounded ==
  /\ cp.step <= MaxSteps
  /\ billed <= cp.step + deliveries
  /\ budget # 0 => cp.usage < budget \/ \E t \in Usages : cp.usage < budget + t

\* The client's first word on the current prompt was yes.
SaidYes == sent # <<>> /\ Head(sent) = "allow"

(***************************************************************************)
(* Who has agreed to a call that runs.  In approve_each_tool mode the      *)
(* client: its first word on the prompt of this very call, in this very    *)
(* delivery, was yes.  In plan mode the client, by its first word on the   *)
(* prompt of this batch in this delivery, or nobody: the request timed     *)
(* out.  Late answers to earlier prompts, second thoughts and redeliveries *)
(* change nothing.  The process-local gate times out only if no word came  *)
(* in time; a no that Redis has published may be lost to the timeout, and  *)
(* the plan runs.                                                          *)
(***************************************************************************)
Consent ==
  [][ran' # ran /\ ran' # <<>> =>
       /\ mode = "approve_each_tool" => SaidYes
       /\ mode = "plan" =>
            \/ SaidYes
            \/ request = "timeout" /\ (backend = "memory" => inbox = "none")]_vars

(***************************************************************************)
(* A redelivery repeats at most the calls of the batch in flight: what the *)
(* checkpointed history answers is never run again, and one delivery runs  *)
(* the calls of a batch in order, each at most once.                       *)
(***************************************************************************)
NoNeedlessRepeat ==
  [][ran' # ran /\ ran' # <<>> =>
       LET c == ran'[Len(ran')] IN
         /\ \A k \in 1 .. Len(ran) : ran[k][1] < c[1] \/ (ran[k][1] = c[1] /\ ran[k][2] < c[2])
         /\ \A k \in 1 .. Len(cp.msgs) : cp.msgs[k] # <<"tool", c[1], c[2]>>]_vars

(***************************************************************************)
(* The task ends, also when the client never answers, disconnects, or      *)
(* keeps sending decisions nobody waits for.                               *)
(***************************************************************************)
RunEnds == <>(row \in Terminal)

(***************************************************************************)
(* "Silent client must not green-light a batch action": in plan mode a     *)
(* call runs only after the client allowed the plan.  Refuted by the code, *)
(* and not part of a run: a plan whose request timed out is executed.      *)
(***************************************************************************)
SilenceIsDenial ==
  [][ran' # ran /\ ran' # <<>> /\ mode = "plan" => SaidYes]_vars

-----------------------------------------------------------------------------
(* The inductive strengthening of the safety properties, for the proofs *)

AgentOK ==
  /\ budget \in Budgets /\ mode \in Modes
  /\ cp \in Checkpoint
  /\ deliveries \in Nat /\ billed \in Nat
  /\ pc \in {"idle", "node", "planned", "tools", "asking"}
  /\ reply \in [calls : 0 .. MaxBatch, tokens : Usages \cup {-1}]
  /\ index \in Nat
  /\ ran \in Seq(Nat \X Nat)

\* Which node the worker is in; a model call is made below the limits.
ControlInv ==
  /\ pc = "planned" => cp.node = "plan" /\ ~Exhausted(cp.usage)
  /\ pc \in {"tools", "asking"} => cp.node = "tool_call"
  /\ cp.node \in {"plan", "tool_call"} => cp.step < MaxSteps

\* Each delivery pays for one model call that no checkpoint records.
SpendInv ==
  /\ SpendBounded
  /\ billed + (IF pc \in {"node", "tools", "asking"} THEN 1 ELSE 0)
       <= cp.step + deliveries

\* The first n messages are plans, each followed by the answers to its calls.
AnsweredUpTo(m, n) ==
  \A k \in 1 .. n :
    m[k][1] = "assistant" =>
      /\ k + m[k][3] <= n
      /\ \A i \in 1 .. m[k][3] : m[k + i] = <<"tool", m[k][2], i>>
      /\ k + m[k][3] = n \/ m[k + m[k][3] + 1][1] = "assistant"

\* Before plan everything is answered, before tool_call all but the last plan.
HistoryInv ==
  /\ cp.node = "plan" => AnsweredUpTo(cp.msgs, Len(cp.msgs))
  /\ cp.node = "tool_call" =>
       /\ cp.msgs # <<>>
       /\ cp.msgs[Len(cp.msgs)] = <<"assistant", cp.step, cp.pending>>
       /\ AnsweredUpTo(cp.msgs, Len(cp.msgs) - 1)

\* Messages are of steps made so far; a call of the pending plan has no answer.
StepsInv ==
  \A k \in 1 .. Len(cp.msgs) :
    /\ cp.msgs[k][2] <= cp.step
    /\ cp.node = "tool_call" /\ cp.msgs[k][1] = "tool" => cp.msgs[k][2] < cp.step

\* What this delivery has run lies before the call at hand.
RanInv ==
  pc # "idle" =>
    \A k \in 1 .. Len(ran) :
      \/ ran[k][1] < cp.step
      \/ /\ ran[k][1] = cp.step
         /\ \/ cp.node # "tool_call"
            \/ pc \in {"tools", "asking"} /\ ran[k][2] < index

\* A decision that counts is the first the client made on the current prompt.
ConsentInv ==
  /\ sent \in Seq(Decision)
  /\ inbox # "none" => sent # <<>> /\ Head(sent) = inbox
  /\ request \in Open /\ inbox = "none" => sent = <<>>
  /\ request \in Decision => inbox = request
  /\ request = "timeout" /\ backend = "memory" => inbox = "none"

AgentInv ==
  AgentOK /\ ControlInv /\ SpendInv /\ HistoryInv /\ StepsInv /\ RanInv /\ ConsentInv
=============================================================================
