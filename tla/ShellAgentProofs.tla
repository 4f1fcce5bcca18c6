-------------------------- MODULE ShellAgentProofs --------------------------
(***************************************************************************)
(* Proofs about ShellAgent with its permission gate, for every mode, step  *)
(* limit, token budget, batch size and number of deliveries.               *)
(***************************************************************************)
EXTENDS ShellAgent, TLAPS

\* The limits, without the bound on prompts.
LEMMA Limits ==
  /\ MaxSteps \in Nat /\ MaxSteps > 0 /\ MaxBatch \in Nat
  /\ Budgets \subseteq Nat /\ Usages \subseteq Nat \cup {-1}
BY AgentAssumption

-----------------------------------------------------------------------------
(* The history of messages *)

\* The parts of a message.
LEMMA MessageParts ==
  ASSUME NEW m \in Seq(Message), NEW k \in 1 .. Len(m)
  PROVE  m[k][2] \in Nat /\ m[k][3] \in Nat
<1>1. m[k] \in Message
  OBVIOUS
<1> QED
  BY <1>1 DEF Message

\* A new plan follows a history that is answered: only the plan is open.
LEMMA PlanAppended ==
  ASSUME NEW m \in Seq(Message), NEW s \in Nat, NEW n \in Nat,
         AnsweredUpTo(m, Len(m))
  PROVE  LET h == Append(m, <<"assistant", s, n>>) IN
         /\ h \in Seq(Message) /\ Len(h) = Len(m) + 1
         /\ h[Len(h)] = <<"assistant", s, n>>
         /\ AnsweredUpTo(h, Len(h) - 1)
         /\ \A k \in 1 .. Len(m) : h[k] = m[k]
<1> DEFINE h == Append(m, <<"assistant", s, n>>)
<1>1. <<"assistant", s, n>> \in Message
  BY DEF Message
<1>2. /\ h \in Seq(Message) /\ Len(h) = Len(m) + 1 /\ Len(m) \in Nat
      /\ h[Len(m) + 1] = <<"assistant", s, n>>
      /\ \A k \in 1 .. Len(m) : h[k] = m[k]
  BY <1>1
<1> HIDE DEF h
<1>3. AnsweredUpTo(h, Len(m))
  <2> SUFFICES ASSUME NEW k \in 1 .. Len(m), h[k][1] = "assistant"
               PROVE  /\ k + h[k][3] <= Len(m)
                      /\ \A i \in 1 .. h[k][3] : h[k + i] = <<"tool", h[k][2], i>>
                      /\ k + h[k][3] = Len(m) \/ h[k + h[k][3] + 1][1] = "assistant"
    BY DEF AnsweredUpTo
  <2> DEFINE a == m[k][3]
  <2>1. h[k] = m[k] /\ a \in Nat
    BY <1>2, MessageParts
  <2>2. /\ k + a <= Len(m)
        /\ \A i \in 1 .. a : m[k + i] = <<"tool", m[k][2], i>>
        /\ k + a = Len(m) \/ m[k + a + 1][1] = "assistant"
    BY <2>1 DEF AnsweredUpTo
  <2> HIDE DEF a
  <2>3. \A i \in 1 .. a : k + i \in 1 .. Len(m)
    BY <1>2, <2>1, <2>2
  <2>4. k + a = Len(m) \/ k + a + 1 \in 1 .. Len(m)
    BY <1>2, <2>1, <2>2
  <2>5. /\ k + a <= Len(m)
        /\ \A i \in 1 .. a : h[k + i] = <<"tool", h[k][2], i>>
        /\ k + a = Len(m) \/ h[k + a + 1][1] = "assistant"
    BY <1>2, <2>1, <2>2, <2>3, <2>4
  <2> QED
    BY <2>1, <2>5 DEF a
<1>4. Len(h) - 1 = Len(m)
  BY <1>2
<1> QED
  BY <1>2, <1>3, <1>4 DEF h

\* The answers to the open plan close the history.
LEMMA AnswersAppended ==
  ASSUME NEW m \in Seq(Message), m # <<>>, NEW s \in Nat, NEW n \in Nat,
         m[Len(m)] = <<"assistant", s, n>>,
         AnsweredUpTo(m, Len(m) - 1)
  PROVE  LET h == m \o Answers(s, n) IN
         /\ h \in Seq(Message)
         /\ AnsweredUpTo(h, Len(h))
         /\ \A k \in 1 .. Len(h) :
              \/ k \in 1 .. Len(m) /\ h[k] = m[k]
              \/ h[k][2] = s
<1> DEFINE h == m \o Answers(s, n)
<1> DEFINE z == Len(m)
<1>1. Answers(s, n) \in Seq(Message) /\ Len(Answers(s, n)) = n
  <2>1. \A i \in 1 .. n : <<"tool", s, i>> \in Message
    BY DEF Message
  <2> QED
    BY <2>1 DEF Answers
<1>2. \A i \in 1 .. n : Answers(s, n)[i] = <<"tool", s, i>>
  BY DEF Answers
<1>3. z \in Nat /\ z > 0
  OBVIOUS
<1>4. /\ h \in Seq(Message) /\ Len(h) = z + n
      /\ \A k \in 1 .. z : h[k] = m[k]
      /\ \A k \in 1 .. Len(h) : k > z => h[k] = Answers(s, n)[k - z]
  BY <1>1
<1>5. \A i \in 1 .. n : h[z + i] = <<"tool", s, i>>
  <2> TAKE i \in 1 .. n
  <2>1. z + i \in 1 .. Len(h) /\ z + i > z /\ (z + i) - z = i
    BY <1>3, <1>4
  <2> QED
    BY <2>1, <1>2, <1>4
<1>6. m[z] = <<"assistant", s, n>>
  OBVIOUS
<1>7. AnsweredUpTo(m, z - 1)
  OBVIOUS
<1> HIDE DEF h, z
<1>8. \A k \in 1 .. Len(h) : k \in 1 .. z \/ \E i \in 1 .. n : k = z + i
  <2> TAKE k \in 1 .. Len(h)
  <2>1. k > z => (k - z) \in 1 .. n /\ k = z + (k - z)
    BY <1>3, <1>4
  <2> QED
    BY <2>1, <1>3
<1>9. AnsweredUpTo(h, Len(h))
  <2> SUFFICES ASSUME NEW k \in 1 .. Len(h), h[k][1] = "assistant"
               PROVE  /\ k + h[k][3] <= Len(h)
                      /\ \A i \in 1 .. h[k][3] : h[k + i] = <<"tool", h[k][2], i>>
                      /\ k + h[k][3] = Len(h) \/ h[k + h[k][3] + 1][1] = "assistant"
    BY DEF AnsweredUpTo
  <2>1. k \in 1 .. z
    BY <1>5, <1>8
  <2>2. CASE k = z
    BY <2>2, <1>3, <1>4, <1>5, <1>6
  <2>3. CASE k # z
    <3>1. k \in 1 .. z - 1 /\ h[k] = m[k]
      BY <2>1, <2>3, <1>3, <1>4
    <3> DEFINE a == m[k][3]
    <3>2. a \in Nat
      <4>1. k \in 1 .. Len(m)
        BY <2>1 DEF z
      <4> QED
        BY <4>1, MessageParts
    <3>3. /\ k + a <= z - 1
          /\ \A i \in 1 .. a : m[k + i] = <<"tool", m[k][2], i>>
          /\ k + a = z - 1 \/ m[k + a + 1][1] = "assistant"
      BY <1>7, <3>1 DEF AnsweredUpTo
    <3> HIDE DEF a
    <3>4. \A i \in 1 .. a : k + i \in 1 .. z
      BY <1>3, <2>1, <3>2, <3>3
    <3>5. k + a + 1 \in 1 .. z
      BY <1>3, <2>1, <3>2, <3>3
    <3>6. m[k + a + 1][1] = "assistant"
      <4>1. CASE k + a = z - 1
        <5>1. k + a + 1 = z
          BY <4>1, <1>3
        <5> QED
          BY <5>1, <1>6
      <4> QED
        BY <4>1, <3>3
    <3>7. k + a <= Len(h)
      BY <1>3, <1>4, <2>1, <3>2, <3>3
    <3>8. \A i \in 1 .. a : h[k + i] = <<"tool", m[k][2], i>>
      BY <1>4, <3>3, <3>4
    <3>9. h[k + a + 1][1] = "assistant"
      BY <1>4, <3>5, <3>6
    <3> QED
      BY <3>1, <3>7, <3>8, <3>9 DEF a
  <2> QED
    BY <2>2, <2>3
<1>10. \A k \in 1 .. Len(h) : (k \in 1 .. z /\ h[k] = m[k]) \/ h[k][2] = s
  <2> TAKE k \in 1 .. Len(h)
  <2>1. CASE k \in 1 .. z
    BY <2>1, <1>4
  <2>2. ASSUME NEW i \in 1 .. n, k = z + i PROVE h[k][2] = s
    <3>1. h[k] = <<"tool", s, i>>
      BY <2>2, <1>5
    <3> QED
      BY <3>1
  <2> QED
    BY <2>1, <2>2, <1>8
<1> QED
  BY <1>4, <1>9, <1>10 DEF h, z

-----------------------------------------------------------------------------
(* The invariant *)

\* Nothing has been asked, planned or run.
LEMMA AgentInvInit == Init => AgentInv
<1> SUFFICES ASSUME Init PROVE AgentInv
  OBVIOUS
<1>1. /\ cp = FirstCheckpoint /\ deliveries = 0 /\ billed = 0 /\ pc = "idle"
      /\ index = 0 /\ ran = <<>> /\ reply = NoReply
      /\ inbox = "none" /\ request = "unused" /\ sent = <<>>
      /\ budget \in Budgets /\ mode \in Modes
  BY DEF Init, GateInit
<1>2. cp \in Checkpoint /\ Len(cp.msgs) = 0 /\ cp.node = "plan" /\ cp.step = 0 /\ cp.usage = -1
  BY <1>1, Limits DEF FirstCheckpoint, Checkpoint
<1>3. AgentOK
  BY <1>1, <1>2, Limits DEF AgentOK, NoReply
<1>4. ControlInv /\ ConsentInv
  BY <1>1, <1>2, Limits DEF ControlInv, ConsentInv, Decision, Open
<1>5. SpendInv
  BY <1>1, <1>2, Limits DEF SpendInv, SpendBounded
<1>6. HistoryInv /\ StepsInv /\ RanInv
  BY <1>1, <1>2 DEF HistoryInv, StepsInv, RanInv, AnsweredUpTo
<1> QED
  BY <1>3, <1>4, <1>5, <1>6 DEF AgentInv

\* The gate and the client settle a request by a decision that was sent.
LEMMA GatePreserves ==
  ASSUME AgentInv, GateStep \/ GateBreaks \/ ClientStep
  PROVE  AgentInv'
<1>1. UNCHANGED <<mode, budget, cp, deliveries, pc, reply, index, ran, billed>>
  BY DEF GateStep, GateBreaks, ClientStep, run, node
<1>2. ConsentInv'
  <2> USE DEF AgentInv, ConsentInv, Decision, Open
  <2>1. CASE PublishPrompt \/ Decide \/ TimeOut \/ GateFails \/ Subscribe \/ Unsubscribe \/ Receive
    BY <2>1 DEF PublishPrompt, Decide, TimeOut, GateFails, Subscribe, Unsubscribe, Receive
  <2>2. ASSUME NEW p, NEW d \in Decision, Deliver(p, d)
        PROVE  ConsentInv'
    <3>1. /\ sent \in Seq(Decision) /\ UNCHANGED <<backend, request>>
          /\ sent' = sent \/ sent' = Append(sent, d)
      BY <2>2 DEF Deliver
    <3>2. /\ sent' \in Seq(Decision)
          /\ sent # <<>> => sent' # <<>> /\ Head(sent') = Head(sent)
      BY <3>1
    <3>3. CASE inbox' = inbox /\ (request \in Open => inbox # "none" \/ sent' = sent)
      BY <3>1, <3>2, <3>3
    <3>4. CASE inbox' = d /\ inbox = "none" /\ request \in Open /\ sent' = Append(sent, d)
      <4>1. sent = <<>> /\ sent' # <<>> /\ Head(sent') = d
        BY <3>1, <3>4
      <4> QED
        BY <3>1, <3>2, <3>4, <4>1
    <3> QED
      BY <2>2, <3>3, <3>4 DEF Deliver
  <2> QED
    BY <2>1, <2>2 DEF GateStep, GateBreaks, ClientStep, Client
<1>3. AgentOK' /\ ControlInv'
  BY <1>1 DEF AgentInv, AgentOK, ControlInv, Exhausted
<1>4. SpendInv'
  BY <1>1 DEF AgentInv, SpendInv, SpendBounded
<1>5. HistoryInv' /\ StepsInv' /\ RanInv'
  BY <1>1 DEF AgentInv, HistoryInv, StepsInv, RanInv, AnsweredUpTo
<1> QED
  BY <1>2, <1>3, <1>4, <1>5 DEF AgentInv

\* A delivery starts with nothing run; an abandoned task stays as it is.
LEMMA DeliveryPreserves ==
  ASSUME AgentInv, Start \/ Abandon \/ Complete
  PROVE  AgentInv'
<1>1. /\ UNCHANGED <<backend, inbox, request, sent, mode, budget, cp, reply, index, billed>>
      /\ \/ pc = "idle" /\ pc' = "node" /\ deliveries' = deliveries + 1 /\ ran' = <<>>
         \/ pc' = "idle" /\ deliveries' = deliveries /\ ran' = ran
  BY DEF Start, Abandon, Complete, gate, node
<1>2. ConsentInv'
  BY <1>1 DEF AgentInv, ConsentInv
<1>3. AgentOK' /\ ControlInv'
  <2>1. ran' \in Seq(Nat \X Nat)
    <3>1. ran \in Seq(Nat \X Nat)
      BY DEF AgentInv, AgentOK
    <3>2. <<>> \in Seq(Nat \X Nat)
      OBVIOUS
    <3> QED
      BY <1>1, <3>1, <3>2
  <2>2. /\ deliveries' \in Nat
        /\ pc' \in {"idle", "node", "planned", "tools", "asking"}
    BY <1>1 DEF AgentInv, AgentOK
  <2> QED
    BY <1>1, <2>1, <2>2 DEF AgentInv, AgentOK, ControlInv
<1>4. SpendInv'
  BY <1>1 DEF AgentInv, AgentOK, Checkpoint, SpendInv, SpendBounded
<1>5. HistoryInv' /\ StepsInv' /\ RanInv'
  BY <1>1 DEF AgentInv, HistoryInv, StepsInv, RanInv, AnsweredUpTo
<1> QED
  BY <1>2, <1>3, <1>4, <1>5 DEF AgentInv

\* A delivery that ends early leaves the checkpoint; a call may have run.
LEMMA FaultPreserves ==
  ASSUME AgentInv, Fault \/ ToolRaises
  PROVE  AgentInv'
<1>1. /\ pc' = "idle" /\ index' = 0 /\ (reply' = NoReply \/ reply' = reply)
      /\ (ran' = ran \/ ran' = Append(ran, <<cp.step, index>>))
      /\ (request' = "error" \/ request' = request)
      /\ UNCHANGED <<backend, inbox, sent, mode, budget, cp, deliveries, billed>>
  BY DEF Fault, ToolRaises, gate, run
<1>2. ConsentInv'
  BY <1>1 DEF AgentInv, ConsentInv, Decision, Open
<1>3. ran' \in Seq(Nat \X Nat)
  <2>1. /\ cp.step \in Nat /\ index \in Nat /\ ran \in Seq(Nat \X Nat)
    BY DEF AgentInv, AgentOK, Checkpoint
  <2>2. Append(ran, <<cp.step, index>>) \in Seq(Nat \X Nat)
    BY <2>1
  <2> QED
    BY <1>1, <2>1, <2>2
<1>4. reply' \in [calls : 0 .. MaxBatch, tokens : Usages \cup {-1}]
  BY <1>1, Limits DEF AgentInv, AgentOK, NoReply
<1>5. AgentOK' /\ ControlInv'
  BY <1>1, <1>3, <1>4 DEF AgentInv, AgentOK, ControlInv
<1>6. SpendInv'
  BY <1>1 DEF AgentInv, AgentOK, Checkpoint, SpendInv, SpendBounded
<1>7. HistoryInv' /\ StepsInv' /\ RanInv'
  BY <1>1 DEF AgentInv, HistoryInv, StepsInv, RanInv, AnsweredUpTo
<1> QED
  BY <1>2, <1>5, <1>6, <1>7 DEF AgentInv

-----------------------------------------------------------------------------
(* Nodes *)

\* A budget that is used up, and the last node, only move the cursor.
LEMMA CursorPreserves ==
  ASSUME AgentInv, PlanStops \/ Finalize
  PROVE  AgentInv'
<1>1. /\ pc = "node" /\ pc' = "node" /\ reply' = NoReply /\ index' = 0
      /\ UNCHANGED <<backend, inbox, request, sent, mode, budget, deliveries, ran, billed>>
      /\ \/ cp' = [cp EXCEPT !.node = "finalize", !.cutTokens = TRUE]
         \/ cp' = [cp EXCEPT !.node = "end"]
  BY DEF PlanStops, Finalize, Persist, gate
<1>2. cp \in Checkpoint
  BY DEF AgentInv, AgentOK
<1>3. /\ cp'.node \in {"finalize", "end"} /\ cp'.step = cp.step /\ cp'.usage = cp.usage
      /\ cp'.msgs = cp.msgs
  BY <1>1, <1>2 DEF Checkpoint
<1>4. cp' \in Checkpoint
  <2>1. CASE cp' = [cp EXCEPT !.node = "finalize", !.cutTokens = TRUE]
    <3>1. TRUE \in BOOLEAN
      OBVIOUS
    <3> QED
      BY <1>2, <2>1, <3>1 DEF Checkpoint
  <2>2. CASE cp' = [cp EXCEPT !.node = "end"]
    BY <1>2, <2>2 DEF Checkpoint
  <2> QED
    BY <1>1, <2>1, <2>2
<1>5. AgentOK'
  BY <1>1, <1>4, Limits DEF AgentInv, AgentOK, NoReply
<1>6. ControlInv' /\ ConsentInv'
  BY <1>1, <1>3 DEF ControlInv, AgentInv, ConsentInv
<1>7. SpendInv'
  BY <1>1, <1>3 DEF AgentInv, SpendInv, SpendBounded
<1>8. HistoryInv' /\ StepsInv'
  BY <1>1, <1>3 DEF AgentInv, HistoryInv, StepsInv
<1>9. RanInv'
  <2>1. cp \in Checkpoint /\ cp.step \in Nat
    BY <1>2 DEF Checkpoint
  <2> QED
    BY <1>1, <1>3, <2>1 DEF AgentInv, RanInv
<1> QED
  BY <1>5, <1>6, <1>7, <1>8, <1>9 DEF AgentInv

\* A model call is paid for by the delivery until its step is recorded.
LEMMA CallModelPreserves ==
  ASSUME AgentInv, NEW n \in 0 .. MaxBatch, NEW t \in Usages, CallModel(n, t)
  PROVE  AgentInv'
<1>1. /\ pc = "node" /\ cp.node = "plan" /\ ~Exhausted(cp.usage) /\ pc' = "planned"
      /\ reply' = [calls |-> n, tokens |-> t] /\ billed' = billed + 1
      /\ UNCHANGED <<backend, inbox, request, sent, mode, budget, cp, deliveries, index, ran>>
  BY DEF CallModel, gate, run
<1>2. AgentOK'
  BY <1>1 DEF AgentInv, AgentOK
<1>3. ControlInv' /\ ConsentInv'
  BY <1>1 DEF AgentInv, ControlInv, ConsentInv, Exhausted
<1>4. SpendInv'
  BY <1>1 DEF AgentInv, AgentOK, Checkpoint, SpendInv, SpendBounded
<1>5. HistoryInv' /\ StepsInv' /\ RanInv'
  BY <1>1 DEF AgentInv, HistoryInv, StepsInv, RanInv, AnsweredUpTo
<1> QED
  BY <1>2, <1>3, <1>4, <1>5 DEF AgentInv

\* The step is recorded: its plan is open if its calls may still run.
LEMMA PlanDonePreserves ==
  ASSUME AgentInv, PlanDone
  PROVE  AgentInv'
<1> DEFINE s == cp.step + 1
<1> DEFINE u == Merge(cp.usage, reply.tokens)
<1> DEFINE h == Append(cp.msgs, <<"assistant", s, reply.calls>>)
<1>1. /\ pc = "planned" /\ pc' = "node" /\ reply' = NoReply /\ index' = 0
      /\ UNCHANGED <<backend, inbox, request, sent, mode, budget, deliveries, ran, billed>>
      /\ cp' = [cp EXCEPT !.step = s, !.usage = u, !.msgs = h,
           !.pending = IF WantsTools(s) THEN reply.calls ELSE 0,
           !.node = IF WantsTools(s) THEN "tool_call" ELSE "finalize",
           !.cutSteps = @ \/ (reply.calls > 0 /\ s >= MaxSteps),
           !.cutTokens = @ \/ Exhausted(u)]
  BY DEF PlanDone, Persist, gate
<1>2. /\ cp \in Checkpoint /\ cp.step \in Nat /\ cp.usage \in Nat \cup {-1}
      /\ cp.msgs \in Seq(Message) /\ reply.calls \in 0 .. MaxBatch
      /\ reply.tokens \in Usages \cup {-1} /\ reply.tokens \in Nat \cup {-1}
      /\ cp.node = "plan" /\ ~Exhausted(cp.usage) /\ cp.step < MaxSteps
      /\ budget \in Nat
  BY <1>1, Limits DEF AgentInv, AgentOK, Checkpoint, ControlInv
<1>3. s \in Nat /\ reply.calls \in Nat /\ s <= MaxSteps
  BY <1>2, Limits
<1>4. u \in Nat \cup {-1}
  BY <1>2 DEF Merge
<1>5. budget # 0 => u < budget \/ \E t \in Usages : u < budget + t
  BY <1>2 DEF Merge, Exhausted
<1>6. /\ h \in Seq(Message) /\ Len(h) = Len(cp.msgs) + 1
      /\ h[Len(h)] = <<"assistant", s, reply.calls>>
      /\ AnsweredUpTo(h, Len(h) - 1)
      /\ \A k \in 1 .. Len(cp.msgs) : h[k] = cp.msgs[k]
  BY <1>2, <1>3, PlanAppended DEF AgentInv, HistoryInv
<1> HIDE DEF s, u, h
<1>7. /\ cp'.step = s /\ cp'.usage = u /\ cp'.msgs = h
      /\ cp'.pending = (IF WantsTools(s) THEN reply.calls ELSE 0)
      /\ cp'.node = (IF WantsTools(s) THEN "tool_call" ELSE "finalize")
  BY <1>1, <1>2 DEF Checkpoint
<1>8. cp' \in Checkpoint
  <2>1. (cp.cutSteps \/ (reply.calls > 0 /\ s >= MaxSteps)) \in BOOLEAN
    BY Zenon
  <2>2. (cp.cutTokens \/ Exhausted(u)) \in BOOLEAN
    BY Zenon
  <2>3. (IF WantsTools(s) THEN reply.calls ELSE 0) \in 0 .. MaxBatch
    BY <1>2, Limits
  <2>4. (IF WantsTools(s) THEN "tool_call" ELSE "finalize")
          \in {"plan", "tool_call", "finalize", "end"}
    OBVIOUS
  <2> QED
    BY <1>1, <1>2, <1>3, <1>4, <1>6, <2>1, <2>2, <2>3, <2>4 DEF Checkpoint
<1>9. AgentOK'
  BY <1>1, <1>8, Limits DEF AgentInv, AgentOK, NoReply
<1>10. ControlInv' /\ ConsentInv'
  BY <1>1, <1>7 DEF AgentInv, ControlInv, ConsentInv, WantsTools
<1>11. SpendInv'
  <2>1. billed <= cp.step + deliveries /\ billed \in Nat /\ deliveries \in Nat
    BY <1>1 DEF AgentInv, AgentOK, SpendInv
  <2>2. s = cp.step + 1
    BY DEF s
  <2> QED
    BY <1>1, <1>2, <1>3, <1>5, <1>7, <2>1, <2>2 DEF SpendInv, SpendBounded
<1>12. HistoryInv'
  <2>1. h # <<>>
    BY <1>2, <1>6
  <2> QED
    BY <1>6, <1>7, <2>1 DEF HistoryInv
<1>13. StepsInv'
  <2>1. \A k \in 1 .. Len(h) :
          h[k][2] <= s /\ (h[k][1] = "tool" => h[k][2] < s)
    <3> TAKE k \in 1 .. Len(h)
    <3>1. CASE k = Len(h)
      BY <3>1, <1>3, <1>6
    <3>2. CASE k # Len(h)
      <4>1. k \in 1 .. Len(cp.msgs)
        BY <3>2, <1>2, <1>6
      <4>2. h[k] = cp.msgs[k] /\ cp.msgs[k][2] <= cp.step /\ cp.msgs[k][2] \in Nat
        BY <4>1, <1>2, <1>6, MessageParts DEF AgentInv, StepsInv
      <4> QED
        BY <4>2, <1>2 DEF s
    <3> QED
      BY <3>1, <3>2
  <2> QED
    BY <1>7, <2>1 DEF StepsInv
<1>14. RanInv'
  <2>1. \A k \in 1 .. Len(ran) : ran[k][1] < s
    <3> TAKE k \in 1 .. Len(ran)
    <3>1. ran[k] \in Nat \X Nat
      BY DEF AgentInv, AgentOK
    <3>2. ran[k][1] \in Nat /\ (ran[k][1] < cp.step \/ ran[k][1] = cp.step)
      BY <3>1, <1>1 DEF AgentInv, RanInv
    <3> QED
      BY <3>2, <1>2 DEF s
  <2> QED
    BY <1>1, <1>7, <2>1 DEF RanInv
<1> QED
  BY <1>9, <1>10, <1>11, <1>12, <1>13, <1>14 DEF AgentInv

\* Steps within tool_call move the position and the prompt only.
LEMMA ToolsPreserve ==
  ASSUME AgentInv, EnterTools \/ Ask \/ Answered \/ DenyTool
  PROVE  AgentInv'
<1>1. /\ cp.node = "tool_call"
      /\ \/ pc = "node" /\ pc' = "tools" /\ index' = 1
         \/ pc \in {"tools", "asking"} /\ pc' \in {"tools", "asking"} /\ index' = index
         \/ pc = "tools" /\ pc' = "tools" /\ index' = index + 1
      /\ UNCHANGED <<mode, budget, cp, deliveries, reply, ran, billed>>
  BY DEF EnterTools, Ask, Answered, DenyTool, Decided, NextCall, run, AgentInv, ControlInv
<1>2. ConsentInv'
  <2>1. CASE Ask
    BY <2>1 DEF Ask, Listen, ConsentInv, Decision, Open
  <2>2. CASE ~Ask
    <3>1. UNCHANGED <<backend, inbox, request, sent>>
      BY <2>2 DEF EnterTools, Answered, DenyTool, NextCall, gate
    <3> QED
      BY <3>1 DEF AgentInv, ConsentInv
  <2> QED
    BY <2>1, <2>2
<1>3. AgentOK' /\ ControlInv'
  BY <1>1 DEF AgentInv, AgentOK, ControlInv, Exhausted
<1>4. SpendInv'
  BY <1>1 DEF AgentInv, AgentOK, Checkpoint, SpendInv, SpendBounded
<1>5. HistoryInv' /\ StepsInv'
  BY <1>1 DEF AgentInv, HistoryInv, StepsInv, AnsweredUpTo
<1>6. RanInv'
  <2> SUFFICES ASSUME NEW k \in 1 .. Len(ran)
               PROVE  \/ ran[k][1] < cp.step
                      \/ ran[k][1] = cp.step /\ ran[k][2] < index'
    BY <1>1 DEF RanInv
  <2>1. ran[k] \in Nat \X Nat
    BY DEF AgentInv, AgentOK
  <2>2. ran[k][1] \in Nat /\ ran[k][2] \in Nat /\ cp.step \in Nat /\ index \in Nat
    BY <2>1 DEF AgentInv, AgentOK, Checkpoint
  <2> QED
    BY <1>1, <2>2 DEF AgentInv, RanInv
<1> QED
  BY <1>2, <1>3, <1>4, <1>5, <1>6 DEF AgentInv

\* A call that is run is the one at the position, which then moves on.
LEMMA RunToolPreserves ==
  ASSUME AgentInv, RunTool
  PROVE  AgentInv'
<1>1. /\ pc = "tools" /\ cp.node = "tool_call" /\ index' = index + 1
      /\ ran' = Append(ran, <<cp.step, index>>)
      /\ UNCHANGED <<backend, inbox, request, sent, mode, budget, cp, deliveries, pc, reply, billed>>
  BY DEF RunTool, Decided, NextCall, run, gate, AgentInv, ControlInv
<1>2. /\ cp.step \in Nat /\ index \in Nat /\ ran \in Seq(Nat \X Nat)
  BY DEF AgentInv, AgentOK, Checkpoint
<1>3. /\ ran' \in Seq(Nat \X Nat) /\ Len(ran') = Len(ran) + 1 /\ Len(ran) \in Nat
      /\ ran'[Len(ran) + 1] = <<cp.step, index>>
      /\ \A k \in 1 .. Len(ran) : ran'[k] = ran[k] /\ ran[k] \in Nat \X Nat
  <2>1. <<cp.step, index>> \in Nat \X Nat
    BY <1>2
  <2> QED
    BY <1>1, <1>2, <2>1
<1>4. AgentOK'
  BY <1>1, <1>2, <1>3 DEF AgentInv, AgentOK
<1>5. ControlInv' /\ ConsentInv' /\ SpendInv'
  BY <1>1 DEF AgentInv, ControlInv, ConsentInv, SpendInv, SpendBounded, Exhausted
<1>6. HistoryInv' /\ StepsInv'
  BY <1>1 DEF AgentInv, HistoryInv, StepsInv, AnsweredUpTo
<1>7. RanInv'
  <2> SUFFICES ASSUME NEW k \in 1 .. Len(ran')
               PROVE  \/ ran'[k][1] < cp.step
                      \/ ran'[k][1] = cp.step /\ ran'[k][2] < index + 1
    BY <1>1 DEF RanInv
  <2>1. CASE k = Len(ran) + 1
    BY <2>1, <1>2, <1>3
  <2>2. CASE k # Len(ran) + 1
    <3>1. k \in 1 .. Len(ran)
      BY <2>2, <1>3
    <3>2. ran'[k] = ran[k] /\ ran[k][1] \in Nat /\ ran[k][2] \in Nat
      BY <3>1, <1>3
    <3>3. ran[k][1] < cp.step \/ (ran[k][1] = cp.step /\ ran[k][2] < index)
      BY <3>1, <1>1 DEF AgentInv, RanInv
    <3> QED
      BY <3>2, <3>3, <1>2
  <2> QED
    BY <2>1, <2>2
<1> QED
  BY <1>4, <1>5, <1>6, <1>7 DEF AgentInv

\* The answers of the whole batch close the history.
LEMMA ToolsDonePreserves ==
  ASSUME AgentInv, ToolsDone
  PROVE  AgentInv'
<1> DEFINE h == cp.msgs \o Answers(cp.step, cp.pending)
<1>1. /\ pc = "tools" /\ pc' = "node" /\ reply' = NoReply /\ index' = 0
      /\ UNCHANGED <<backend, inbox, request, sent, mode, budget, deliveries, ran, billed>>
      /\ cp' = [cp EXCEPT !.node = "plan", !.pending = 0, !.msgs = h,
                  !.invocations = @ + cp.pending]
  BY DEF ToolsDone, Persist, gate
<1>2. /\ cp \in Checkpoint /\ cp.step \in Nat /\ cp.pending \in 0 .. MaxBatch
      /\ cp.pending \in Nat /\ cp.invocations \in Nat
      /\ cp.msgs \in Seq(Message) /\ cp.node = "tool_call"
  BY <1>1, Limits DEF AgentInv, AgentOK, Checkpoint, ControlInv
<1>3. /\ h \in Seq(Message) /\ AnsweredUpTo(h, Len(h))
      /\ \A k \in 1 .. Len(h) :
           (k \in 1 .. Len(cp.msgs) /\ h[k] = cp.msgs[k]) \/ h[k][2] = cp.step
  BY <1>2, AnswersAppended DEF AgentInv, HistoryInv
<1> HIDE DEF h
<1>4. /\ cp'.node = "plan" /\ cp'.msgs = h /\ cp'.step = cp.step /\ cp'.usage = cp.usage
      /\ cp' \in Checkpoint
  <2>1. cp.invocations + cp.pending \in Nat /\ 0 \in 0 .. MaxBatch
    BY <1>2, Limits
  <2> QED
    BY <1>1, <1>2, <1>3, <2>1 DEF Checkpoint
<1>5. AgentOK'
  BY <1>1, <1>4, Limits DEF AgentInv, AgentOK, NoReply
<1>6. ControlInv' /\ ConsentInv'
  BY <1>1, <1>2, <1>4 DEF AgentInv, ControlInv, ConsentInv
<1>7. SpendInv'
  BY <1>1, <1>4 DEF AgentInv, SpendInv, SpendBounded
<1>8. HistoryInv'
  BY <1>3, <1>4 DEF HistoryInv
<1>9. StepsInv'
  <2>1. \A k \in 1 .. Len(h) : h[k][2] <= cp.step
    BY <1>2, <1>3 DEF AgentInv, StepsInv
  <2> QED
    BY <1>4, <2>1 DEF StepsInv
<1>10. RanInv'
  BY <1>1, <1>2, <1>4 DEF AgentInv, RanInv
<1> QED
  BY <1>5, <1>6, <1>7, <1>8, <1>9, <1>10 DEF AgentInv

\* Every step of the worker, the gate and the client preserves the invariant.
LEMMA AgentInvStep == AgentInv /\ [Next]_vars => AgentInv'
<1> SUFFICES ASSUME AgentInv, [Next]_vars PROVE AgentInv'
  OBVIOUS
<1>1. CASE GateStep \/ GateBreaks \/ ClientStep
  BY <1>1, GatePreserves
<1>2. CASE Fault \/ ToolRaises \/ AskFails
  BY <1>2, FaultPreserves DEF AskFails
<1>3. CASE Plan
  BY <1>3, CursorPreserves, PlanDonePreserves, CallModelPreserves DEF Plan
<1>4. CASE Start \/ Abandon \/ Complete
  BY <1>4, DeliveryPreserves
<1>5. CASE EnterTools \/ Ask \/ Answered \/ DenyTool \/ RunTool \/ ToolsDone \/ Finalize
  BY <1>5, ToolsPreserve, RunToolPreserves, ToolsDonePreserves, CursorPreserves
<1>6. CASE UNCHANGED vars
  <2>1. UNCHANGED <<backend, inbox, request, sent, mode, budget, cp, deliveries, pc, reply, index,
                    ran, billed>>
    BY <1>6 DEF vars, gate, run, node
  <2>2. AgentOK' /\ ControlInv' /\ ConsentInv' /\ SpendInv'
    BY <2>1 DEF AgentInv, AgentOK, ControlInv, ConsentInv, SpendInv, SpendBounded,
                Exhausted
  <2>3. HistoryInv' /\ StepsInv' /\ RanInv'
    BY <2>1 DEF AgentInv, HistoryInv, StepsInv, RanInv, AnsweredUpTo
  <2> QED
    BY <2>2, <2>3 DEF AgentInv
<1> QED
  BY <1>1, <1>2, <1>3, <1>4, <1>5, <1>6 DEF Next, Work

\* AgentInv is an invariant of a shell_agent task.
THEOREM AgentIsSafe == Spec => []AgentInv
BY AgentInvInit, AgentInvStep, PTL DEF Spec

-----------------------------------------------------------------------------
(* The theorems *)

\* The history that goes to the model answers every call of every earlier
\* plan once and in order, whatever was denied, repeated or lost.
THEOREM HistoriesAreAnswered == Spec => []HistoryAnswered
<1>1. AgentInv => HistoryAnswered
  BY DEF AgentInv, ControlInv, HistoryInv, HistoryAnswered, AnsweredUpTo
<1> QED
  BY <1>1, AgentIsSafe, PTL

\* max_steps, the token budget up to the last response, and one unrecorded
\* model call for each delivery bound what a task spends.
THEOREM SpendIsBounded == Spec => []SpendBounded
<1>1. AgentInv => SpendBounded
  BY DEF AgentInv, SpendInv
<1> QED
  BY <1>1, AgentIsSafe, PTL

\* The call that a step runs: the one at the position of tool_call, granted by
\* the mode.
LEMMA RunningStep ==
  ASSUME AgentInv, [Next]_vars, ran' # ran, ran' # <<>>
  PROVE  /\ pc = "tools" /\ cp.node = "tool_call" /\ Granted
         /\ ran' = Append(ran, <<cp.step, index>>)
<1>1. RunTool \/ ToolRaises
  <2>1. CASE UNCHANGED vars
    BY <2>1 DEF vars
  <2>2. CASE Fault \/ AskFails \/ PlanStops \/ PlanDone \/ ToolsDone \/ Finalize
    BY <2>2 DEF Fault, AskFails, PlanStops, PlanDone, ToolsDone, Finalize, Persist
  <2>3. CASE GateStep \/ GateBreaks \/ ClientStep
    BY <2>3 DEF GateStep, GateBreaks, ClientStep
  <2>4. CASE Start \/ Abandon \/ Complete \/ EnterTools \/ Ask \/ Answered \/ DenyTool
    BY <2>4 DEF Start, Abandon, Complete, EnterTools, Ask, Answered, DenyTool
  <2>5. CASE \E n \in 0 .. MaxBatch, t \in Usages : CallModel(n, t)
    BY <2>5 DEF CallModel
  <2> QED
    BY <2>1, <2>2, <2>3, <2>4, <2>5 DEF Next, Work, Plan
<1> QED
  BY <1>1 DEF RunTool, ToolRaises, Decided, AgentInv, ControlInv

\* A call runs in approve_each_tool mode only on the client's first word about
\* it, and in plan mode on its first word about the batch or on a timeout
\* (tool_call, _gated_execute, _request_plan_decision).
THEOREM ConsentIsKept == Spec => Consent
<1>1. ASSUME AgentInv, [Next]_vars
      PROVE  [ran' # ran /\ ran' # <<>> =>
                /\ mode = "approve_each_tool" => SaidYes
                /\ mode = "plan" =>
                     \/ SaidYes
                     \/ request = "timeout" /\ (backend = "memory" => inbox = "none")]_vars
  <2> SUFFICES ASSUME ran' # ran, ran' # <<>>
               PROVE  /\ mode = "approve_each_tool" => SaidYes
                      /\ mode = "plan" =>
                           \/ SaidYes
                           \/ request = "timeout" /\ (backend = "memory" => inbox = "none")
    OBVIOUS
  <2>1. Granted
    BY <1>1, RunningStep
  <2> QED
    BY <1>1, <2>1 DEF AgentInv, ConsentInv, SaidYes, Granted, Decision
<1> QED
  BY <1>1, AgentIsSafe, PTL DEF Spec, Consent

\* A delivery runs the calls of a batch in order, each at most once, and
\* nothing that the checkpointed history already answers.
THEOREM NothingRunsNeedlessly == Spec => NoNeedlessRepeat
<1>1. ASSUME AgentInv, [Next]_vars
      PROVE  [ran' # ran /\ ran' # <<>> =>
                LET c == ran'[Len(ran')] IN
                  /\ \A k \in 1 .. Len(ran) :
                       ran[k][1] < c[1] \/ (ran[k][1] = c[1] /\ ran[k][2] < c[2])
                  /\ \A k \in 1 .. Len(cp.msgs) : cp.msgs[k] # <<"tool", c[1], c[2]>>]_vars
  <2> SUFFICES ASSUME ran' # ran, ran' # <<>>
               PROVE  LET c == ran'[Len(ran')] IN
                        /\ \A k \in 1 .. Len(ran) :
                             ran[k][1] < c[1] \/ (ran[k][1] = c[1] /\ ran[k][2] < c[2])
                        /\ \A k \in 1 .. Len(cp.msgs) :
                             cp.msgs[k] # <<"tool", c[1], c[2]>>
    OBVIOUS
  <2>1. /\ pc = "tools" /\ cp.node = "tool_call"
        /\ ran' = Append(ran, <<cp.step, index>>)
    BY <1>1, RunningStep
  <2>2. ran \in Seq(Nat \X Nat) /\ cp.step \in Nat
    BY <1>1 DEF AgentInv, AgentOK, Checkpoint
  <2>3. ran'[Len(ran')] = <<cp.step, index>>
    BY <2>1, <2>2
  <2>4. \A k \in 1 .. Len(ran) :
          ran[k][1] < cp.step \/ (ran[k][1] = cp.step /\ ran[k][2] < index)
    BY <1>1, <2>1 DEF AgentInv, RanInv
  <2>5. \A k \in 1 .. Len(cp.msgs) : cp.msgs[k] # <<"tool", cp.step, index>>
    <3> TAKE k \in 1 .. Len(cp.msgs)
    <3>1. cp.msgs[k][1] = "tool" => cp.msgs[k][2] < cp.step
      BY <1>1, <2>1 DEF AgentInv, StepsInv
    <3> QED
      BY <2>2, <3>1
  <2> QED
    BY <2>3, <2>4, <2>5
<1> QED
  BY <1>1, AgentIsSafe, PTL DEF Spec, NoNeedlessRepeat
=============================================================================
