--------------------------- MODULE SequentialRun ----------------------------
(***************************************************************************)
(* What the checkpoint log promises, however many workers, redeliveries    *)
(* and operators act on it: each task advances as if one process owned it, *)
(* one graph step or one operator decision at a time, and never goes back. *)
(* TaskSystem implements this specification with `run' mapped to the       *)
(* latest checkpoint of each task.                                         *)
(***************************************************************************)
EXTENDS GraphRun

CONSTANT Task

VARIABLE run

Init == run = [t \in Task |-> InitialRun]

\* Some worker executed the next node of t and its checkpoint was accepted.
Step(t) ==
  /\ ~AtRest(run[t])
  /\ \E s \in StepResults(run[t]) : run' = [run EXCEPT ![t] = s]

\* An operator's decision was merged into the latest snapshot of t.
Decide(t) ==
  \E s \in DecisionResults(run[t]) : run' = [run EXCEPT ![t] = s]

Next == \E t \in Task : Step(t) \/ Decide(t)

Spec == Init /\ [][Next]_run
=============================================================================
