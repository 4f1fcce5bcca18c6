---------------------------- MODULE MCTaskSystem ----------------------------
(* Small instances of TaskSystem: graph shapes and chains. *)
EXTENDS TaskSystem

CONSTANTS plan, gate, push, t1, t2

\* plan -> gate -> push -> END; a rejected gate ends the run.
GateNodes == {plan, gate, push}
GateSucc == [n \in GateNodes |-> IF n = plan THEN {gate} ELSE {END}]
GateHuman == {gate}
GateApprove == [g \in {gate} |-> push]
GateReject == [g \in {gate} |-> END]

\* plan -> push -> END with budgeted nodes, no human gate.
LineNodes == {plan, push}
LineSucc == [n \in LineNodes |-> IF n = plan THEN {push} ELSE {END}]
NoGates == {}
NoTarget == [g \in {} |-> END]

NoChain == [t \in Task |-> NoTask]
ChainT1T2 == [t \in Task |-> IF t = t1 THEN t2 ELSE NoTask]
=============================================================================
