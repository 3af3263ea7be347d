-------------------------- MODULE MCWorkflowEngine --------------------------
(* Instances of WorkflowEngine: workflow a has an item and, behind it, an  *)
(* approved effect; workflow b has one effect that needs no approval.      *)
EXTENDS WorkflowEngine, TLC

MCWorkflows == {"a", "b"}
MCItems == 1..3
MCWorkflowOf == [i \in MCItems |-> IF i = 3 THEN "b" ELSE "a"]
MCDependsOn == [i \in MCItems |-> IF i = 2 THEN {1} ELSE {}]
MCCostUnits == [i \in MCItems |-> IF i = 1 THEN 0 ELSE 1]
MCEffectItems == {2, 3}
MCRequiresApproval == {2}

(* The default cost_units of a work item. *)
MCNoCost == [i \in MCItems |-> 0]

(* One workflow: an effect that needs an approval and one that needs none. *)
OneWorkflow == {"a"}
OneItems == 1..2
OneWorkflowOf == [i \in OneItems |-> "a"]
OneDependsOn == [i \in OneItems |-> {}]
OneCostUnits == [i \in OneItems |-> 1]
OneEffectItems == {1, 2}
OneRequiresApproval == {1}

WorkerSymmetry == Permutations(Workers)
=============================================================================
