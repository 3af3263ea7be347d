SPECIFICATION Spec
CONSTANTS
    Workflows <- OneWorkflow
    Items <- OneItems
    WorkflowOf <- OneWorkflowOf
    DependsOn <- OneDependsOn
    CostUnits <- OneCostUnits
    EffectItems <- OneEffectItems
    RequiresApproval <- OneRequiresApproval
    Workers = {k1, k2}
    Limits = {1}
    MaxFence = 2
    Commands = {"approve", "pause", "kill", "budget", "fail", "retry", "direct", "decide_any", "slow"}
INVARIANTS
    BudgetConserved
PROPERTIES
    KillSwitchHolds
SYMMETRY WorkerSymmetry
CHECK_DEADLOCK FALSE
