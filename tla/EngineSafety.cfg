SPECIFICATION Spec
CONSTANTS
    Workflows <- MCWorkflows
    Items <- MCItems
    WorkflowOf <- MCWorkflowOf
    DependsOn <- MCDependsOn
    CostUnits <- MCCostUnits
    EffectItems <- MCEffectItems
    RequiresApproval <- MCRequiresApproval
    Workers = {k1, k2}
    Limits = {1}
    MaxFence = 2
    Commands = {"pause", "cancel", "approve", "reject", "retry", "recover", "crash", "slow"}
INVARIANTS
    OneAttemptWins ExecutedOnlyApproved DependencyOrder SuccessIsReal BudgetSafe
SYMMETRY WorkerSymmetry
CHECK_DEADLOCK FALSE
