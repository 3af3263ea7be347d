SPECIFICATION FairSpec
CONSTANTS
    Workflows <- MCWorkflows
    Items <- MCItems
    WorkflowOf <- MCWorkflowOf
    DependsOn <- MCDependsOn
    CostUnits <- MCNoCost
    EffectItems <- MCEffectItems
    RequiresApproval <- MCRequiresApproval
    Workers = {k1, k2}
    Limits = {1}
    MaxFence = 3
    Commands = {"approve"}
PROPERTY StartedSucceeds
CHECK_DEADLOCK FALSE
