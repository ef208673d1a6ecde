SPECIFICATION MCSpec
CONSTANTS
    NumSteps = 2
    Local = {2}
    DependsOn <- Chain
    Stop = {1}
    NumClients = 1
    Outcomes = {"completed", "failed"}
    Faults = {"io", "unconfirmed", "refuse", "worker_crash"}
    MaxCrashes = 1
INVARIANT WorkflowSound
PROPERTIES
    OutcomeIsFinal
    ImplementsPlan
CHECK_DEADLOCK FALSE
