SPECIFICATION Spec
CONSTANTS
    None = None
    Startup = Startup
    Callers = {k1, k2}
    g1 = g1
    g2 = g2
    c1 = c1
    c2 = c2
    c3 = c3
    NumSteps = 2
    Local = {2}
    StepOutcomes = {"completed", "failed"}
    WorkflowFaults = {"spawn", "publish", "worker_crash"}
    MaxServerCrashes = 1
PROPERTIES
    PendingLaunched
    EndedGroupIsPublished
    RefillKeepsGlobalLimit
    WorkflowSettles
CHECK_DEADLOCK FALSE
