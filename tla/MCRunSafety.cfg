SPECIFICATION MCSpec
CONSTANTS
    None = None
    Runs = {r1}
    SyncOps = {s1}
    Faults = {"spawn"}
    Hosts = {"server"}
    TreeKill = TRUE
    MaxCrashes = 2
    MaxBeats = 0
    MaxVersion = 0
INVARIANTS
    TypeOK
    AtMostOneExecution
    LeaseAgreement
    VersionIdentifiesState
    RepositoryExclusion
    CancelledHasStopped
PROPERTY ImplementsLifecycle
CHECK_DEADLOCK FALSE
