SPECIFICATION FairSpec
CONSTANTS
    None = None
    Runs = {r1}
    SyncOps = {}
    Faults = {}
    Hosts = {"server"}
    TreeKill = TRUE
    MaxCrashes = 1
    MaxBeats = 0
    MaxVersion = 0
PROPERTY LockReleasedOnlyWhenTerminal
CHECK_DEADLOCK FALSE
