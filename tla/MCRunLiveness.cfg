SPECIFICATION LiveSpec
CONSTANTS
    None = None
    Runs = {r1}
    SyncOps = {}
    Faults = {"worker_crash", "io", "unconfirmed"}
    Hosts = {"server"}
    TreeKill = FALSE
    MaxCrashes = 1
    MaxBeats = 0
    MaxVersion = 0
PROPERTY RestartSettles
CHECK_DEADLOCK FALSE
