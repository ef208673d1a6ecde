SPECIFICATION MCSpec
CONSTANTS
    None = None
    Startup = Startup
    g1 = g1
    c1 = c1
    c2 = c2
    Groups = {g1}
    Children = {c1, c2}
    GroupOf <- OneGroup
    Position <- Line
    Requested <- OneEach
    MaxConcurrent = 2
    CancelRemaining = {g1}
    Clients = {k1, k2}
    Requests = {"child", "group"}
    Exits = {"completed", "failed", "timed_out"}
    Faults = {"launch_race", "spawn"}
    MaxCrashes = 0
SYMMETRY Symmetry
INVARIANTS
    GroupLimit
    GroupsSound
PROPERTY ChildrenAreRuns
CHECK_DEADLOCK FALSE
