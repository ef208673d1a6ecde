SPECIFICATION Spec
CONSTANTS
    NumCalls = 3
    NumHandlers = 1
    ProjectNamed = {2}
    Finished = {3}
    TaskFaults = {"refuse", "lose"}
    MaxUpsets = 2
    NumPaths = 2
    NumPatches = 3
    Existing = {1}
    WriterFaults = {"io", "git", "crash", "user"}
    MaxWriterEvents = 2
    NumRequests = 2
    NumSlots = 1
    MaxReplacements = 8
    Limited = {1}
    ToolLimit = 1
    MaxGeneration = 2
    MaxWorkers = 5
    MaxServiceEvents = 1
INVARIANTS
    TasksSound
    PatchesWhole
    CallsIsolated
PROPERTIES
    TasksMoveOn
    PatchesTruthful
CHECK_DEADLOCK FALSE
