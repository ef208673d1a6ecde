SPECIFICATION Spec
CONSTANTS
    Callers = {c1, c2}
    MaxCalls = 5
    MaxAgentCalls = 4
    MaxRuns = 3
    MaxLog = 3
    PageLimit = 2
    MaxChunks = 3
    MaxAsks = 4
    Paths = {p1, p2}
    MaxTurns = 4
    MaxGenerations = 3
    MaxMoves = 5
SYMMETRY Symmetry
INVARIANTS
    AgentWorkTruthful
    QueryAnswersTrue
    WikiPagesTruthful
PROPERTIES
    SupervisorTruthful
    ToolsExact
CHECK_DEADLOCK FALSE
