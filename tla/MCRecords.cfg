SPECIFICATION Spec
CONSTANTS
    Callers = {c1, c2}
    SourceTexts = {1, 2}
    Keys = {k1, k2}
    MaxDocuments = 2
    PageSize = 1
    MaxUses = 3
    Ids = {n1, n2}
    Paths = {p1, p2}
    MaxSteps = 4
    Runs = {r1, r2}
    MaxFaults = 3
    MaxAsks = 3
SYMMETRY Symmetry
INVARIANTS
    ResearchTruthful
    NotesSound
    EvidenceKept
PROPERTY ManifestsTruthful
CHECK_DEADLOCK FALSE
