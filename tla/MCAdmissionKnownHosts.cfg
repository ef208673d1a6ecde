SPECIFICATION MCSpec
CONSTANTS
    Kinds = {}
    MaxEvents = 0
    Hosts = {h1, h2}
    Appliers = {c1}
    MaxChanges = 2
    MaxSteps = 4
    MaxFile = 2
    MaxMoves = 5
INVARIANT ActivatedHostsStayKnown
CHECK_DEADLOCK FALSE
