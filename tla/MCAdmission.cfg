SPECIFICATION MCSpec
CONSTANTS
    Kinds = {"ssh_command", "ssh_exec", "ssh_action", "reviewed_script", "root_shell",
             "upload", "download", "deployment", "cloudflare", "rotate", "project",
             "docker", "executable", "fixture"}
    MaxEvents = 4
    Hosts = {h1, h2}
    Appliers = {c1, c2}
    MaxChanges = 2
    MaxSteps = 4
    MaxFile = 2
    MaxMoves = 5
SYMMETRY Symmetry
INVARIANTS
    AcceptedIsExecuted
    ServiceTruthful
PROPERTIES
    CommitsOwnChanges
    HostChangesExact
CHECK_DEADLOCK FALSE
