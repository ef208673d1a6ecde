SPECIFICATION Spec
CONSTANTS
    NumChanges = 2
    ActivationFaults = {"prepare", "post", "timeout", "worker_io", "worker_crash", "reload", "server_io", "server_crash"}
    MaxActivationEvents = 4
    Tools = {"ssh_monitored_command", "remote_powershell"}
    RemoteFaults = {"network", "timeout", "watchdog", "memory", "worker_error", "worker_crash", "controller_crash", "unconfirmed", "transfer", "server_crash"}
    MaxRemoteEvents = 2
    MaxCancels = 2
INVARIANT RemoteTruthful
PROPERTIES
    ActivationTruthful
    RequestsAnswered
    AdoptedConcludes
CHECK_DEADLOCK FALSE
