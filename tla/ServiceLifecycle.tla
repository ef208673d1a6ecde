--------------------------- MODULE ServiceLifecycle ---------------------------
(***************************************************************************)
(* One service process after another: the startup reconciliation of        *)
(* server.run_server and what reconciliation_status.py keeps of it for the *)
(* readiness check, and the configuration that is served, reloaded and     *)
(* rolled back (service_reload.py, server.set_config).                     *)
(*                                                                         *)
(* The rows of startup_reconciliation outlive the process; the served      *)
(* configuration and the lifecycle record of service_reload.py do not.     *)
(* What a path reconciles is modelled by the module of its component.      *)
(***************************************************************************)
EXTENDS Integers, Sequences

CONSTANTS
    Callers,    \* requests that reload or roll back
    MaxFile,    \* versions of config.yaml
    MaxMoves    \* bound on starts, faults, edits of config.yaml and calls

VARIABLES
    rows,       \* path -> its state in startup_reconciliation
    attempt,    \* path -> how its latest reconciliation went
    unrecorded, \* the paths whose latest attempt left no row, the store failing
    boot,       \* the startup path that is next or under way, and the phase
    lastOk,     \* what the coordinator loop recorded last in this process
    file,       \* the version in config.yaml; 0: it does not load
    served,     \* server._config
    life,       \* _CONFIG_LIFECYCLE_STATE: active and previous configuration
    call,       \* the reload or rollback an actor has under way
    torn,       \* a call failed or overlapped another since the last set_config
    moves

vars == <<rows, attempt, unrecorded, boot, lastOk, file, served, life, call, torn, moves>>

startup == <<rows, attempt, unrecorded, lastOk>>
configuration == <<served, life, call, torn>>

None == "none"

NoConfig == -1

\* The order in which run_server reconciles.
StartupPaths == <<"ssh_activation", "job_runs", "workflows", "project_scope", "tasks">>

Startup == {StartupPaths[i] : i \in 1..Len(StartupPaths)}

\* The coordinator thread's path reports too, but a start does not wait for it.
Coordinator == "ssh_activation_coordinator"

AllPaths == Startup \union {Coordinator}

Actors == Callers \union {Coordinator}

Idle == [step |-> None, config |-> NoConfig, restart |-> FALSE]

Down == [at |-> 0, phase |-> "down"]

Serving == boot.at > Len(StartupPaths)

Init ==
    /\ rows = [p \in AllPaths |-> None]
    /\ attempt = [p \in AllPaths |-> None]
    /\ unrecorded = {} /\ boot = Down /\ lastOk = None
    /\ file = 1 /\ served = NoConfig /\ life = [active |-> NoConfig, previous |-> NoConfig]
    /\ call = [a \in Actors |-> Idle]
    /\ torn = FALSE /\ moves = 0

Move == moves < MaxMoves /\ moves' = moves + 1

\* A fault takes a move as well.
MoveUnless(normal) == IF normal THEN UNCHANGED moves ELSE Move

----
(* Startup reconciliation.                                                  *)

\* register_active_config: the lifecycle record follows the configuration given.
Registered(config) == [life EXCEPT !.active = config]

\* The configuration is loaded and set before anything is reconciled; one that
\* does not load ends the process.
StartProcess ==
    /\ boot = Down /\ file > 0 /\ Move
    /\ boot' = [at |-> 1, phase |-> "next"]
    /\ served' = file /\ life' = Registered(file)
    /\ UNCHANGED <<rows, attempt, unrecorded, lastOk, file, call, torn>>

\* mutant: the row is written when the work is done, and only then
ClaimedRowLater(p) == rows

\* ReconciliationRecorder.__enter__: the path is claimed before its work begins; a
\* store that fails does not stop the work.
ClaimedRow(p) == [rows EXCEPT ![p] = "running"]

ClaimPath(stored) ==
    /\ boot.phase = "next" /\ ~Serving
    /\ LET p == StartupPaths[boot.at] IN
       /\ attempt' = [attempt EXCEPT ![p] = "begun"]
       /\ rows' = IF stored THEN ClaimedRow(p) ELSE rows
       /\ unrecorded' = IF stored THEN unrecorded \ {p} ELSE unrecorded \union {p}
    /\ boot' = [boot EXCEPT !.phase = "claimed"]
    /\ MoveUnless(stored)
    /\ UNCHANGED <<lastOk, file, configuration>>

\* ReconciliationRecorder.__exit__: the outcome is recorded and an exception goes
\* no further, so the next path runs whatever became of this one.
ResolvePath(ok, stored) ==
    /\ boot.phase = "claimed"
    /\ boot.at = 1 => call[Coordinator] = Idle
    /\ LET p == StartupPaths[boot.at] IN
       /\ attempt' = [attempt EXCEPT ![p] = IF ok THEN "ok" ELSE "failed"]
       /\ rows' = IF stored THEN [rows EXCEPT ![p] = IF ok THEN "ok" ELSE "failed"] ELSE rows
       /\ unrecorded' = IF stored THEN unrecorded \ {p} ELSE unrecorded
    /\ boot' = [at |-> boot.at + 1, phase |-> "next"]
    /\ MoveUnless(ok /\ stored)
    /\ UNCHANGED <<lastOk, file, configuration>>

\* The coordinator thread runs from the end of the first path to the end of the process.
CoordinatorRuns == boot.at > 1

\* _ssh_activation_coordinator_loop: a pass is recorded when it went otherwise than
\* the last one recorded; a row the store refused is not tried again.
CoordinatorPass(ok, stored) ==
    /\ CoordinatorRuns
    /\ LET now == IF ok THEN "ok" ELSE "failed" IN
       /\ attempt' = [attempt EXCEPT ![Coordinator] = now]
       /\ lastOk' = now
       /\ rows' = IF now # lastOk /\ stored THEN [rows EXCEPT ![Coordinator] = now] ELSE rows
       /\ unrecorded' = IF now = lastOk THEN unrecorded
                        ELSE IF stored THEN unrecorded \ {Coordinator}
                        ELSE unrecorded \union {Coordinator}
    /\ MoveUnless(ok /\ stored)
    /\ UNCHANGED <<boot, file, configuration>>

ProcessDies ==
    /\ boot # Down /\ Move
    /\ boot' = Down /\ lastOk' = None /\ served' = NoConfig
    /\ life' = [active |-> NoConfig, previous |-> NoConfig]
    /\ call' = [a \in Actors |-> Idle] /\ torn' = FALSE
    /\ UNCHANGED <<rows, attempt, unrecorded, file>>

----
(* Reloading.                                                               *)

\* The first path and the coordinator after it reload when an activation asks for it;
\* a request needs a server.
MayCall(a) ==
    /\ call[a] = Idle
    /\ IF a = Coordinator THEN CoordinatorRuns \/ boot.phase = "claimed" ELSE Serving

Others(a) == \E b \in Actors \ {a} : call[b] # Idle

Begin(a, c) ==
    /\ call' = [call EXCEPT ![a] = c]
    /\ torn' = (torn \/ Others(a))

\* reload_service: the file is loaded and so validated.  A request may name modules
\* that need a restart; one without "config" validates nothing.
ValidateCandidate(a, withConfig, restart) ==
    /\ MayCall(a) /\ Move
    /\ a = Coordinator => withConfig /\ ~restart
    /\ withConfig => file > 0   \* else load_config raises and nothing has changed
    /\ Begin(a, [step |-> "modules", config |-> IF withConfig THEN file ELSE NoConfig,
                 restart |-> restart])
    /\ UNCHANGED <<startup, boot, file, served, life>>

\* The modules are reloaded, then the validated configuration becomes the active one.
ActivateCandidate(a) ==
    /\ call[a].step = "modules"
    /\ life' = IF call[a].config = NoConfig THEN life
               ELSE [active |-> call[a].config, previous |-> life.active]
    /\ call' = [call EXCEPT ![a] = IF call[a].restart THEN Idle ELSE [Idle EXCEPT !.step = "apply"]]
    /\ torn' = (torn \/ (call[a].restart /\ call[a].config # NoConfig))
    /\ UNCHANGED <<startup, boot, file, served, moves>>

\* apply_reloaded_config: the handler loads the file again; what it finds may differ
\* from what was validated, or not load at all.
ApplyReloaded(a) ==
    /\ call[a].step = "apply"
    /\ IF file > 0
       THEN /\ life' = Registered(file)
            /\ call' = [call EXCEPT ![a] = [Idle EXCEPT !.step = "set", !.config = file]]
            /\ UNCHANGED torn
       ELSE /\ call' = [call EXCEPT ![a] = Idle]
            /\ torn' = TRUE
            /\ UNCHANGED life
    /\ UNCHANGED <<startup, boot, file, served, moves>>

\* rollback_service: the configuration before the last reload becomes active again.
RollbackService(a) ==
    /\ MayCall(a) /\ a # Coordinator /\ life.previous # NoConfig /\ Move
    /\ life' = Registered(life.previous)
    /\ Begin(a, [Idle EXCEPT !.step = "set", !.config = life.previous])
    /\ UNCHANGED <<startup, boot, file, served>>

\* server.set_config: the service answers from this configuration on.
SetConfig(a) ==
    /\ call[a].step = "set"
    /\ served' = call[a].config /\ life' = Registered(call[a].config)
    /\ call' = [call EXCEPT ![a] = Idle]
    /\ torn' = (torn /\ Others(a))
    /\ UNCHANGED <<startup, boot, file, moves>>

EditFile(version) ==
    /\ file # version /\ Move
    /\ file' = version
    /\ UNCHANGED <<startup, boot, configuration>>

Next ==
    \/ StartProcess
    \/ \E stored \in BOOLEAN : ClaimPath(stored)
    \/ \E ok, stored \in BOOLEAN : ResolvePath(ok, stored) \/ CoordinatorPass(ok, stored)
    \/ ProcessDies
    \/ \E a \in Actors :
          \/ \E withConfig, restart \in BOOLEAN : ValidateCandidate(a, withConfig, restart)
          \/ ActivateCandidate(a) \/ ApplyReloaded(a) \/ RollbackService(a) \/ SetConfig(a)
    \/ \E version \in 0..MaxFile : EditFile(version)

----

\* read_status: once anything is recorded, every startup path must be there, and none
\* failed or begun and not finished; a store without rows is healthy.
Ready ==
    \/ \A p \in AllPaths : rows[p] = None
    \/ /\ \A p \in AllPaths : rows[p] \notin {"failed", "running"}
       /\ \A p \in Startup : rows[p] # None

\* The readiness check is never green over a reconciliation that failed or that a
\* dying process left half done, unless the store refused the very row that would
\* say so (reconciliation_status.py:75-206, 209-262; server.py:6479-6550).
ReadinessTruthful ==
    Ready => \A p \in AllPaths : attempt[p] \in {"begun", "failed"} => p \in unrecorded

\* Between calls, what is served is what the lifecycle record calls active, unless
\* a reload ended half way or two calls overlapped (service_reload.py:224-317,
\* server.py:951-955, 4062-4089, 6460-6468).
ConfigSettled ==
    boot # Down /\ ~torn /\ (\A a \in Actors : call[a] = Idle) => served = life.active

==============================================================================
