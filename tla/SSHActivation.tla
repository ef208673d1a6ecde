---------------------------- MODULE SSHActivation ----------------------------
(***************************************************************************)
(* The activation of a previewed SSH profile change.  A durable worker     *)
(* validates the candidate and leaves a request file; the coordinator      *)
(* thread of the server replaces config.yaml, the managed known hosts and  *)
(* the capability pointer, reloads itself and answers with an              *)
(* acknowledgement file; the worker verifies the result and may ask for a  *)
(* rollback the same way.  The two share nothing but these files.          *)
(*                                                                         *)
(* A file's content is the change that wrote it, 0 for the original one.   *)
(***************************************************************************)
EXTENDS Integers, FiniteSets

CONSTANTS
    NumChanges,     \* previewed profile changes, all of one host
    Faults,         \* subset of {"prepare", "post", "timeout", "worker_io",
                    \* "worker_crash", "reload", "server_io", "server_crash"}
    MaxEvents       \* bound: how many faults happen together

Changes  == 1..NumChanges
Contents == 0..NumChanges
Targets  == {"config", "known_hosts", "pointer"}

ActivationConstants == NumChanges \in Nat /\ MaxEvents \in Nat

VARIABLES
    files,      \* the content of every target
    runtime,    \* the configuration the server runs with
    manifest,   \* of every change: status, and the config it was previewed on
    tx,         \* transaction.json: the activation state of every change
    request,    \* changes with an activation_request.json
    ack,        \* activation_ack.json of every change
    undo,       \* changes with a rollback_request.json
    undoAck,    \* rollback_ack.json of every change
    server,     \* server_activation_state.json: status and backups
    coord,      \* what the coordinator thread is doing
    up,         \* the server process runs
    worker,     \* the change whose worker holds the config lock, or 0
    step,       \* where that worker is, and the state it has reached in memory
    abandoned,  \* history: changes whose worker ended before the answer came
    events      \* how many of the bounded events happened

vars == <<files, runtime, manifest, tx, request, ack, undo, undoAck, server,
          coord, up, worker, step, abandoned, events>>
targetVars == <<files, runtime>>
workerVars == <<manifest, tx, request, undo, worker, step, abandoned>>
serverVars == <<ack, undoAck, server, coord, up>>

Resting == [pc |-> "idle", change |-> 0, left |-> {}, errors |-> FALSE, undoing |-> FALSE]

Event == events < MaxEvents /\ events' = events + 1
Fault(kind) == kind \in Faults /\ Event
NoFault == UNCHANGED events

----
(***************************************************************************)
(* The worker: run_ssh_profile_activation.                                 *)
(***************************************************************************)

Preview(c) ==
    /\ manifest[c].status = "none"
    /\ manifest' = [manifest EXCEPT ![c] = [status |-> "previewed", base |-> files["config"]]]
    /\ UNCHANGED <<targetVars, tx, request, undo, worker, step, abandoned, serverVars, events>>

CandidateMaterial(c) ==
    manifest[c].status = "previewed" /\ manifest[c].base = files["config"]

Ended == [at |-> "none", state |-> "none"]
WorkerAt(at) == worker # 0 /\ step.at = at

\* A change that already has a transaction belongs to another run.
StartActivation(c) ==
    /\ worker = 0
    /\ tx[c] = "none" /\ CandidateMaterial(c)
    /\ tx' = [tx EXCEPT ![c] = "SOURCE_RESOLVED"]
    /\ worker' = c /\ step' = [at |-> "prepare", state |-> "SOURCE_RESOLVED"]
    /\ UNCHANGED <<targetVars, manifest, request, undo, abandoned, serverVars, events>>

\* What raises an exception goes on in the except clause.
Raise(state) == step' = [at |-> "except", state |-> state]

\* _set_state: the transaction in memory has the new state before the file has it.
SetState(state, next) ==
    \/ /\ tx' = [tx EXCEPT ![worker] = state]
       /\ step' = [at |-> next, state |-> state]
       /\ NoFault
    \/ Fault("worker_io") /\ Raise(state) /\ UNCHANGED tx

\* A file of the worker that is not the transaction.
WriteFile(at) ==
    \/ step' = [step EXCEPT !.at = at] /\ NoFault
    \/ Fault("worker_io") /\ Raise(step.state)

\* The candidate checks write nothing but the states they have reached.
Prepare ==
    /\ WorkerAt("prepare")
    /\ \/ SetState("PROJECT_BINDINGS_VALIDATED", "request")
       \/ Fault("prepare") /\ Raise("SOURCE_RESOLVED") /\ UNCHANGED tx
    /\ UNCHANGED <<targetVars, manifest, request, undo, worker, abandoned, serverVars>>

WriteRequest ==
    /\ WorkerAt("request")
    /\ WriteFile("staged")
    /\ request' = IF step'.at = "staged" THEN request \cup {worker} ELSE request
    /\ UNCHANGED <<targetVars, manifest, tx, undo, worker, abandoned, serverVars>>

Staged ==
    /\ WorkerAt("staged") /\ SetState("ACTIVATION_STAGED", "await")
    /\ UNCHANGED <<targetVars, manifest, request, undo, worker, abandoned, serverVars>>

TakeAck ==
    /\ WorkerAt("await") /\ ack[worker] # "none"
    /\ \/ ack[worker] = "ok" /\ SetState("CONFIG_ACTIVATED", "post")
       \/ ack[worker] = "restored" /\ SetState("ROLLED_BACK", "report")
       \/ ack[worker] = "unproven" /\ SetState("RECOVERY_REQUIRED", "report")
    /\ UNCHANGED <<targetVars, manifest, request, undo, worker, abandoned, serverVars>>

\* post_activate on the config that is on disk now, which may also not load
PostActivate ==
    /\ WorkerAt("post")
    /\ \/ SetState("POST_ACTIVATION_VERIFIED", "complete")
       \/ Fault("post") /\ Raise(step.state) /\ UNCHANGED tx
    /\ UNCHANGED <<targetVars, manifest, request, undo, worker, abandoned, serverVars>>

\* A verification that fails asks for the rollback; a request that cannot be written
\* ends like a verification that raises.
WriteRollbackRequest ==
    /\ WorkerAt("post")
    /\ Fault("post")
    /\ undo' = undo \cup {worker}
    /\ step' = [step EXCEPT !.at = "rollback"]
    /\ UNCHANGED <<targetVars, manifest, tx, request, worker, abandoned, serverVars>>

RollbackPending ==
    /\ WorkerAt("rollback") /\ SetState("ROLLBACK_PENDING", "await_rollback")
    /\ UNCHANGED <<targetVars, manifest, request, undo, worker, abandoned, serverVars>>

TakeRollbackAck ==
    /\ WorkerAt("await_rollback") /\ undoAck[worker] # "none"
    /\ SetState(IF undoAck[worker] = "ok" THEN "ROLLED_BACK" ELSE "RECOVERY_REQUIRED", "report")
    /\ UNCHANGED <<targetVars, manifest, request, undo, worker, abandoned, serverVars>>

Complete ==
    /\ WorkerAt("complete") /\ SetState("COMPLETED", "publish")
    /\ UNCHANGED <<targetVars, manifest, request, undo, worker, abandoned, serverVars>>

\* A request of c the coordinator has not answered.
Unanswered(c) ==
    \/ c \in request /\ ack[c] = "none"
    \/ c \in undo /\ undoAck[c] = "none"

\* The run ends and the config lock is free.
Leaves ==
    /\ worker' = 0 /\ step' = Ended
    /\ abandoned' = IF Unanswered(worker) THEN abandoned \cup {worker} ELSE abandoned

\* The last write of a run: the result in the transaction and in the manifest.
Publish(at, status) ==
    /\ WorkerAt(at)
    /\ \/ /\ manifest' = [manifest EXCEPT ![worker].status = status]
          /\ Leaves /\ NoFault
       \/ /\ Fault("worker_io") /\ Raise(step.state)
          /\ UNCHANGED <<manifest, worker, abandoned>>
    /\ UNCHANGED <<targetVars, tx, request, undo, serverVars>>

ReportFailed   == Publish("report", "failed")
PublishApplied == Publish("publish", "applied")

\* A wait gives up after its time, however close the answer is.
TimesOut ==
    /\ WorkerAt("await") \/ WorkerAt("await_rollback")
    /\ Fault("timeout") /\ Raise(step.state)
    /\ UNCHANGED <<targetVars, manifest, tx, request, undo, worker, abandoned, serverVars>>

\* the state an exception leads to
OnException(state) ==
    IF state \in {"CONFIG_ACTIVATED", "ROLLBACK_PENDING"} THEN "RECOVERY_REQUIRED"
    ELSE "ROLLED_BACK"

\* The except clause records the end and its result; what it cannot write
\* stays as it was, and the run ends all the same.
Except ==
    /\ WorkerAt("except")
    /\ \/ /\ tx' = [tx EXCEPT ![worker] = OnException(step.state)]
          /\ step' = [at |-> "failed", state |-> OnException(step.state)]
          /\ UNCHANGED <<worker, abandoned>> /\ NoFault
       \/ Fault("worker_io") /\ Leaves /\ UNCHANGED tx
    /\ UNCHANGED <<targetVars, manifest, request, undo, serverVars>>

PublishFailed ==
    /\ WorkerAt("failed")
    /\ \/ manifest' = [manifest EXCEPT ![worker].status = "failed"] /\ NoFault
       \/ Fault("worker_io") /\ UNCHANGED manifest
    /\ Leaves
    /\ UNCHANGED <<targetVars, tx, request, undo, serverVars>>

\* The worker is killed; startup reconciliation ends its run and frees the lock.
WorkerDies ==
    /\ worker # 0 /\ Fault("worker_crash")
    /\ Leaves
    /\ UNCHANGED <<targetVars, manifest, tx, request, undo, serverVars>>

----
(***************************************************************************)
(* The coordinator: reconcile_pending_ssh_activations visits the request   *)
(* directories over and over, one at a time.                               *)
(***************************************************************************)

At(pc) == up /\ coord.pc = pc
This == coord.change

SetServer(s) == server' = [server EXCEPT ![This].status = s]

\* The first visit takes the backups, if the config is still the previewed one.
SnapshotDue(c) ==
    server[c].status # "none" \/ files["config"] = manifest[c].base

\* mutant: an acknowledged activation is not looked at again
NeedsRollbackUnacked(c) == c \in undo /\ undoAck[c] = "none" /\ ack[c] = "none"

NeedsRollback(c)   == c \in undo /\ undoAck[c] = "none"
NeedsActivation(c) == c \in request \ undo /\ ack[c] = "none"

\* Backups and state file, then the branch the visit takes.
Visit(c) ==
    /\ At("idle")
    /\ c \in request /\ SnapshotDue(c)
    /\ server' = IF server[c].status = "none"
                 THEN [server EXCEPT ![c] = [status |-> "snapshotted", backup |-> files]]
                 ELSE server
    /\ \/ /\ NeedsRollback(c)
          /\ coord' = [Resting EXCEPT !.pc = "restore", !.change = c, !.left = Targets,
                                      !.undoing = TRUE]
       \/ /\ NeedsActivation(c)
          /\ coord' = [Resting EXCEPT !.pc = "copy", !.change = c, !.left = Targets]
    /\ UNCHANGED <<targetVars, workerVars, ack, undoAck, up, events>>

NextCopy ==
    CASE "config" \in coord.left -> "config"
      [] "config" \notin coord.left /\ "known_hosts" \in coord.left -> "known_hosts"
      [] coord.left = {"pointer"} -> "pointer"

\* The exception clause of an activation: back to the backups.
Abort == coord' = [coord EXCEPT !.pc = "restore", !.left = Targets]

\* One verified copy; the config also becomes the recorded status.
CopyFile ==
    /\ At("copy") /\ coord.left # {}
    /\ \/ /\ files' = [files EXCEPT ![NextCopy] = This]
          /\ coord' = [coord EXCEPT !.left = @ \ {NextCopy}]
          /\ IF NextCopy = "config" THEN SetServer("config_written") ELSE UNCHANGED server
          /\ NoFault
       \/ /\ Fault("server_io")
          /\ Abort
          /\ UNCHANGED <<files, server>>
    /\ UNCHANGED <<runtime, workerVars, ack, undoAck, up>>

\* The reload, the recorded status and the positive acknowledgement.
ReloadActivated ==
    /\ At("copy") /\ coord.left = {}
    /\ \/ /\ runtime' = files["config"]
          /\ coord' = [coord EXCEPT !.pc = "acknowledge"]
          /\ NoFault
       \/ Fault("reload") /\ Abort /\ UNCHANGED runtime
    /\ UNCHANGED <<files, workerVars, ack, undoAck, server, up>>

Acknowledge ==
    /\ At("acknowledge")
    /\ \/ /\ SetServer("activated")
          /\ ack' = [ack EXCEPT ![This] = "ok"]
          /\ coord' = Resting
          /\ NoFault
       \/ /\ Fault("server_io")
          /\ \/ SetServer("activated")
             \/ UNCHANGED server
          /\ Abort
          /\ UNCHANGED ack
    /\ UNCHANGED <<targetVars, workerVars, undoAck, up>>

RestoreError(f) == [coord EXCEPT !.left = @ \ {f}, !.errors = TRUE]

NextRestore ==
    CASE "pointer" \in coord.left -> "pointer"
      [] "pointer" \notin coord.left /\ "known_hosts" \in coord.left -> "known_hosts"
      [] coord.left = {"config"} -> "config"

\* mutant: the pointer is not part of the restored unit
RestoredWithoutPointer(f) ==
    IF f = "pointer" THEN files[f] ELSE server[This].backup[f]

Restored(f) == server[This].backup[f]

\* _restore_activation_state: an error is noted and the other files restored.
RestoreFile ==
    /\ At("restore") /\ coord.left # {}
    /\ \/ /\ files' = [files EXCEPT ![NextRestore] = Restored(NextRestore)]
          /\ coord' = [coord EXCEPT !.left = @ \ {NextRestore}]
          /\ NoFault
       \/ /\ Fault("server_io")
          /\ coord' = RestoreError(NextRestore)
          /\ UNCHANGED files
    /\ UNCHANGED <<runtime, workerVars, ack, undoAck, server, up>>

\* The server is only reloaded when every file is back.
ReloadRestored ==
    /\ At("restore") /\ coord.left = {}
    /\ \/ /\ ~coord.errors
          /\ runtime' = files["config"]
          /\ coord' = [coord EXCEPT !.pc = "answer"]
          /\ NoFault
       \/ /\ \/ coord.errors /\ NoFault
             \/ ~coord.errors /\ Fault("reload")
          /\ coord' = [coord EXCEPT !.pc = "answer", !.errors = TRUE]
          /\ UNCHANGED runtime
    /\ UNCHANGED <<files, workerVars, ack, undoAck, server, up>>

\* State file, then the acknowledgement; a failure raises and the next visit
\* finds no acknowledgement and starts over.
AnswerRestored ==
    /\ At("answer")
    /\ LET outcome == IF coord.errors THEN "recovery_required" ELSE "rolled_back"
       IN \/ /\ SetServer(outcome)
             /\ IF coord.undoing
                THEN /\ undoAck' = [undoAck EXCEPT ![This] = IF coord.errors THEN "failed" ELSE "ok"]
                     /\ UNCHANGED ack
                ELSE /\ ack' = [ack EXCEPT ![This] = IF coord.errors THEN "unproven" ELSE "restored"]
                     /\ UNCHANGED undoAck
             /\ NoFault
          \/ /\ Fault("server_io")
             /\ \/ SetServer(outcome)
                \/ UNCHANGED server
             /\ UNCHANGED <<ack, undoAck>>
    /\ coord' = Resting
    /\ UNCHANGED <<targetVars, workerVars, up>>

ServerCrash ==
    /\ up /\ Fault("server_crash")
    /\ up' = FALSE
    /\ coord' = Resting
    /\ UNCHANGED <<targetVars, workerVars, ack, undoAck, server>>

\* run_server loads the config and reconciles the pending requests first.
ServerStart ==
    /\ ~up
    /\ up' = TRUE
    /\ runtime' = files["config"]
    /\ UNCHANGED <<files, workerVars, ack, undoAck, server, coord, events>>

----
Init ==
    /\ files = [f \in Targets |-> 0] /\ runtime = 0
    /\ manifest = [c \in Changes |-> [status |-> "none", base |-> 0]]
    /\ tx = [c \in Changes |-> "none"]
    /\ request = {} /\ undo = {}
    /\ ack = [c \in Changes |-> "none"] /\ undoAck = [c \in Changes |-> "none"]
    /\ server = [c \in Changes |-> [status |-> "none", backup |-> [f \in Targets |-> 0]]]
    /\ coord = Resting /\ up = TRUE
    /\ worker = 0 /\ step = Ended /\ abandoned = {} /\ events = 0

Coordinator ==
    \/ \E c \in Changes : Visit(c)
    \/ CopyFile \/ ReloadActivated \/ Acknowledge
    \/ RestoreFile \/ ReloadRestored \/ AnswerRestored

Worker ==
    \/ Prepare \/ WriteRequest \/ Staged \/ TakeAck
    \/ PostActivate \/ WriteRollbackRequest \/ RollbackPending \/ TakeRollbackAck
    \/ Complete \/ ReportFailed \/ PublishApplied
    \/ TimesOut \/ Except \/ PublishFailed

Next ==
    \/ \E c \in Changes : Preview(c) \/ StartActivation(c)
    \/ Worker \/ WorkerDies
    \/ Coordinator
    \/ ServerCrash \/ ServerStart

Spec == Init /\ [][Next]_vars

\* The coordinator's loop runs as long as the server does, and a server that
\* died is started again.
FairSpec == Spec /\ WF_vars(Coordinator) /\ WF_vars(ServerStart)

----
(***************************************************************************)
(* Properties.                                                             *)
(***************************************************************************)

TxStates == {"none", "SOURCE_RESOLVED", "PROJECT_BINDINGS_VALIDATED", "ACTIVATION_STAGED",
             "CONFIG_ACTIVATED", "POST_ACTIVATION_VERIFIED", "COMPLETED",
             "ROLLBACK_PENDING", "ROLLED_BACK", "RECOVERY_REQUIRED"}
ServerStates == {"none", "snapshotted", "config_written", "activated",
                 "rolled_back", "recovery_required"}
WorkerSteps == {"none", "prepare", "request", "staged", "await", "post", "rollback",
                "await_rollback", "complete", "publish", "report", "except", "failed"}
CoordStates == {"idle", "copy", "acknowledge", "restore", "answer"}

\* Every component keeps its shape.
TypeOK ==
    /\ files \in [Targets -> Contents] /\ runtime \in Contents
    /\ manifest \in [Changes -> [status : {"none", "previewed", "failed", "applied"},
                                 base : Contents]]
    /\ tx \in [Changes -> TxStates]
    /\ request \in SUBSET Changes /\ undo \in SUBSET Changes
    /\ ack \in [Changes -> {"none", "ok", "restored", "unproven"}]
    /\ undoAck \in [Changes -> {"none", "ok", "failed"}]
    /\ server \in [Changes -> [status : ServerStates, backup : [Targets -> Contents]]]
    /\ coord \in [pc : CoordStates, change : Contents, left : SUBSET Targets,
                  errors : BOOLEAN, undoing : BOOLEAN]
    /\ up \in BOOLEAN
    /\ worker \in Contents /\ step \in [at : WorkerSteps, state : TxStates]
    /\ abandoned \in SUBSET Changes
    /\ events \in 0..MaxEvents

Becomes(c, state) == tx[c] # state /\ tx'[c] = state

Nowhere(c) == (\A f \in Targets : files[f] # c) /\ (up => runtime # c)

\* The except clause takes any change that is not active or on its way back to be
\* rolled back: its worker stopped waiting, or could not write what it was told.
Presumed == /\ step.at = "except"
            /\ step.state \in {"ACTIVATION_STAGED", "POST_ACTIVATION_VERIFIED", "COMPLETED",
                               "RECOVERY_REQUIRED"}

\* What the transaction reports is what the targets contain: a completed change
\* is in all of them and in the running server, a rolled back one in none.  Where
\* the except clause presumes the rollback the record may be wrong; then the
\* request is still open or the answer of the server says what became of it.
TruthfulOutcome == \A c \in Changes : abandoned = {} =>
    /\ Becomes(c, "COMPLETED") =>
           (\A f \in Targets : files[f] = c) /\ (up => runtime = c)
    /\ Becomes(c, "ROLLED_BACK") =>
           \/ Nowhere(c)
           \/ /\ Presumed
              /\ Unanswered(c) \/ (ack[c] \in {"ok", "unproven"} /\ undoAck[c] # "ok")

Settled(c) ==
    /\ server[c].status # "none" => ack[c] # "none"
    /\ ~NeedsRollback(c)

\* The targets change as one unit: when nothing is pending they all carry the
\* same change, and the server runs with it, unless a rollback was reported as
\* unproven or a worker left an activation behind that meets the next one.
OneUnit ==
    (/\ up /\ coord.pc = "idle" /\ abandoned = {}
     /\ \A c \in Changes : Settled(c) /\ server[c].status # "recovery_required")
    => \A f \in Targets : files[f] = files["config"] /\ runtime = files["config"]

\* A verified rollback is final: a change that was rolled back does not come
\* back, whatever the server finds when it visits the directory again.
RollbackIsFinal ==
    abandoned' = {} => \A c \in Changes :
        (ack[c] = "restored" \/ undoAck[c] = "ok") =>
            \A f \in Targets : files'[f] = c => files[f] = c

\* Every request is answered, also when the server dies in the middle of it.
RequestsAnswered ==
    []<>(\/ abandoned # {}
         \/ \A c \in Changes : /\ c \in request => ack[c] # "none"
                               /\ c \in undo => undoAck[c] # "none")

=============================================================================
