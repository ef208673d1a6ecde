------------------------------- MODULE MCHosts -------------------------------
(***************************************************************************)
(* Work on other hosts: the activation of SSH profile changes              *)
(* (SSHActivation) and one remote run of either tool (RemoteRun).  They    *)
(* share no state; a behaviour exercises the one in focus.                 *)
(***************************************************************************)
EXTENDS Integers

CONSTANTS
    NumChanges, ActivationFaults, MaxActivationEvents,
    Tools, RemoteFaults, MaxRemoteEvents, MaxCancels

VARIABLES
    focus,
    files, runtime, manifest, tx, request, ack, undo, undoAck, server, coord, up,
    worker, step, abandoned, mishaps,
    tool, status, asked, known, lock, proc, exitOk, ctl, state, result,
    canceller, cancelling, remoteWorker, watcher, broken, cancels, events

Act == INSTANCE SSHActivation WITH
           Faults <- ActivationFaults, MaxEvents <- MaxActivationEvents, events <- mishaps
Rem == INSTANCE RemoteRun WITH
           Faults <- RemoteFaults, MaxEvents <- MaxRemoteEvents,
           request <- cancelling, worker <- remoteWorker

ASSUME HostConstants == Act!ActivationConstants /\ Rem!RemoteConstants

activationState == <<files, runtime, manifest, tx, request, ack, undo, undoAck, server, coord,
                     up, worker, step, abandoned, mishaps>>
remoteState == <<tool, status, asked, known, lock, proc, exitOk, ctl, state, result,
                 canceller, cancelling, remoteWorker, watcher, broken, cancels, events>>
vars == <<focus, activationState, remoteState>>

\* Out of focus one initial state of a component will do.
Init ==
    /\ focus \in {"activation", "remote"}
    /\ Act!Init
    /\ Rem!Init /\ (focus # "remote" => tool = "remote_powershell")

Next ==
    /\ UNCHANGED focus
    /\ \/ focus = "activation" /\ Act!Next /\ UNCHANGED remoteState
       \/ focus = "remote" /\ Rem!Next /\ UNCHANGED activationState

\* The fairness of the two modules, each for the behaviours in its focus: the
\* coordinator, the controllers and the poller keep running, and a server that
\* died is started again.  Nothing makes the command end.
OnActivation(A) == focus = "activation" /\ A
OnRemote(A) == focus = "remote" /\ A
Fairness ==
    /\ WF_activationState(OnActivation(Act!Coordinator))
    /\ WF_activationState(OnActivation(Act!ServerStart))
    /\ WF_remoteState(OnRemote(Rem!Controller)) /\ WF_remoteState(OnRemote(Rem!Canceller))
    /\ WF_remoteState(OnRemote(Rem!Watcher)) /\ WF_remoteState(OnRemote(Rem!ServerStart))

Spec == Init /\ [][Next]_vars /\ Fairness

\* What an activation reports is what its targets contain, the targets change as
\* one unit and a rollback is final (ssh_activation.py, server.py).
ActivationTruthful ==
    [][focus = "activation" =>
          Act!TypeOK' /\ Act!OneUnit' /\ Act!TruthfulOutcome /\ Act!RollbackIsFinal]_activationState

\* Every activation and rollback request is answered, also when the server dies in
\* the middle of it (ssh_activation.py:640-980).
RequestsAnswered == Act!RequestsAnswered

\* What a finished remote run says of its process is true, the host stays locked
\* while the process runs, and a terminal state always has its result
\* (job_worker.py, ssh_watchdog.py, job_manager.py).
RemoteTruthful ==
    focus = "remote" =>
        Rem!TypeOK /\ Rem!VerdictTrue /\ Rem!HostStaysLocked /\ Rem!ResultBeforeState

\* A run that the server adopted after a restart ends when its command has, unless
\* a controller died over it (job_manager.py:763-900).
AdoptedConcludes == Rem!AdoptedConcludes
==============================================================================
