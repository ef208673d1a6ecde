------------------------------ MODULE RemoteRun ------------------------------
(***************************************************************************)
(* One monitored command on a remote host.  The local worker starts a      *)
(* controller there over SSH and follows its markers; the controller runs  *)
(* the command in a process group of its own and keeps state.json and      *)
(* result.json beside it, so that the server can find the command again    *)
(* when worker, connection or server are lost.  Cancellation without a     *)
(* worker sends a second controller, which shares nothing with the first   *)
(* one but these two files and the process.                                *)
(*                                                                         *)
(* The row's update follows its read at once: the window between the two   *)
(* is the subject of DurableRun.  A killed process stays visible in /proc  *)
(* until its parent has reaped it.                                         *)
(***************************************************************************)
EXTENDS Integers

CONSTANTS
    Tools,       \* subset of {"ssh_monitored_command", "remote_powershell"}
    Faults,      \* subset of {"network", "timeout", "watchdog", "memory",
                 \* "worker_error", "worker_crash", "controller_crash",
                 \* "unconfirmed", "transfer", "server_crash"}
    MaxEvents,   \* bound: how many faults happen together
    MaxCancels   \* bound: how often the user cancels

RemoteConstants ==
    /\ Tools \subseteq {"ssh_monitored_command", "remote_powershell"}
    /\ MaxEvents \in Nat /\ MaxCancels \in Nat

Terminal == {"completed", "failed", "cancelled", "timed_out"}
Live     == {"running", "cancellation_pending"}

VARIABLES
    tool,       \* the tool of the run
    status,     \* the run's row
    asked,      \* progress.cancellation_requested_at is set
    known,      \* progress.remote_process names the process
    lock,       \* the run holds the lock of its host
    proc,       \* the remote process: none, running, zombie, reaped
    exitOk,     \* it ended with return code 0
    ctl,        \* the start controller: pc, its copy of the state, enforced
    state,      \* authoritative_state in state.json
    result,     \* authoritative_state in result.json
    canceller,  \* the cancellation controller
    request,    \* the thread in cancel_run
    worker,     \* pc, link, markers seen, reason, confirmed, progress it read
    watcher,    \* startup reconciliation and its poller
    broken,     \* history: a controller died, its files stay as they are
    cancels, events

vars == <<tool, status, asked, known, lock, proc, exitOk, ctl, state, result,
          canceller, request, worker, watcher, broken, cancels, events>>
rowVars    == <<tool, status, asked, known, lock>>
procVars   == <<proc, exitOk>>
fileVars   == <<state, result>>
serverVars == <<request, watcher>>

Fault(kind) == kind \in Faults /\ events < MaxEvents /\ events' = events + 1
NoFault == UNCHANGED events

----
(***************************************************************************)
(* The remote host: the command and _start_controller_source.              *)
(***************************************************************************)

Kill == IF proc = "running" THEN proc' = "zombie" /\ exitOk' = FALSE
        ELSE UNCHANGED procVars

\* the command is spawned before the state file exists
Spawn ==
    /\ ctl.pc = "spawn"
    /\ proc' = "running"
    /\ ctl' = [ctl EXCEPT !.pc = "record"]
    /\ UNCHANGED <<rowVars, exitOk, fileVars, canceller, serverVars, worker, broken, cancels, events>>

RecordRunning ==
    /\ ctl.pc = "record"
    /\ state' = "running"
    /\ ctl' = [ctl EXCEPT !.pc = "announce"]
    /\ UNCHANGED <<rowVars, procVars, result, canceller, serverVars, worker, broken, cancels, events>>

\* The start marker; without its link the controller ends over it, or goes on when
\* the host has not noticed yet.
Announce ==
    /\ ctl.pc = "announce"
    /\ \/ /\ worker' = IF worker.link THEN [worker EXCEPT !.started = TRUE] ELSE worker
          /\ ctl' = [ctl EXCEPT !.pc = "loop"]
          /\ UNCHANGED broken
       \/ /\ ~worker.link
          /\ ctl' = [ctl EXCEPT !.pc = "gone"] /\ broken' = TRUE
          /\ UNCHANGED worker
    /\ UNCHANGED <<rowVars, procVars, fileVars, canceller, serverVars, cancels, events>>

CommandExits ==
    /\ proc = "running"
    /\ proc' = "zombie"
    /\ exitOk' \in BOOLEAN
    /\ UNCHANGED <<rowVars, ctl, fileVars, canceller, serverVars, worker, broken, cancels, events>>

\* poll() reaps a process that has ended.
Poll ==
    /\ ctl.pc = "loop"
    /\ \/ proc = "zombie" /\ proc' = "reaped" /\ ctl' = [ctl EXCEPT !.pc = "result"]
       \/ proc = "running" /\ ctl' = [ctl EXCEPT !.pc = "beat"] /\ UNCHANGED proc
    /\ UNCHANGED <<rowVars, exitOk, fileVars, canceller, serverVars, worker, broken, cancels, events>>

\* A heartbeat writes the controller's own copy of the state; it may find the
\* memory above its limit.  Finding it below forgets an earlier enforcement.
Beat ==
    /\ ctl.pc = "beat"
    /\ state' = ctl.copy
    /\ \/ ctl' = [ctl EXCEPT !.pc = "loop", !.enforced = FALSE] /\ NoFault
       \/ ctl' = [ctl EXCEPT !.pc = "enforce"] /\ Fault("memory")
    /\ UNCHANGED <<rowVars, procVars, result, canceller, serverVars, worker, broken, cancels>>

RecordDecision ==
    /\ ctl.pc = "enforce"
    /\ state' = "cancellation_pending"
    /\ ctl' = [ctl EXCEPT !.pc = "terminate", !.copy = "cancellation_pending"]
    /\ UNCHANGED <<rowVars, procVars, result, canceller, serverVars, worker, broken, cancels, events>>

EnforceMemory ==
    /\ ctl.pc = "terminate"
    /\ Kill
    /\ ctl' = [ctl EXCEPT !.pc = "outcome"]
    /\ UNCHANGED <<rowVars, fileVars, canceller, serverVars, worker, broken, cancels, events>>

RecordEnforcement ==
    /\ ctl.pc = "outcome"
    /\ state' = "cancellation_pending"
    /\ ctl' = [ctl EXCEPT !.pc = "loop", !.enforced = TRUE]
    /\ UNCHANGED <<rowVars, procVars, result, canceller, serverVars, worker, broken, cancels, events>>

Verdict == IF exitOk /\ ~ctl.enforced THEN "completed" ELSE "failed"

WriteResult ==
    /\ ctl.pc = "result"
    /\ result' = Verdict
    /\ ctl' = [ctl EXCEPT !.pc = "state"]
    /\ UNCHANGED <<rowVars, procVars, state, canceller, serverVars, worker, broken, cancels, events>>

WriteState ==
    /\ ctl.pc = "state"
    /\ state' = Verdict
    /\ ctl' = [ctl EXCEPT !.pc = "goodbye"]
    /\ UNCHANGED <<rowVars, procVars, result, canceller, serverVars, worker, broken, cancels, events>>

\* The exit marker, and the end of the controller.
Goodbye ==
    /\ ctl.pc = "goodbye"
    /\ worker' = IF worker.link THEN [worker EXCEPT !.exited = TRUE] ELSE worker
    /\ ctl' = [ctl EXCEPT !.pc = "gone"]
    /\ UNCHANGED <<rowVars, procVars, fileVars, canceller, serverVars, broken, cancels, events>>

ControllerDies ==
    /\ ctl.pc \notin {"off", "spawn", "gone"} /\ Fault("controller_crash")
    /\ ctl' = [ctl EXCEPT !.pc = "gone"]
    /\ broken' = TRUE
    /\ UNCHANGED <<rowVars, procVars, fileVars, canceller, serverVars, worker, cancels>>

\* An orphan is reaped by init.
InitReaps ==
    /\ ctl.pc = "gone" /\ proc = "zombie"
    /\ proc' = "reaped"
    /\ UNCHANGED <<rowVars, exitOk, ctl, fileVars, canceller, serverVars, worker, broken, cancels, events>>

Controller == Spawn \/ RecordRunning \/ Announce \/ Poll \/ Beat
              \/ RecordDecision \/ EnforceMemory \/ RecordEnforcement \/ WriteResult \/ WriteState \/ Goodbye \/ InitReaps

----
(***************************************************************************)
(* The remote host: _cancellation_controller_source.                       *)
(***************************************************************************)

\* The request is persisted on top of whatever state.json says now.
PersistRequest ==
    /\ canceller = "request"
    /\ \/ state # "none" /\ state' = "cancellation_pending" /\ canceller' = "signal"
       \/ state = "none" /\ canceller' = "failed" /\ UNCHANGED state
    /\ UNCHANGED <<rowVars, procVars, ctl, result, serverVars, worker, broken, cancels, events>>

Signal ==
    /\ canceller = "signal"
    /\ Kill
    /\ canceller' = "wait"
    /\ UNCHANGED <<rowVars, ctl, fileVars, serverVars, worker, broken, cancels, events>>

Gone == proc \in {"none", "reaped"}

\* The process is gone, or still there when the last deadline has passed.
AwaitGone ==
    /\ canceller = "wait"
    /\ \/ Gone /\ canceller' = "result" /\ NoFault /\ UNCHANGED broken
       \/ /\ ~Gone /\ Fault("unconfirmed")
          /\ canceller' = "failed"
          /\ broken' = TRUE
    /\ UNCHANGED <<rowVars, procVars, ctl, fileVars, serverVars, worker, cancels>>

WriteCancelled ==
    /\ canceller \in {"result", "state"}
    /\ \/ /\ canceller = "result"
          /\ result' = "cancelled" /\ canceller' = "state" /\ UNCHANGED state
       \/ /\ canceller = "state"
          /\ state' = "cancelled" /\ canceller' = "done" /\ UNCHANGED result
    /\ UNCHANGED <<rowVars, procVars, ctl, serverVars, worker, broken, cancels, events>>

CancellerDies ==
    /\ canceller \in {"request", "signal", "wait", "result", "state"}
    /\ Fault("controller_crash")
    /\ canceller' = "failed"
    /\ broken' = TRUE
    /\ UNCHANGED <<rowVars, procVars, ctl, fileVars, serverVars, worker, cancels>>

Canceller == PersistRequest \/ Signal \/ AwaitGone \/ WriteCancelled

----
(***************************************************************************)
(* The worker: start_monitored_ssh_command and its two callers.            *)
(***************************************************************************)

Attached == worker.pc = "attached"

\* A cancellation that came first prevents the launch.
Launch ==
    /\ worker.pc = "launch"
    /\ IF asked THEN worker' = [worker EXCEPT !.pc = "publish", !.reason = "cancelled",
                                              !.confirmed = TRUE]
                     /\ UNCHANGED ctl
       ELSE /\ worker' = [worker EXCEPT !.pc = "attached", !.link = TRUE]
            /\ ctl' = [ctl EXCEPT !.pc = "spawn"]
    /\ UNCHANGED <<rowVars, procVars, fileVars, canceller, serverVars, broken, cancels, events>>

\* on_progress reads the progress and writes all of it back.
ReadProgress ==
    /\ Attached /\ worker.read = "none" /\ worker.started /\ ~known
    /\ worker' = [worker EXCEPT !.read = IF asked THEN "asked" ELSE "clear"]
    /\ UNCHANGED <<rowVars, procVars, ctl, fileVars, canceller, serverVars, broken, cancels, events>>

WriteProgress ==
    /\ Attached /\ worker.read # "none"
    /\ known' = TRUE /\ asked' = (worker.read = "asked")
    /\ watcher' = [watcher EXCEPT !.fresh = FALSE]
    /\ worker' = [worker EXCEPT !.read = "none"]
    /\ UNCHANGED <<tool, status, lock, procVars, ctl, fileVars, canceller, request, broken, cancels, events>>

\* One turn of the loop: cancellation, timeout, watchdog breaches in a row, in
\* this order of precedence.
Notice ==
    /\ Attached
    /\ \/ /\ asked /\ worker.reason # "cancelled"
          /\ worker' = [worker EXCEPT !.reason = "cancelled"] /\ NoFault
       \/ /\ worker.reason \in {"none", "failed"} /\ Fault("timeout")
          /\ worker' = [worker EXCEPT !.reason = "timed_out"]
       \/ /\ worker.reason = "none" /\ worker.started /\ tool = "ssh_monitored_command"
          /\ Fault("watchdog") /\ worker' = [worker EXCEPT !.reason = "failed"]
    /\ UNCHANGED <<rowVars, procVars, ctl, fileVars, canceller, serverVars, broken, cancels>>

\* terminate_remote_process_group, as soon as the identity is known; tried again
\* when the end of the process was not seen.
Terminate ==
    /\ Attached /\ worker.reason # "none" /\ worker.started
    /\ Kill
    /\ worker' = [worker EXCEPT !.pc = "confirm"]
    /\ UNCHANGED <<rowVars, ctl, fileVars, canceller, serverVars, broken, cancels, events>>

ConfirmTermination ==
    /\ worker.pc = "confirm"
    /\ \/ /\ Gone /\ NoFault
          /\ worker' = [worker EXCEPT !.pc = "publish", !.confirmed = TRUE, !.link = FALSE]
       \/ /\ Fault("unconfirmed")
          /\ worker' = [worker EXCEPT !.pc = "attached"]
    /\ UNCHANGED <<rowVars, procVars, ctl, fileVars, canceller, serverVars, broken, cancels>>

\* The local ssh process ends with the controller, or with the connection.
SshEnds ==
    /\ Attached /\ worker.read = "none"
    /\ \/ ctl.pc = "gone" /\ NoFault
       \/ Fault("network")
    /\ worker' = [worker EXCEPT !.pc = "publish", !.link = FALSE,
                                !.confirmed = worker.started /\ worker.exited]
    /\ UNCHANGED <<rowVars, procVars, ctl, fileVars, canceller, serverVars, broken, cancels>>

\* The verdict: nothing ends a run whose remote process may still be there.
Outcome ==
    CASE ~worker.confirmed -> "cancellation_pending"
      [] worker.confirmed /\ worker.reason # "none" -> worker.reason
      [] worker.confirmed /\ worker.reason = "none" ->
             IF exitOk THEN "completed" ELSE "failed"

Accepts(outcome) ==
    \/ status = "running"
    \/ /\ status = "cancellation_pending" /\ tool = "ssh_monitored_command"
       /\ outcome \in {"cancelled", "timed_out"}

\* mutant: a worker that ends always gives the lock back
ReleaseAlways == lock' = FALSE

\* the finally clause of execute
ReleaseUnlessPending == lock' = (lock /\ status' = "cancellation_pending")

\* Other updates of the row make what the watcher has read stale.
Saved(new) ==
    /\ status' = new
    /\ watcher' = [watcher EXCEPT !.fresh = FALSE]

\* The result of the run; what the row does not accept any more is dropped.
Publish ==
    /\ worker.pc = "publish"
    /\ IF Accepts(Outcome) THEN Saved(Outcome) ELSE UNCHANGED <<status, watcher>>
    /\ ReleaseUnlessPending
    /\ worker' = [worker EXCEPT !.pc = "gone"]
    /\ UNCHANGED <<tool, asked, known, procVars, ctl, fileVars, canceller, request, broken, cancels, events>>

\* The except clause: an error with a known remote process is not an end.
Fails ==
    /\ \/ Attached /\ worker.read = "none" /\ Fault("worker_error")
       \/ /\ worker.pc = "publish" /\ tool = "remote_powershell" /\ Fault("transfer")
    /\ IF status = "running"
       THEN Saved(IF tool = "ssh_monitored_command" /\ known THEN "cancellation_pending"
                  ELSE "failed")
       ELSE UNCHANGED <<status, watcher>>
    /\ ReleaseUnlessPending
    /\ worker' = [worker EXCEPT !.pc = "gone", !.link = FALSE]
    /\ UNCHANGED <<tool, asked, known, procVars, ctl, fileVars, canceller, request, broken, cancels>>

WorkerDies ==
    /\ worker.pc \in {"launch", "attached", "confirm", "publish"} /\ Fault("worker_crash")
    /\ worker' = [worker EXCEPT !.pc = "gone", !.link = FALSE]
    /\ UNCHANGED <<rowVars, procVars, ctl, fileVars, canceller, serverVars, broken, cancels>>

Worker == Launch \/ ReadProgress \/ WriteProgress \/ Notice \/ Terminate
          \/ ConfirmTermination \/ SshEnds \/ Publish

----
(***************************************************************************)
(* The server: cancel_run, startup reconciliation and its poller.          *)
(***************************************************************************)

\* With an attached worker the request is recorded for it; without one, and with
\* a known process, the cancellation controller is sent.
Cancel ==
    /\ watcher.up /\ request = "idle" /\ cancels < MaxCancels
    /\ status \notin Terminal \cup {"cancellation_pending"}
    /\ Saved("cancellation_pending")
    /\ asked' = TRUE
    /\ canceller \in {"off", "done", "failed"}  \* bound: one such controller at a time
    /\ IF worker.pc = "gone" /\ known
       THEN request' = "sent" /\ canceller' = "request"
       ELSE UNCHANGED <<request, canceller>>
    /\ cancels' = cancels + 1
    /\ UNCHANGED <<tool, known, lock, procVars, ctl, fileVars, worker, broken, events>>

\* finish_cancel after a confirmed termination; a lost answer confirms nothing.
FinishCancel ==
    /\ request = "sent"
    /\ \/ /\ canceller = "done" /\ NoFault
          /\ IF status = "cancellation_pending"
             THEN Saved("cancelled") /\ lock' = FALSE
             ELSE /\ UNCHANGED <<status, watcher>>
                  /\ lock' = (lock /\ status \notin Terminal)
       \/ /\ \/ canceller = "failed" /\ NoFault
             \/ Fault("network")
          /\ UNCHANGED <<status, watcher, lock>>
    /\ request' = "idle"
    /\ UNCHANGED <<tool, asked, known, procVars, ctl, fileVars, canceller, worker, broken, cancels>>

\* _reconcile_run: the row, then the probe.  A verified worker is left alone.
Look ==
    /\ watcher.up /\ watcher.pc = "look"
    /\ IF status \in Terminal \/ worker.pc # "gone"
       THEN watcher' = [watcher EXCEPT !.pc = "off"]
       ELSE watcher' = [watcher EXCEPT !.pc = "probe", !.fresh = TRUE]
    /\ UNCHANGED <<rowVars, procVars, ctl, fileVars, canceller, request, worker, broken, cancels, events>>

\* state.json, or nothing when the host did not answer
Probe ==
    /\ watcher.up /\ watcher.pc = "probe"
    /\ \/ watcher' = [watcher EXCEPT !.pc = "apply", !.seen = state] /\ NoFault
       \/ watcher' = [watcher EXCEPT !.pc = "apply", !.seen = "none"] /\ Fault("network")
    /\ UNCHANGED <<rowVars, procVars, ctl, fileVars, canceller, request, worker, broken, cancels>>

\* mutant: a lost conditional update ends the poller
PollsFresh(adopted) == watcher.fresh /\ adopted

Polls(adopted) == watcher.polling \/ (watcher.fresh /\ adopted)

\* The conditional update; a live controller is adopted and polled from then on.
Apply ==
    /\ watcher.up /\ watcher.pc = "apply"
    /\ LET adopted == watcher.seen \in Live
           polling == Polls(adopted)
       IN /\ \/ ~watcher.fresh /\ UNCHANGED <<status, lock, known>>
             \/ /\ watcher.fresh /\ watcher.seen \in Terminal
                /\ status' = watcher.seen /\ lock' = FALSE
                /\ UNCHANGED known
             \/ /\ watcher.fresh /\ watcher.seen \notin Terminal
                /\ status' = "recovery_pending"
                /\ known' = (known \/ adopted)
                /\ UNCHANGED lock
          /\ watcher' = [watcher EXCEPT !.pc = IF polling THEN "look" ELSE "off",
                                        !.polling = polling, !.seen = "none"]
    /\ UNCHANGED <<tool, asked, procVars, ctl, fileVars, canceller, request, worker, broken, cancels, events>>

ServerCrash ==
    /\ watcher.up /\ Fault("server_crash")
    /\ watcher' = [watcher EXCEPT !.up = FALSE, !.pc = "off", !.polling = FALSE, !.seen = "none"]
    /\ request' = "idle"
    /\ UNCHANGED <<rowVars, procVars, ctl, fileVars, canceller, worker, broken, cancels>>

ServerStart ==
    /\ ~watcher.up
    /\ watcher' = [watcher EXCEPT !.up = TRUE, !.pc = "look"]
    /\ UNCHANGED <<rowVars, procVars, ctl, fileVars, canceller, request, worker, broken, cancels, events>>

Watcher == Look \/ Probe \/ Apply

----
Init ==
    /\ tool \in Tools
    /\ status = "running" /\ asked = FALSE /\ known = FALSE /\ lock = TRUE
    /\ proc = "none" /\ exitOk = FALSE
    /\ ctl = [pc |-> "off", copy |-> "running", enforced |-> FALSE]
    /\ state = "none" /\ result = "none"
    /\ canceller = "off" /\ request = "idle"
    /\ worker = [pc |-> "launch", link |-> FALSE, started |-> FALSE, exited |-> FALSE,
                 reason |-> "none", confirmed |-> FALSE, read |-> "none"]
    /\ watcher = [up |-> TRUE, pc |-> "off", fresh |-> FALSE, seen |-> "none",
                  polling |-> FALSE]
    /\ broken = FALSE /\ cancels = 0 /\ events = 0

Next ==
    \/ Controller \/ CommandExits \/ ControllerDies
    \/ Canceller \/ CancellerDies
    \/ Worker \/ Fails \/ WorkerDies
    \/ Cancel \/ FinishCancel
    \/ Watcher \/ ServerCrash \/ ServerStart

Spec == Init /\ [][Next]_vars

\* Controllers and the poller keep running; a server that died is started again.
\* Nothing makes the command end.
FairSpec == Spec /\ WF_vars(Controller) /\ WF_vars(Canceller) /\ WF_vars(Watcher)
                 /\ WF_vars(ServerStart)

----
(***************************************************************************)
(* Properties.                                                             *)
(***************************************************************************)

Files == {"none", "running", "cancellation_pending", "completed", "failed", "cancelled"}

\* Every component keeps its shape.
TypeOK ==
    /\ tool \in Tools
    /\ status \in Terminal \cup {"running", "cancellation_pending", "recovery_pending"}
    /\ asked \in BOOLEAN /\ known \in BOOLEAN /\ lock \in BOOLEAN
    /\ proc \in {"none", "running", "zombie", "reaped"} /\ exitOk \in BOOLEAN
    /\ ctl \in [pc : {"off", "spawn", "record", "announce", "loop", "beat", "enforce",
                      "terminate", "outcome", "result", "state", "goodbye", "gone"},
                copy : Live, enforced : BOOLEAN]
    /\ state \in Files /\ result \in Files \ Live
    /\ canceller \in {"off", "request", "signal", "wait", "result", "state", "done", "failed"}
    /\ request \in {"idle", "sent"}
    /\ worker \in [pc : {"launch", "attached", "confirm", "publish", "gone"}, link : BOOLEAN,
                   started : BOOLEAN, exited : BOOLEAN,
                   reason : {"none", "cancelled", "timed_out", "failed"},
                   confirmed : BOOLEAN, read : {"none", "clear", "asked"}]
    /\ watcher \in [up : BOOLEAN, pc : {"off", "look", "probe", "apply"}, fresh : BOOLEAN,
                    seen : Files, polling : BOOLEAN]
    /\ broken \in BOOLEAN
    /\ cancels \in 0..MaxCancels /\ events \in 0..MaxEvents

\* A failed run whose process was never recorded, or whose artifacts could not
\* be fetched: the only runs that end before their process does.
Unproven == status = "failed" /\ (~known \/ tool = "remote_powershell")

\* What a finished run says of the remote process is true, whoever finished it:
\* the worker, the cancelling thread or the reconciliation after a restart.
VerdictTrue ==
    /\ status = "completed" => proc \in {"zombie", "reaped"} /\ exitOk
    /\ status \in Terminal /\ ~Unproven => proc # "running"

\* As long as the command runs no other run gets the host.
HostStaysLocked == proc = "running" /\ ~Unproven => lock

\* A terminal state.json always has its result.json: whoever dies in between,
\* the return code can be read.
ResultBeforeState == state \in Terminal => result \in Terminal

\* A run that the server adopted ends when its command has, unless a controller
\* died over it.
AdoptedConcludes ==
    (watcher.polling /\ proc = "reaped")
    ~> (status \in Terminal \/ ~watcher.up \/ broken)

=============================================================================
