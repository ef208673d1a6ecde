----------------------------- MODULE DurableRun -----------------------------
(***************************************************************************)
(* The durable run engine: the run store's conditional updates, the        *)
(* repository operation lock, the launching threads, the detached worker   *)
(* processes, cancellation, and the server's crash, restart and startup    *)
(* reconciliation.                                                         *)
(*                                                                         *)
(* Every actor works on two rows of one SQLite database, and every step    *)
(* below is one database transaction together with the process operations  *)
(* that precede the actor's next read or write of the database.  A thread  *)
(* that reads a row and later updates it conditionally does so in two      *)
(* steps and keeps the row it read in `snap'.                              *)
(*                                                                         *)
(* Abstractions.                                                           *)
(*  - A lease token and its generation are always written together (by     *)
(*    create_run and reserve_next_launch), so one number, the lease,       *)
(*    stands for both; the token is unique, so is the lease of a run.      *)
(*  - launcher_pid, worker_pid and pid are cleared when the lease changes  *)
(*    and are only written under the current lease, so each is a Boolean:  *)
(*    "the process of the current lease is recorded".  The process that    *)
(*    the launcher spawned is the worker process.  A PID is not reused.    *)
(*  - heartbeat_at is only ever compared together with state_version, so   *)
(*    hb counts the heartbeats written since the version last changed.     *)
(*  - One repository: no operation touches two rows of operation_locks.    *)
(***************************************************************************)
EXTENDS Naturals

CONSTANTS
    Runs,        \* run ids a client may start
    SyncOps,     \* synchronous operations that take the same lock
    None,        \* no owner
    Faults,      \* the failures and races that may happen
    Hosts,       \* processes that launch and cancel: the server, another one
    TreeKill,    \* killing a worker kills its child (taskkill /T), or not
    MaxCrashes,  \* bound: how often the server process may die
    MaxBeats,    \* bound: heartbeats of a run while its version stands still
    MaxVersion   \* bound: a publication fails only below this state_version

AllFaults == {"spawn", "io", "publish", "unconfirmed", "worker_crash",
              "host_crash", "acquire_race"}

ASSUME OwnersAssumption == None \notin Runs \cup SyncOps /\ Runs \cap SyncOps = {}
ASSUME FaultsAssumption == Faults \subseteq AllFaults
ASSUME HostsAssumption == Hosts \subseteq {"server", "other"}
ASSUME TreeKillAssumption == TreeKill \in BOOLEAN
ASSUME BoundsAssumption == {MaxCrashes, MaxBeats, MaxVersion} \subseteq Nat

Owners == Runs \cup SyncOps
MaxLaunchAttempts == 2
Leases == 1..(MaxLaunchAttempts + 1)

Terminal == {"completed", "failed", "cancelled", "timed_out"}
Recoverable == {"launch_pending", "queued", "running",
                "cancellation_pending", "recovery_pending"}
Statuses == {"none"} \cup Recoverable \cup Terminal
Phases == {"none", "launch_pending", "queued", "worker", "executable",
           "cancellation_pending", "recovery_pending", "result"}

VARIABLES
    run,       \* the runs table
    lock,      \* the repository's row of operation_locks
    thread,    \* the thread that launches each run, or runs a sync operation
    worker,    \* the worker process of each lease, and its child process
    canceller, \* the thread that cancels each run
    server,    \* the server process and its startup reconciliation
    listed     \* the rows reconcile_startup read up front

vars == <<run, lock, thread, worker, canceller, server, listed>>

NoRow == [status |-> "none", phase |-> "none", ver |-> 0, lease |-> 0,
          att |-> 0, lpid |-> FALSE, wpid |-> FALSE, cpid |-> FALSE,
          hb |-> 0, pub |-> FALSE]
NewRow == [NoRow EXCEPT !.status = "launch_pending",
                        !.phase = "launch_pending", !.lease = 1]
NoLock == [run |-> None, lease |-> 0, owner |-> "none", bound |-> FALSE]
NoWorker == [pc |-> "none", child |-> FALSE, snap |-> NoRow, out |-> "none"]
IdleThread == [pc |-> "idle", host |-> "server", seen |-> None, snap |-> NoRow]
IdleCancel == [pc |-> "idle", host |-> "server", snap |-> NoRow, ver |-> 0]

Rows == [status : Statuses, phase : Phases, ver : Nat, lease : {0} \cup Leases,
         att : 0..MaxLaunchAttempts, lpid : BOOLEAN, wpid : BOOLEAN,
         cpid : BOOLEAN, hb : Nat, pub : BOOLEAN]
Locks == [run : Owners \cup {None}, lease : {0} \cup Leases,
          owner : {"none", "host", "worker"}, bound : BOOLEAN]
ThreadPCs == {"idle", "insert", "create", "bind", "spawn", "record", "event",
              "fail", "undo", "work", "accepted", "failed", "refused", "done",
              "dead"}
WorkerPCs == {"none", "boot", "claim", "lock", "lost", "spawn", "attach",
              "wait", "finish", "commit", "close", "exited"}
CancelPCs == {"idle", "mark", "kill", "finish", "settle", "release"}
ServerPCs == {"down", "runs", "claim", "respawn", "record", "fail",
              "release", "stale", "ready"}
Threads == [pc : ThreadPCs, host : {"server", "other"},
            seen : Owners \cup {None}, snap : Rows]
Workers == [pc : WorkerPCs, child : BOOLEAN, snap : Rows,
            out : {"none", "cancellation_pending", "completed", "failed", "timed_out"}]
Cancels == [pc : CancelPCs, host : {"server", "other"}, snap : Rows, ver : Nat]
Servers == [pc : ServerPCs, todo : SUBSET Runs, cur : Runs \cup {None},
            snap : Rows, crashes : Nat]

Init ==
    /\ run = [r \in Runs |-> NoRow]
    /\ lock = NoLock
    /\ thread = [o \in Owners |-> IdleThread]
    /\ worker = [r \in Runs |-> [n \in Leases |-> NoWorker]]
    /\ canceller = [r \in Runs |-> IdleCancel]
    /\ server = [pc |-> "ready", todo |-> {}, cur |-> None, snap |-> NoRow,
                 crashes |-> 0]
    /\ listed = [r \in Runs |-> NoRow]

----
(* RunStore: rows and the updates every actor shares. *)

Exists(r) == run[r].status # "none"
IsTerminal(row) == row.status \in Terminal
Bump(row) == [row EXCEPT !.ver = @ + 1, !.hb = 0]
Beat(row) == [row EXCEPT !.hb = @ + 1]
Save(r, row) == run' = [run EXCEPT ![r] = row]

\* conditional_update's WHERE clause: status, version, token and generation,
\* reject_terminal; the second form also compares heartbeat_at.
MatchesAnyStatus(row, snap) ==  \* mutant: reject_terminal forgotten
    /\ row.status = snap.status
    /\ row.ver = snap.ver
    /\ row.lease = snap.lease
Matches(row, snap) ==
    /\ row.status = snap.status
    /\ row.ver = snap.ver
    /\ row.lease = snap.lease
    /\ ~IsTerminal(row)
MatchesBeat(row, snap) == Matches(row, snap) /\ row.hb = snap.hb

\* A write of current_phase that bumps the version only if the phase changes.
SetPhase(row, phase) ==
    IF row.phase = phase THEN Beat(row)
                         ELSE [Bump(row) EXCEPT !.phase = phase]

\* JobWorker.event: update_worker_progress under the worker's lease.
Progress(row, n, phase) ==
    IF row.status = "running" /\ row.lease = n THEN SetPhase(row, phase) ELSE row

ToTerminal(row, status) ==
    [Bump(row) EXCEPT !.status = status, !.phase = "result", !.pub = FALSE]
ToRecoveryPending(row) ==
    [Bump(row) EXCEPT !.status = "recovery_pending", !.phase = "recovery_pending"]
ToCancelling(row) ==
    [Bump(row) EXCEPT !.status = "cancellation_pending", !.phase = "cancellation_pending"]
ToRunningPhase(row) ==  \* mutant: current_phase set to the status
    [Bump(row) EXCEPT !.status = "running", !.phase = "running", !.wpid = TRUE]
ToRunning(row) ==
    [Bump(row) EXCEPT !.status = "running", !.phase = "worker", !.wpid = TRUE]
Adopted(row) == [Bump(row) EXCEPT !.phase = "worker"]
WithChild(row) == [Bump(row) EXCEPT !.cpid = TRUE]

\* publish_run_result on a terminal row; ok: result.json could be written.
Published(row, ok) ==
    IF IsTerminal(row) /\ ~row.pub THEN [Bump(row) EXCEPT !.pub = ok] ELSE row
PublishOutcomes(r) ==
    IF "publish" \in Faults /\ run[r].ver < MaxVersion THEN BOOLEAN ELSE {TRUE}

----
(* OperationLockStore. *)

HoldsLock(o, n) == lock.run = o /\ lock.lease = n

\* release: delete the row of this token and generation, bump the run.
ReleaseLock(r, n) == lock' = IF HoldsLock(r, n) THEN NoLock ELSE lock
Released(row, r, n) == IF HoldsLock(r, n) THEN Bump(row) ELSE row

\* _bind_run_ownership_in_connection: one bump when the lock is first bound.
Bound(row) == IF lock.bound THEN row ELSE Bump(row)

\* claim_owner: bind, record the worker as owner, bump if the owner changed.
ClaimedLock == [lock EXCEPT !.owner = "worker", !.bound = TRUE]
ClaimedRow(row) ==
    IF lock.owner = "worker" THEN Bound(row) ELSE Bump(Bound(row))

Alive(r, n) == worker[r][n].pc \notin {"none", "exited"}
WorkerVerified(r, row) == row.wpid /\ row.lease \in Leases /\ Alive(r, row.lease)
LauncherRunning(r, row) == row.lpid /\ row.lease \in Leases /\ Alive(r, row.lease)
ChildRunning(r, row) ==
    row.cpid /\ row.lease \in Leases /\ worker[r][row.lease].child

\* _is_stale: a missing run's lock is stale once the owning process is dead;
\* a terminal run's once none of its recorded processes runs.
IsStaleOnlyWithoutRun ==  \* mutant: a terminal run's lock is never stale
    /\ lock.run \in Owners
    /\ lock.run \in Runs => ~Exists(lock.run)
    /\ thread[lock.run].pc = "dead"
IsStale ==
    IF lock.run \in Runs /\ Exists(lock.run)
    THEN LET r == lock.run
             row == run[r]
         IN  /\ IsTerminal(row)
             /\ ~WorkerVerified(r, row)
             /\ ~LauncherRunning(r, row)
             /\ ~ChildRunning(r, row)
    ELSE lock.run \in Owners /\ thread[lock.run].pc = "dead"

----
(* Launching: OperationLockStore.acquire and JobManager._create_and_launch.
   The server serves requests only after reconciliation; another process
   (a workflow worker) launches at any time. *)

HostUp(h) == h = "server" => server.pc = "ready"
Goto(o, pc) == thread' = [thread EXCEPT ![o].pc = pc]
GotoWith(o, pc, row) == thread' = [thread EXCEPT ![o].pc = pc, ![o].snap = row]
End(o, pc) == thread' = [thread EXCEPT ![o] = [IdleThread EXCEPT !.pc = pc]]

\* acquire, first half: SELECT the row and decide whether it is stale.
AcquireRead(o, h) ==
    /\ thread[o].pc = "idle"
    /\ HostUp(h)
    /\ "acquire_race" \in Faults \/ \A p \in Owners : thread[p].pc # "insert"
    /\ LET free == lock = NoLock \/ IsStale
       IN  IF free THEN thread' = [thread EXCEPT ![o] =
                          [pc |-> "insert", host |-> h, seen |-> lock.run, snap |-> NoRow]]
                   ELSE End(o, "refused")
    /\ UNCHANGED <<run, lock, worker, canceller, server, listed>>

\* acquire, second half: DELETE whatever row the repository has now if the one
\* read was stale, bump that run, INSERT; a row that appeared raises.
AcquireInsert(o) ==
    /\ thread[o].pc = "insert"
    /\ LET old == thread[o].seen
           taken == lock # NoLock
       IN  IF taken /\ old = None
           THEN End(o, "refused") /\ UNCHANGED <<run, lock>>
           ELSE /\ lock' = [run |-> o, lease |-> 1, owner |-> "host", bound |-> FALSE]
                /\ run' = IF taken /\ old \in Runs /\ Exists(old)
                          THEN [run EXCEPT ![old] = Bump(@)] ELSE run
                /\ thread' = [thread EXCEPT ![o].pc = IF o \in Runs THEN "create" ELSE "work",
                                            ![o].seen = None]
    /\ UNCHANGED <<worker, canceller, server, listed>>

\* The run directory and input artifact, then create_run; a failure before the
\* row exists releases the lock.
CreateRun(r) ==
    /\ thread[r].pc = "create"
    /\ \/ Save(r, NewRow) /\ Goto(r, "bind") /\ UNCHANGED lock
       \/ "io" \in Faults /\ ReleaseLock(r, 1) /\ End(r, "failed") /\ UNCHANGED run
    /\ UNCHANGED <<worker, canceller, server, listed>>

\* bind_run_ownership, the launch_pending event and get_run.
BindRun(r) ==
    /\ thread[r].pc = "bind"
    /\ IF HoldsLock(r, 1)
       THEN /\ lock' = [lock EXCEPT !.bound = TRUE]
            /\ LET row == SetPhase(Bound(run[r]), "launch_pending")
               IN  /\ Save(r, row)
                   /\ \/ GotoWith(r, "spawn", row)
                      \/ "io" \in Faults /\ GotoWith(r, "fail", row)
       ELSE GotoWith(r, "fail", run[r]) /\ UNCHANGED <<run, lock>>
    /\ UNCHANGED <<worker, canceller, server, listed>>

SpawnWorker(r) ==
    /\ thread[r].pc = "spawn"
    /\ \/ worker' = [worker EXCEPT ![r][1].pc = "boot"] /\ Goto(r, "record")
       \/ "spawn" \in Faults /\ GotoWith(r, "fail", run[r]) /\ UNCHANGED worker
    /\ UNCHANGED <<run, lock, canceller, server, listed>>

Exited(w) == [NoWorker EXCEPT !.pc = "exited", !.child = w.child]

\* terminate_process_tree on the recorded processes; K: those that stopped.
\* "unconfirmed": a process may survive the termination attempt.
TerminateChildOnly(w, K) ==  \* mutant: the worker process survives
    [w EXCEPT !.child = @ /\ "child" \notin K]
TerminateWorkerOnly(w, K) ==  \* mutant: the child process survives
    IF "worker" \in K /\ w.pc \notin {"none", "exited"} THEN Exited(w) ELSE w
Terminate(w, K) ==
    LET stopped == "worker" \in K /\ w.pc \notin {"none", "exited"}
    IN  [(IF stopped THEN Exited(w) ELSE w) EXCEPT
            !.child = @ /\ "child" \notin K /\ ~(stopped /\ TreeKill)]
KillOutcomes(targets) ==
    IF "unconfirmed" \in Faults THEN SUBSET targets ELSE {targets}

\* record_worker_launch: launch_pending -> queued under the version read before
\* the spawn.  The launcher then insists on its lease and on queued or running.
LaunchedSameVersion(row) ==  \* mutant: the version is not bumped
    [row EXCEPT !.status = "queued", !.phase = "queued", !.lpid = TRUE]
Launched(row) ==
    [Bump(row) EXCEPT !.status = "queued", !.phase = "queued", !.lpid = TRUE]
FirstLaunched(row) == [Launched(row) EXCEPT !.att = @ + 1]
RecordLaunch(r) ==
    /\ thread[r].pc = "record"
    /\ LET s == thread[r].snap
           won == run[r].status = "launch_pending" /\ Matches(run[r], [s EXCEPT !.lease = 1])
           row == IF won THEN FirstLaunched(run[r]) ELSE run[r]
       IN  /\ Save(r, row)
           /\ IF row.lease = 1 /\ row.status \in {"queued", "running"}
              THEN GotoWith(r, "event", NoRow) /\ UNCHANGED worker
              ELSE /\ \E K \in KillOutcomes({"worker"}) :
                        worker' = [worker EXCEPT ![r][1] = Terminate(@, K)]
                   /\ GotoWith(r, "fail", row)
    /\ UNCHANGED <<lock, canceller, server, listed>>

\* append_event(stage="worker") writes the phase whatever the run's status is.
LaunchEvent(r) ==
    /\ thread[r].pc = "event"
    /\ LET row == SetPhase(run[r], "worker")
       IN  /\ Save(r, row)
           /\ \/ End(r, "accepted")
              \/ "io" \in Faults /\ GotoWith(r, "fail", row)
    /\ UNCHANGED <<lock, worker, canceller, server, listed>>

\* The except clause: fail_infrastructure under the row just read.
FailLaunch(r) ==
    /\ thread[r].pc = "fail"
    /\ IF MatchesBeat(run[r], thread[r].snap)
       THEN Save(r, ToTerminal(run[r], "failed")) /\ Goto(r, "undo")
       ELSE End(r, "failed") /\ UNCHANGED run
    /\ UNCHANGED <<lock, worker, canceller, server, listed>>

\* publish_run_result, then release under the lease of that row.
UndoLaunch(r) ==
    /\ thread[r].pc = "undo"
    /\ \E ok \in PublishOutcomes(r) :
         Save(r, Released(Published(run[r], ok), r, thread[r].snap.lease))
    /\ ReleaseLock(r, thread[r].snap.lease)
    /\ End(r, "failed")
    /\ UNCHANGED <<worker, canceller, server, listed>>

\* repository_operation_lock: leaving the with block releases by owner id.
SyncRelease(o) ==
    /\ o \in SyncOps
    /\ thread[o].pc = "work"
    /\ lock' = IF lock.run = o THEN NoLock ELSE lock
    /\ End(o, "done")
    /\ UNCHANGED <<run, worker, canceller, server, listed>>

----
(* JobWorker: the process spawned for lease n of run r. *)

SetWorker(r, n, w) == worker' = [worker EXCEPT ![r][n] = w]

\* __init__ and the first get_run of execute.
WorkerRead(r, n) ==
    /\ worker[r][n].pc = "boot"
    /\ SetWorker(r, n, IF run[r].status = "cancelled"
                       THEN Exited(worker[r][n])
                       ELSE [worker[r][n] EXCEPT !.pc = "claim", !.snap = run[r]])
    /\ UNCHANGED <<run, lock, thread, canceller, server, listed>>

\* claim_worker's WHERE clause: the token of the command line (n), and the
\* generation and version the worker read.
MayClaim(row, s, n) ==
    /\ row.status \in {"launch_pending", "queued"}
    /\ row.ver = s.ver
    /\ row.lease = n /\ s.lease = n

\* claim_worker: launch_pending or queued -> running; a lost claim ends the
\* process.
WorkerClaim(r, n) ==
    /\ worker[r][n].pc = "claim"
    /\ LET s == worker[r][n].snap
       IN  IF MayClaim(run[r], s, n)
           THEN /\ Save(r, ToRunning(run[r]))
                /\ SetWorker(r, n, [worker[r][n] EXCEPT !.pc = "lock", !.snap = NoRow])
           ELSE /\ SetWorker(r, n, Exited(worker[r][n]))
                /\ UNCHANGED run
    /\ UNCHANGED <<lock, thread, canceller, server, listed>>

\* claim_owner, then the "worker" event.
WorkerLock(r, n) ==
    /\ worker[r][n].pc = "lock"
    /\ IF HoldsLock(r, n)
       THEN /\ lock' = ClaimedLock
            /\ Save(r, Progress(ClaimedRow(run[r]), n, "worker"))
            /\ SetWorker(r, n, [worker[r][n] EXCEPT !.pc = "spawn"])
       ELSE /\ SetWorker(r, n, [worker[r][n] EXCEPT !.pc = "lost", !.snap = run[r]])
            /\ UNCHANGED <<run, lock>>
    /\ UNCHANGED <<thread, canceller, server, listed>>

\* The lock was not this worker's: mark_recovery_pending and exit.
WorkerLost(r, n) ==
    /\ worker[r][n].pc = "lost"
    /\ LET s == worker[r][n].snap
       IN  IF run[r].status = "running" /\ run[r].lease = n /\ MatchesBeat(run[r], s)
           THEN Save(r, ToRecoveryPending(run[r])) ELSE UNCHANGED run
    /\ SetWorker(r, n, Exited(worker[r][n]))
    /\ UNCHANGED <<lock, thread, canceller, server, listed>>

\* The executable event and Popen; validation or Popen may raise instead.
StartChild(r, n) ==
    /\ worker[r][n].pc = "spawn"
    /\ \/ /\ Save(r, Progress(run[r], n, "executable"))
          /\ SetWorker(r, n, [worker[r][n] EXCEPT !.pc = "attach", !.child = TRUE])
       \/ /\ SetWorker(r, n, [worker[r][n] EXCEPT !.pc = "finish", !.out = "failed"])
          /\ UNCHANGED run
    /\ UNCHANGED <<lock, thread, canceller, server, listed>>

\* attach_child_pid and the second event; without the lease the child is
\* terminated.  An event file that cannot be written raises past the child.
AttachChild(r, n) ==
    /\ worker[r][n].pc = "attach"
    /\ IF run[r].status = "running" /\ run[r].lease = n
       THEN /\ Save(r, Progress(WithChild(run[r]), n, "executable"))
            /\ \/ SetWorker(r, n, [worker[r][n] EXCEPT !.pc = "wait"])
               \/ /\ "io" \in Faults
                  /\ SetWorker(r, n, [worker[r][n] EXCEPT !.pc = "finish", !.out = "failed"])
       ELSE /\ \E K \in KillOutcomes({"child"}) :
                 SetWorker(r, n, [Terminate(worker[r][n], K)
                                    EXCEPT !.pc = "finish", !.out = "failed"])
            /\ UNCHANGED run
    /\ UNCHANGED <<lock, thread, canceller, server, listed>>

\* process.wait returned: exit code 0 or not.
WaitChild(r, n) ==
    /\ worker[r][n].pc = "wait"
    /\ ~worker[r][n].child
    /\ \E out \in {"completed", "failed"} :
         SetWorker(r, n, [worker[r][n] EXCEPT !.pc = "finish", !.out = out])
    /\ UNCHANGED <<run, lock, thread, canceller, server, listed>>

\* TimeoutExpired: terminate the child; an unconfirmed termination is reported
\* as cancellation_pending.
TimeoutChild(r, n) ==
    /\ worker[r][n].pc = "wait"
    /\ worker[r][n].child
    /\ \E K \in KillOutcomes({"child"}) :
         SetWorker(r, n, [Terminate(worker[r][n], K) EXCEPT
             !.pc = "finish",
             !.out = IF "child" \in K THEN "timed_out" ELSE "cancellation_pending"])
    /\ Save(r, Progress(run[r], n, "executable"))
    /\ UNCHANGED <<lock, thread, canceller, server, listed>>

\* get_run before the terminal transition.
WorkerFinish(r, n) ==
    /\ worker[r][n].pc = "finish"
    /\ SetWorker(r, n, [worker[r][n] EXCEPT !.pc = "commit", !.snap = run[r]])
    /\ UNCHANGED <<run, lock, thread, canceller, server, listed>>

\* transition_terminal, or conditional_update to cancellation_pending.
WorkerCommit(r, n) ==
    /\ worker[r][n].pc = "commit"
    /\ LET s == worker[r][n].snap
           out == worker[r][n].out
       IN  IF run[r].status = "running" /\ run[r].ver = s.ver /\ run[r].lease = n
           THEN Save(r, IF out \in Terminal THEN ToTerminal(run[r], out)
                                           ELSE ToCancelling(run[r]))
           ELSE UNCHANGED run
    /\ SetWorker(r, n, [worker[r][n] EXCEPT !.pc = "close", !.snap = NoRow])
    /\ UNCHANGED <<lock, thread, canceller, server, listed>>

\* publish_run_result if the run is terminal; then the finally clause releases
\* the lock unless the run is cancellation_pending.
WorkerClose(r, n) ==
    /\ worker[r][n].pc = "close"
    /\ \E ok \in PublishOutcomes(r) :
         IF run[r].status # "cancellation_pending"
         THEN /\ Save(r, Released(Published(run[r], ok), r, n))
              /\ ReleaseLock(r, n)
         ELSE UNCHANGED <<run, lock>>
    /\ SetWorker(r, n, Exited(worker[r][n]))
    /\ UNCHANGED <<thread, canceller, server, listed>>

\* _heartbeat_loop: heartbeat_worker changes heartbeat_at and no version.
Heartbeat(r, n) ==
    /\ worker[r][n].pc \in {"spawn", "attach", "wait", "finish", "commit"}
    /\ run[r].status = "running" /\ run[r].lease = n
    /\ run[r].hb < MaxBeats
    /\ Save(r, Beat(run[r]))
    /\ UNCHANGED <<lock, thread, worker, canceller, server, listed>>

\* The child process ends by itself, whether or not its worker still lives.
ChildExit(r, n) ==
    /\ worker[r][n].child
    /\ SetWorker(r, n, [worker[r][n] EXCEPT !.child = FALSE])
    /\ UNCHANGED <<run, lock, thread, canceller, server, listed>>

\* The worker process dies; its child has a session of its own and survives.
WorkerCrash(r, n) ==
    /\ "worker_crash" \in Faults
    /\ Alive(r, n)
    /\ SetWorker(r, n, Exited(worker[r][n]))
    /\ UNCHANGED <<run, lock, thread, canceller, server, listed>>

----
(* JobManager.cancel_run *)

SetCancel(r, c) == canceller' = [canceller EXCEPT ![r] = c]

\* get_run; a terminal run is only republished, a pending cancellation refused.
CancelRead(r, h) ==
    /\ canceller[r].pc = "idle"
    /\ HostUp(h)
    /\ Exists(r)
    /\ run[r].status # "cancellation_pending"
    /\ SetCancel(r, [pc |-> IF IsTerminal(run[r]) THEN "settle" ELSE "mark",
                     host |-> h, snap |-> run[r], ver |-> 0])
    /\ UNCHANGED <<run, lock, thread, worker, server, listed>>

\* conditional_update to cancellation_pending; the loser leaves a terminal
\* winner published and released, any other alone.
CancelMark(r) ==
    /\ canceller[r].pc = "mark"
    /\ IF Matches(run[r], canceller[r].snap)
       THEN /\ Save(r, ToCancelling(run[r]))
            /\ SetCancel(r, [canceller[r] EXCEPT !.pc = "kill"])
       ELSE /\ SetCancel(r, IF IsTerminal(run[r])
                            THEN [canceller[r] EXCEPT !.pc = "settle"] ELSE IdleCancel)
            /\ UNCHANGED run
    /\ UNCHANGED <<lock, thread, worker, server, listed>>

\* persist_progress: the phase, without a new version.
NotedCancelling(row) == [row EXCEPT !.phase = "cancellation_pending"]

\* Terminate the processes the first read recorded.  Unconfirmed: the run stays
\* cancellation_pending.  Confirmed: finish_cancel reads the version again.
CancelKill(r) ==
    /\ canceller[r].pc = "kill"
    /\ LET s == canceller[r].snap
           targets == {t \in {"child", "worker"} :
                         (t = "child" /\ s.cpid) \/ (t = "worker" /\ (s.wpid \/ s.lpid))}
       IN  \E K \in KillOutcomes(targets) :
             LET w == worker[r][s.lease]
                 gone(t) == t \in K \/ (IF t = "child" THEN ~w.child ELSE ~Alive(r, s.lease))
                 confirmed == IF targets = {}
                              THEN s.status \in {"launch_pending", "queued", "recovery_pending"}
                              ELSE \A t \in targets : gone(t)
             IN  /\ SetWorker(r, s.lease, Terminate(w, K))
                 /\ IF confirmed
                    THEN /\ SetCancel(r, [canceller[r] EXCEPT !.pc = "finish",
                                                              !.ver = run[r].ver])
                         /\ UNCHANGED run
                    ELSE /\ SetCancel(r, IdleCancel)
                         /\ Save(r, IF run[r].status = "cancellation_pending"
                                       /\ run[r].lease = s.lease
                                    THEN NotedCancelling(run[r])
                                    ELSE run[r])
    /\ UNCHANGED <<lock, thread, server, listed>>

\* finish_cancel's transition_terminal under the version it read.
CancelFinish(r) ==
    /\ canceller[r].pc = "finish"
    /\ LET won == /\ run[r].status = "cancellation_pending"
                  /\ run[r].ver = canceller[r].ver
                  /\ run[r].lease = canceller[r].snap.lease
           row == IF won THEN ToTerminal(run[r], "cancelled") ELSE run[r]
       IN  /\ Save(r, row)
           /\ SetCancel(r, IF IsTerminal(row)
                           THEN [canceller[r] EXCEPT !.pc = IF won THEN "release" ELSE "settle"]
                           ELSE IdleCancel)
    /\ UNCHANGED <<lock, thread, worker, server, listed>>

\* publish_run_result, then release; a failed publication of a terminal result
\* that this call did not write ("settle") keeps the lock.
CancelRelease(r) ==
    /\ canceller[r].pc \in {"settle", "release"}
    /\ LET n == canceller[r].snap.lease
       IN  \E ok \in PublishOutcomes(r) :
             IF ok \/ canceller[r].pc = "release"
             THEN /\ Save(r, Released(Published(run[r], ok), r, n))
                  /\ ReleaseLock(r, n)
             ELSE Save(r, Published(run[r], ok)) /\ UNCHANGED lock
    /\ SetCancel(r, IdleCancel)
    /\ UNCHANGED <<thread, worker, server, listed>>

----
(* The server process: crash, restart, JobManager.reconcile_startup. *)

ActivePCs == {"insert", "create", "bind", "spawn", "record", "event", "fail",
              "undo", "work"}

\* The process dies with its request threads; workers are detached and live on.
ServerCrash ==
    /\ server.pc # "down"
    /\ server.crashes < MaxCrashes
    /\ server' = [server EXCEPT !.pc = "down", !.todo = {}, !.cur = None,
                                !.snap = NoRow, !.crashes = @ + 1]
    /\ thread' = [o \in Owners |->
                    IF thread[o].host = "server" /\ thread[o].pc \in ActivePCs
                    THEN [IdleThread EXCEPT !.pc = "dead"] ELSE thread[o]]
    /\ canceller' = [r \in Runs |-> IF canceller[r].host = "server"
                                    THEN IdleCancel ELSE canceller[r]]
    /\ listed' = [r \in Runs |-> NoRow]
    /\ UNCHANGED <<run, lock, worker>>

\* Another process that hosts a launch or a sync operation dies.
HostCrash(o) ==
    /\ "host_crash" \in Faults
    /\ thread[o].host = "other"
    /\ thread[o].pc \in ActivePCs
    /\ End(o, "dead")
    /\ UNCHANGED <<run, lock, worker, canceller, server, listed>>

\* A new server process lists the recoverable runs once, up front.
ServerRestart ==
    /\ server.pc = "down"
    /\ LET todo == {r \in Runs : run[r].status \in Recoverable}
       IN  /\ server' = [server EXCEPT !.pc = "runs", !.todo = todo]
           /\ listed' = [r \in Runs |-> IF r \in todo THEN run[r] ELSE NoRow]
    /\ UNCHANGED <<run, lock, thread, worker, canceller>>

\* server' after run r is dealt with, or with r's next step still to come.
NextRun(r) == server' = [server EXCEPT !.pc = "runs", !.todo = @ \ {r},
                                       !.cur = None, !.snap = NoRow]
Then(r, pc, row) ==
    server' = [server EXCEPT !.pc = pc, !.cur = r, !.snap = row]
InHand(r) == server.pc = "runs" /\ r \in server.todo

\* A verified worker is adopted; an adoption that lost to the worker itself
\* still goes on to the lock.
ReconcileAdopt(r) ==
    /\ InHand(r)
    /\ WorkerVerified(r, listed[r])
    /\ LET s == listed[r]
           won == run[r].status = "running" /\ MatchesBeat(run[r], s)
           row == IF won THEN Adopted(run[r]) ELSE run[r]
           mine == row.status = "running" /\ row.lease = s.lease /\ WorkerVerified(r, row)
       IN  /\ Save(r, row)
           /\ IF won \/ mine THEN Then(r, "claim", row) ELSE NextRun(r)
    /\ UNCHANGED <<lock, thread, worker, canceller, listed>>

\* claim_owner for the adopted worker, or mark_recovery_pending.
ReconcileClaim(r) ==
    /\ server.pc = "claim" /\ server.cur = r
    /\ LET n == listed[r].lease
           s == server.snap
       IN  IF HoldsLock(r, n)
           THEN lock' = ClaimedLock /\ Save(r, ClaimedRow(run[r]))
           ELSE /\ Save(r, IF run[r].status = "running" /\ run[r].lease = n
                              /\ MatchesBeat(run[r], s)
                           THEN ToRecoveryPending(run[r]) ELSE run[r])
                /\ UNCHANGED lock
    /\ NextRun(r)
    /\ UNCHANGED <<thread, worker, canceller, listed>>

\* No worker, but its child runs: retain in recovery_pending.
ReconcileChild(r) ==
    /\ InHand(r)
    /\ ~WorkerVerified(r, listed[r])
    /\ ChildRunning(r, listed[r])
    /\ Save(r, IF MatchesBeat(run[r], listed[r])
               THEN ToRecoveryPending(run[r]) ELSE run[r])
    /\ NextRun(r)
    /\ UNCHANGED <<lock, thread, worker, canceller, listed>>

NoProcess(r) == ~WorkerVerified(r, listed[r]) /\ ~ChildRunning(r, listed[r])
UnclaimedOrRunning(row) ==  \* mutant: a running run with a dead worker is relaunched
    row.status \in {"launch_pending", "queued", "running"}
Unclaimed(row) == row.status \in {"launch_pending", "queued"}

\* The launcher still runs, or the state is retained for the operator.
ReconcileRetain(r) ==
    /\ InHand(r)
    /\ NoProcess(r)
    /\ \/ Unclaimed(listed[r]) /\ LauncherRunning(r, listed[r])
       \/ listed[r].status \in {"cancellation_pending", "recovery_pending"}
    /\ NextRun(r)
    /\ UNCHANGED <<run, lock, thread, worker, canceller, listed>>

\* reserve_next_launch: run and lock move to the next lease together, or not.
Reserved(row) ==
    [Bump(row) EXCEPT !.status = "launch_pending", !.phase = "launch_pending",
                      !.lease = @ + 1, !.att = @ + 1,
                      !.lpid = FALSE, !.wpid = FALSE, !.cpid = FALSE]
ReservedLockOldLease(r, row) ==  \* mutant: the lock keeps the previous lease
    [run |-> r, lease |-> row.lease - 1, owner |-> "host", bound |-> TRUE]
ReservedLock(r, row) ==
    [run |-> r, lease |-> row.lease, owner |-> "host", bound |-> TRUE]
AttemptsLeft(row) == row.att < MaxLaunchAttempts
ReconcileReserve(r) ==
    /\ InHand(r)
    /\ NoProcess(r)
    /\ Unclaimed(listed[r]) /\ ~LauncherRunning(r, listed[r])
    /\ AttemptsLeft(listed[r])
    /\ LET row == Reserved(run[r])
       IN  IF Matches(run[r], listed[r]) /\ HoldsLock(r, listed[r].lease)
           THEN /\ Save(r, row)
                /\ lock' = ReservedLock(r, row)
                /\ Then(r, "respawn", row)
           ELSE NextRun(r) /\ UNCHANGED <<run, lock>>
    /\ UNCHANGED <<thread, worker, canceller, listed>>

ReconcileRespawn(r) ==
    /\ server.pc = "respawn" /\ server.cur = r
    /\ \/ /\ worker' = [worker EXCEPT ![r][server.snap.lease].pc = "boot"]
          /\ Then(r, "record", server.snap)
       \/ /\ "spawn" \in Faults
          /\ IF run[r].lease = server.snap.lease
             THEN Then(r, "fail", run[r]) ELSE NextRun(r)
          /\ UNCHANGED worker
    /\ UNCHANGED <<run, lock, thread, canceller, listed>>

\* record_worker_launch without a new attempt; another lease means another
\* reconciler won, and the process just started is terminated.
ReconcileRecord(r) ==
    /\ server.pc = "record" /\ server.cur = r
    /\ LET s == server.snap
           won == run[r].status = "launch_pending" /\ Matches(run[r], s)
           row == IF won THEN Launched(run[r]) ELSE run[r]
       IN  /\ Save(r, row)
           /\ IF row.lease = s.lease
              THEN /\ \/ NextRun(r)
                      \/ "io" \in Faults /\ Then(r, "fail", row)
                   /\ UNCHANGED worker
              ELSE /\ \E K \in KillOutcomes({"worker"}) :
                        worker' = [worker EXCEPT ![r][s.lease] = Terminate(@, K)]
                   /\ NextRun(r)
    /\ UNCHANGED <<lock, thread, canceller, listed>>

\* _fail_recovery of the row listed: a dead worker, or no attempt left.
ReconcileDead(r) ==
    /\ InHand(r)
    /\ NoProcess(r)
    /\ \/ listed[r].status = "running"
       \/ /\ Unclaimed(listed[r]) /\ ~LauncherRunning(r, listed[r])
          /\ ~AttemptsLeft(listed[r])
    /\ Then(r, "fail", listed[r])
    /\ UNCHANGED <<run, lock, thread, worker, canceller, listed>>

ReconcileFail(r) ==
    /\ server.pc = "fail" /\ server.cur = r
    /\ IF MatchesBeat(run[r], server.snap)
       THEN Save(r, ToTerminal(run[r], "failed")) /\ Then(r, "release", server.snap)
       ELSE NextRun(r) /\ UNCHANGED run
    /\ UNCHANGED <<lock, thread, worker, canceller, listed>>

ReconcileRelease(r) ==
    /\ server.pc = "release" /\ server.cur = r
    /\ \E ok \in PublishOutcomes(r) :
         Save(r, Released(Published(run[r], ok), r, server.snap.lease))
    /\ ReleaseLock(r, server.snap.lease)
    /\ NextRun(r)
    /\ UNCHANGED <<thread, worker, canceller, listed>>

\* Something raises while r is dealt with: r is held for the operator, if nothing
\* about it changed since it was listed.
ReconcileRaises(r) ==
    /\ "io" \in Faults
    /\ \/ InHand(r)
       \/ server.cur = r /\ server.pc \in {"claim", "respawn", "record", "fail", "release"}
    /\ Save(r, IF MatchesBeat(run[r], listed[r]) THEN ToRecoveryPending(run[r]) ELSE run[r])
    /\ NextRun(r)
    /\ UNCHANGED <<lock, thread, worker, canceller, listed>>

\* All listed runs done: publish the terminal runs that were not listed.
ReconcilePublish ==
    /\ server.pc = "runs" /\ server.todo = {}
    /\ \E ok \in {f \in [Runs -> BOOLEAN] : \A r \in Runs : f[r] \in PublishOutcomes(r)} :
         run' = [r \in Runs |-> IF listed[r].status = "none"
                                THEN Published(run[r], ok[r]) ELSE run[r]]
    /\ server' = [server EXCEPT !.pc = "stale"]
    /\ UNCHANGED <<lock, thread, worker, canceller, listed>>

\* recover_stale, after which the server serves requests.
RecoverStale ==
    /\ server.pc = "stale"
    /\ LET r == lock.run
           owned == r \in Runs /\ Exists(r)
       IN  /\ run' = IF owned
                     THEN [run EXCEPT ![r] = IF IsStale THEN Bump(Bound(@)) ELSE Bound(@)]
                     ELSE run
           /\ lock' = IF IsStale THEN NoLock
                      ELSE IF owned THEN [lock EXCEPT !.bound = TRUE] ELSE lock
    /\ server' = [server EXCEPT !.pc = "ready"]
    /\ listed' = [r \in Runs |-> NoRow]
    /\ UNCHANGED <<thread, worker, canceller>>

----
LaunchStep(r) ==
    \/ CreateRun(r) \/ BindRun(r) \/ SpawnWorker(r) \/ RecordLaunch(r)
    \/ LaunchEvent(r) \/ FailLaunch(r) \/ UndoLaunch(r)

WorkerStep(r, n) ==
    \/ WorkerRead(r, n) \/ WorkerClaim(r, n) \/ WorkerLock(r, n)
    \/ WorkerLost(r, n) \/ StartChild(r, n) \/ AttachChild(r, n)
    \/ WaitChild(r, n) \/ TimeoutChild(r, n) \/ WorkerFinish(r, n)
    \/ WorkerCommit(r, n) \/ WorkerClose(r, n)

CancelStep(r) ==
    CancelMark(r) \/ CancelKill(r) \/ CancelFinish(r) \/ CancelRelease(r)

ReconcileStep(r) ==
    \/ ReconcileAdopt(r) \/ ReconcileClaim(r) \/ ReconcileRaises(r) \/ ReconcileChild(r)
    \/ ReconcileRetain(r) \/ ReconcileReserve(r) \/ ReconcileRespawn(r)
    \/ ReconcileRecord(r) \/ ReconcileDead(r) \/ ReconcileFail(r)
    \/ ReconcileRelease(r)

Next ==
    \/ \E o \in Owners, h \in Hosts : AcquireRead(o, h)
    \/ \E o \in Owners : AcquireInsert(o) \/ SyncRelease(o) \/ HostCrash(o)
    \/ \E r \in Runs : LaunchStep(r) \/ CancelStep(r) \/ ReconcileStep(r)
    \/ \E r \in Runs, h \in Hosts : CancelRead(r, h)
    \/ \E r \in Runs, n \in Leases :
         WorkerStep(r, n) \/ Heartbeat(r, n) \/ ChildExit(r, n) \/ WorkerCrash(r, n)
    \/ ServerCrash \/ ServerRestart \/ ReconcilePublish \/ RecoverStale

Spec == Init /\ [][Next]_vars

----
(* Properties. *)

\* Every variable has its type; in particular no run uses a lease beyond the
\* bounded launch attempts.
TypeOK ==
    /\ run \in [Runs -> Rows]
    /\ lock \in Locks
    /\ thread \in [Owners -> Threads]
    /\ worker \in [Runs -> [Leases -> Workers]]
    /\ canceller \in [Runs -> Cancels]
    /\ server \in Servers
    /\ listed \in [Runs -> Rows]

\* A worker that won claim_worker and has not exited.
ClaimedPCs == WorkerPCs \ {"none", "boot", "claim", "exited"}
Executing(r, n) == worker[r][n].pc \in ClaimedPCs \/ worker[r][n].child

\* At most one worker process ever executes a run: whatever restarts, relaunches
\* and cancellations do, two leases of one run never both pass claim_worker.
AtMostOneExecution ==
    \A r \in Runs : \A m, n \in Leases :
        Executing(r, m) /\ Executing(r, n) => m = n

\* The worker that executes a run is the one the run row names: its lease is the
\* row's lease, its pid is recorded, and the row has left the states from which
\* reserve_next_launch could hand the run to somebody else.
ExecutorOwnsLease ==
    \A r \in Runs, n \in Leases :
        Executing(r, n) => run[r].lease = n /\ run[r].wpid /\ ~Unclaimed(run[r])

\* The lock row and the run row never disagree about the lease, although they
\* are written by different transactions of different processes.
LockAgreesWithRun ==
    \A r \in Runs : lock.run = r =>
        lock.lease = IF Exists(r) THEN run[r].lease ELSE 1

\* Run row, lock row and executing process name one lease (operation_locks.py,
\* run_store.py, job_worker.py), whoever wrote last.
LeaseAgreement == ExecutorOwnsLease /\ LockAgreesWithRun

\* What state_version promises: a row read earlier that still has the current
\* version agrees with the row on everything a decision is based on.
Agrees(snap, row) ==
    /\ snap.ver <= row.ver
    /\ snap.ver = row.ver =>
         /\ snap.status = row.status
         /\ snap.lease = row.lease
         /\ snap.att = row.att
         /\ <<snap.lpid, snap.wpid, snap.cpid>> = <<row.lpid, row.wpid, row.cpid>>
VersionIdentifiesState ==
    \A r \in Runs :
        /\ listed[r].status # "none" => Agrees(listed[r], run[r])
        /\ canceller[r].pc # "idle" => Agrees(canceller[r].snap, run[r])
        /\ thread[r].pc \in {"spawn", "record", "fail"} => Agrees(thread[r].snap, run[r])
        /\ server.cur = r => Agrees(server.snap, run[r])
        /\ \A n \in Leases : worker[r][n].pc \in {"claim", "lost", "commit"} =>
                             Agrees(worker[r][n].snap, run[r])

\* Work a process is doing for a run that the run row knows of.
Working(r) ==
    \E n \in Leases :
        \/ worker[r][n].pc \in {"spawn", "attach", "wait"}
        \/ worker[r][n].child /\ run[r].lease = n /\ run[r].cpid
Busy(o) == IF o \in Runs THEN Working(o) ELSE thread[o].pc = "work"

\* The repository lock's purpose: two owners never work on the repository at
\* the same time.
RepositoryExclusion ==
    \A o, p \in Owners : Busy(o) /\ Busy(p) => o = p

\* A run reported cancelled has no process left.
CancelledMeansStopped ==
    \A r \in Runs : run[r].status = "cancelled" =>
        \A n \in Leases : ~worker[r][n].child /\ worker[r][n].pc \notin {"attach", "wait"}

\* A lock is taken from a run only once the run is terminal: "Non-terminal
\* ownership is retained until JobManager reconciliation makes a process-aware
\* recovery or terminal decision" (operation_locks.py).
LockReleasedOnlyWhenTerminal ==
    [][\A r \in Runs : lock.run = r /\ Exists(r) /\ lock'.run # r
                        => IsTerminal(run'[r])]_vars

----
(* The abstract specification this module implements. *)

LifeOf(status) ==
    CASE status = "none" -> "absent"
      [] status \in {"launch_pending", "queued"} -> "waiting"
      [] status = "running" -> "executing"
      [] status = "cancellation_pending" -> "stopping"
      [] status = "recovery_pending" -> "held"
      [] OTHER -> status

Life == INSTANCE RunLifecycle WITH life <- [r \in Runs |-> LifeOf(run[r].status)]

\* The engine implements RunLifecycle: whatever the interleaving of launcher,
\* worker, canceller and reconciler, the client sees one execution at most, one
\* outcome, and an outcome only from the states that may produce it.
ImplementsLifecycle == Life!Spec

----
(* Liveness. *)

\* Threads and processes that can take a step take it, a dead server is
\* restarted by its service manager, and a child command ends.  Nothing makes a
\* client cancel, a process die or a heartbeat come.
Fairness ==
    /\ \A o \in Owners : WF_vars(AcquireInsert(o)) /\ WF_vars(SyncRelease(o))
    /\ \A r \in Runs : WF_vars(LaunchStep(r)) /\ WF_vars(CancelStep(r))
                       /\ WF_vars(ReconcileStep(r))
    /\ \A r \in Runs, n \in Leases : WF_vars(WorkerStep(r, n)) /\ WF_vars(ChildExit(r, n))
    /\ WF_vars(ServerRestart) /\ WF_vars(ReconcilePublish) /\ WF_vars(RecoverStale)

FairSpec == Spec /\ Fairness

NoLiveProcess(r) == \A n \in Leases : ~Alive(r, n) /\ ~worker[r][n].child

\* A restart resolves what it lists: an accepted run whose launcher and worker
\* are gone is relaunched under the next lease or leaves the active states.
RestartResolves ==
    \A r \in Runs, n \in Leases :
        (/\ server.pc = "runs" /\ r \in server.todo
         /\ run[r] = listed[r] /\ run[r].lease = n /\ lock.run = r
         /\ run[r].status \in {"launch_pending", "queued", "running"}
         /\ thread[r].pc \in {"accepted", "failed", "dead"} /\ NoLiveProcess(r))
        ~> (run[r].lease # n \/ run[r].status \notin {"launch_pending", "queued", "running"})

\* A restart frees the lock of a run that was terminal when it listed the runs,
\* whoever died before releasing it, and publishes the run's result.
RestartCleansUp ==
    \A r \in Runs :
        (/\ server.pc = "runs" /\ listed[r].status = "none"
         /\ IsTerminal(run[r]) /\ NoLiveProcess(r))
        ~> (lock.run # r /\ run[r].pub)

\* A restart leaves nothing of the server that died: it resolves the stranded runs
\* it lists and cleans up after the finished ones (job_manager.py:535-1022).
RestartSettles == RestartResolves /\ RestartCleansUp
=============================================================================
