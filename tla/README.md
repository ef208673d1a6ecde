# Soma: a TLA+ verification of its durable runs and the services around them

Soma is an MCP server that executes long-running commands on a workstation, and
on hosts reachable from it, on behalf of a chat client.  A command becomes a
*run*: a row in a SQLite database, an artifact directory, and a detached worker
process that survives the server.  What makes the program hard is that request
threads of the server, worker processes, cancelling threads, other processes
that embed the same manager, and the reconciliation of a restarted server work
on the same rows and files, and any of them may die between two steps.  Around
the run engine there are services with the same shape: a row or file that
several callers read, decide about, and write back.

This directory models them, checks the models with TLC and proves the central
properties with TLAPS.  The modules follow the code function by function;
`PROJECT.json` maps each definition to the lines it stands for.

## Inventory

| component | state | operations | module |
|---|---|---|---|
| run store, operation lock, job manager, job worker, process control | `runs` and `operation_locks` rows; threads; a worker process and its child | create, launch, claim, heartbeat, adopt, cancel, time out, finish, publish, release, reconcile | `DurableRun` |
| parallel groups (`parallel_groups.py`) | group rows, membership, the children's run rows | reserve, launch, claim, refill, refresh, cancel, failure policy | `ParallelGroups` |
| workflows (`workflows/`) | workflow and step rows, worker leases | start, claim, advance, cancel, publish, reconcile | `Workflows` |
| task plane and project scope (`tasks/`, `project_scope/`) | task, attempt, adjudication and enforcement rows | start, repeat, status, result, cancel, supersede, reconcile | `TaskPlane` |
| Hermes service (`hermes_*.py`) | worker pool, request records, generations | admit, dispatch, cancel, reload, replace, fall back | `HermesService` |
| repository writer (`repo_writer.py`, `transactions.py`) | patch manifests, rollback copies, working tree, index | preview, apply, commit, revert | `RepoWriter` |
| git and artifact tools (`git_tools.py`, `managed_artifacts.py`) | index, HEAD, working tree, clean-up previews | commit, remove, clean up | `RepoTools` |
| remote runs (`ssh_watchdog.py`, `remote_controller_state.py`, branches of the job manager and worker) | state and result files on the host, controllers, local run row | control, cancel, watch, adopt, poll | `RemoteRun` |
| SSH activation (`ssh_activation.py`) | target files, transactions, requests and acknowledgements | activate, roll back, recover | `SSHActivation` |
| host onboarding (`ssh_profile_manager.py`, `ssh_credentials.py`, `ssh_host_keys.py`, ...) | configuration, previews, known hosts, credentials | preview, probe, apply | `HostOnboarding` |
| accepted runs (`ssh_tools.py`, `cloudflare_tools.py`, `docker_tools.py`, `executable_profiles.py`, ...) | what a run was accepted with, configuration, repository | accept, re-check, execute, commit | `AcceptedRun`, `SSHPolicy` |
| run queries and result publication (`run_store.py`, `run_query_chunks.py`, `run_public_result.py`, `run_publication.py`) | pages, chunks, snapshots, result file | list, continue, poll, publish, serve | `RunQueries` |
| service lifecycle (`server.py`, `service_reload.py`, `reconciliation_status.py`) | reconciliation rows, active and previous configuration | start, claim, resolve, reload, roll back | `ServiceLifecycle` |
| supervisors (`supervisor_*.py`) | supervisor row, child, prompts | tick, pause, resume, cancel | `Supervisors` |
| local agents and long-run jobs (`local_coding/`, `local_agent/`, `jobs/`, `supervisor/`, `policy/`) | approvals, edits, tasks, jobs | propose, approve, apply, validate, roll back, contain | `LocalAgents` |
| repository wiki (`repo_wiki.py`) | generations, current pointer, staleness marks | refresh, publish, mark, read | `RepoWiki` |
| research library (`research/`) | archive, versions, index, packets | import, upload, reconcile, export, restore | `ResearchLibrary` |
| knowledge and memory (`knowledge/`, `memory/`, `memory_guard/`) | note files, catalog, memory records | save, supersede, rebuild, search | `KnowledgeBase` |
| evidence backfill (`evidence_backfill.py`) | evidence in rows or artifacts, progress | sweep, verify, cut | `EvidenceBackfill` |
| report manifests (`return_loop/`) | report texts and manifests | check, build, mark | `ReportManifests` |
| schemas, configuration parsing, readers, dashboards, adapters, measurement scripts | none, or none that another part reads back | | not modelled |

Components interact through the database, files and the operating system.  The
server reconciles before it serves a request (`server.py`, `run_server`);
workflow workers, supervisors and task backends create a `JobManager` of their
own in other processes, so launches and cancellations can happen while a
restarted server is still reconciling.  Groups, workflows, tasks, supervisors
and remote tools all sit on the run engine; each of their modules has the part
of a run's row that it looks at, and `ParallelGroups` shows that its children
are runs in the sense of `RunLifecycle`, the specification that `DurableRun`
implements.

Hard behaviours, and what correctness means for them:

* a run is relaunched after a crash while its first worker may still be about to
  start: the command must not be executed twice;
* decisions are based on rows read earlier: the version must identify what was
  read;
* completion, cancellation, timeout and recovery race: one outcome, and a
  cancelled run has stopped;
* a crash may strand a run, a lock, a workflow, an attempt, a patch, a request:
  a restart must resolve it;
* competing refills count free slots: limits hold, nobody is launched twice,
  nobody is forgotten;
* a change of several files is cut off in the middle: it must be whole, or known
  to be broken;
* what was checked at acceptance or preview has changed when it is used;
* what is reported (an outcome, a page, readiness, a manifest) must be true of
  what it reports on.

`PROJECT.json` lists these as hazards, each at its line with its properties.

## Modules

Each component has one module, named in the table above: its rows, files and
processes as variables, one action per transaction or file operation of an
operation (a read followed by a conditional write is two actions), failures and
races as a set `Faults` or bounded events.  The head of each module lists its
abstractions.  Further:

* `RunLifecycle` is what a client may rely on: a run waits, is executed at most
  once, may be held for an operator or asked to stop, and settles once; only an
  executing run completes or times out, only a stopping one is cancelled.
  `DurableRun` implements it (`ImplementsLifecycle`), and so does each child of a
  group (`ChildrenAreRuns`).
* `StepPlan` is the abstract workflow: steps wait for their dependencies, start
  once, end once, and the workflow ends with an outcome its steps justify.
  `Workflows` implements it (`ImplementsPlan`).
* `SSHPolicy` holds the policy decisions as operators.
* `*Proofs` hold the theorems.  `AdmissionProofs`, `HostsProofs`, `RecordsProofs`,
  `ServicesProofs` and `WorkProofs` are about the compositions `MCAdmission`, `MCHosts`,
  `MCRecords`, `MCServices` and `MCWork` themselves, the others about their component.

The `MC` modules are the instances TLC checks.  Where one run covers several
instances or several components that share no state, a variable `focus`, chosen
in the initial state and never changed, says which of them a behaviour
exercises; the others stand still.  Nothing is lost by this: with no shared
state, every property of one component is a property of its own steps.

`Faults` of `DurableRun`: `spawn` (a process cannot be started), `io` (an
artifact or a statement of the store fails: a launch is undone, an exception out of
`_reconcile_run` marks the run `recovery_pending`), `publish` (`result.json` cannot be written),
`unconfirmed` (a termination is not confirmed), `worker_crash`, `host_crash` (a
launching process other than the server dies) and `acquire_race` (the read and
the write of `acquire` interleave).  The server may crash `MaxCrashes` times at
any moment.  `Hosts` says whether launches and cancellations come from the
server only or also from another process; `TreeKill` whether terminating a
worker also terminates its child (Windows `taskkill /T`) or not (a POSIX process
group, while the child has a session of its own).

## Runs

| run | instance | properties |
|---|---|---|
| `run_safety` | a run against a synchronous operation with two server crashes (`exclusion`); a run through crashes, failing spawns, writes and publications (`faults`); a run launched and cancelled by two processes (`hosts`) | `TypeOK`, `AtMostOneExecution`, `LeaseAgreement`, `VersionIdentifiesState`, `RepositoryExclusion`, `CancelledHasStopped`, `ImplementsLifecycle` |
| `run_liveness` | fair threads: worker and server crashes, failing writes and unconfirmed terminations (`faults`); launches by two processes that may die, failing spawns (`hosts`) | `RestartSettles` |
| `groups` | two children, one slot: launch races and failing spawns (`slots`), crashes (`restart`) | `GroupLimit`, `GroupsSound`, `ChildrenAreRuns` |
| `orchestration` | two groups under one global slot, fair actors; a workflow whose workers and server die, fair actors | `PendingLaunched`, `EndedGroupIsPublished`, `RefillKeepsGlobalLimit`, `WorkflowSettles` |
| `workflows` | an external step and a summary of it, a cancelling client, store failures, refused and unconfirmed operations, crashes (`faults`); unreadable process identities (`blind`) | `WorkflowSound`, `OutcomeIsFinal`, `ImplementsPlan` |
| `work` | tasks: two calls of one request, a successor, handlers, lost and refused runs; three overlapping patches with I/O and git failures, deaths, and a user who edits, stages, renames and commits between the steps; two Hermes requests over one slot and two generations | `TasksSound`, `TasksMoveOn`, `PatchesWhole`, `PatchesTruthful`, `CallsIsolated` |
| `hosts` | two profile changes through every failure of worker and server; a remote run of either tool whose link, controllers, worker and server fail | `ActivationTruthful`, `RequestsAnswered`, `RemoteTruthful`, `AdoptedConcludes` |
| `admission` | fourteen kinds of run while configuration, files and repository change; two hosts; start, reconciliation and reload | `AcceptedIsExecuted`, `CommitsOwnChanges`, `HostChangesExact`, `ServiceTruthful` |
| `services` | supervisor, local agents, queries, git and artifact tools, wiki, each under two racing callers or a user | `SupervisorTruthful`, `AgentWorkTruthful`, `QueryAnswersTrue`, `ToolsExact`, `WikiPagesTruthful` |
| `records` | research library, notes, evidence, manifests under racing callers, deaths and faults | `ResearchTruthful`, `NotesSound`, `EvidenceKept`, `ManifestsTruthful` |
| `run_lost_result` | no faults, one crash | a worker drops its result and releases a running run's lock (`LockReleasedOnlyWhenTerminal` is violated) |
| `onboarding_known_hosts` | two hosts, one applier | activating a second host drops the first one's keys (`ActivatedHostsStayKnown` is violated) |

The last two are disagreements between the code and its documentation or
comments; `PROJECT.json` quotes the lines.

### Bounds

One run is enough for the properties of a single run: no operation but `acquire`
and `recover_stale` touches another run's row, and the theorems cover any
number.  Two crashes let a run be relaunched and its relaunch be interrupted,
which uses up all launch attempts (`MaxLaunchAttempts` is the code's 2).  One
heartbeat is enough to make a comparison of `heartbeat_at` fail.  `MaxVersion`
only stops publications from failing for ever.  For groups, two children and one
slot are the smallest instance with a queue; a second group brings in the global
limit and the creation order.  A workflow of an external and a dependent local
step has every kind of transition; one client cancels it.  For tasks two calls
race for one request and a third becomes its successor; a restart, a refusal and
a lost run are `MaxUpsets` events.  Three patches are the smallest set with an
overlap and a non-nested revert, two mishaps let a user act between two commands
of a commit that then fails.  Two Hermes requests over one slot compete for
a worker, and two generations let one be served across a reload; `MaxReplacements`
is the code's 8 and out of reach with the workers of the run.  Two changes
let an activation meet the remains of another; a remote run meets up to two
failures and two cancellations.  An agent's calls are few (`MaxAgentCalls`)
but each job or edit takes several writes, which interleave with the other
caller's.  The services and records have two callers and a
bounded number of calls, steps or faults, enough for every pair of operations to
interleave and for one more to observe the result; restoring an exported overlay is
not counted, so that it is reached with a packet in it.  Callers, files of the
services and ids of the notes are interchangeable (`SYMMETRY`; those instances
check no liveness).
`CHECK_DEADLOCK FALSE`: a system whose work is done has nothing to do.

### Fairness

A thread or process that can take a step takes it; a dead server is started
again by its service manager; a child command of a run ends (every profile has a
timeout); the coordinator of activations polls.  Nothing makes a client cancel,
a process die, a heartbeat come, a link recover, or a remote command end.  Each
fairness condition is guarded by the focus it belongs to.

## Where the checked properties stop

The properties hold in the instances above; outside them the code does less than
its documentation says, and the models show it.  The instances say so where a
fault is left out.

* **Runs.**  A run in `cancellation_pending` whose canceller died is refused by
  `cancel_run` (`job_manager.py:2959`) and retained by reconciliation, so it
  stays there (README.md:389 has its task report `cancellation_pending` meanwhile).  `acquire` judges the lock
  row outside its write transaction (`operation_locks.py:171`, `:543`): two
  acquirers of a stale lock can both work, and with two launching processes the
  error path of one that lost its lease fails the relaunched run and frees its
  lock.  Without tree termination a cancellation between `Popen` and
  `attach_child_pid` leaves the child running.  `RepositoryExclusion` and
  `CancelledHasStopped` are therefore stated where those windows are closed.
* **Groups.**  The first launch of a group counts its own children only
  (`parallel_groups.py:650`): two groups together can exceed the global limit;
  `RefillKeepsGlobalLimit` says what does hold.  A server that dies between
  reserving and starting leaves children `launch_pending` without the lock row a
  relaunch asks for (`operation_locks.py:386`).  The launcher's last event can
  take the claim from a worker that has read the row (`parallel_groups.py:753`):
  the child keeps its slot and the queue stops, so `PendingLaunched` is stated
  without that race.  The failure policy is best effort: a cancellation that
  loses to a version bump is not repeated.
* **Workflows.**  The second attempt of `record_worker_launch` can bump the
  version between the read and the write of the terminal transition
  (`workflows/worker.py:424-436`), after which a failed stop step ends as
  `completed`.  With two cancelling clients a workflow can be `cancelled` while
  its child runs (`workflows/manager.py:206-210`).  A child run reserved but never
  launched is polled for ever, and its cancellation never completes.  A worker
  that loses its claim to the launch record leaves the workflow queued until the
  next restart.
* **Tasks.**  A supersede between `require_launchable_attempt` and
  `backend.start` starts a run for a superseded task; an attempt attached to a
  lost run is quarantined and its task stays accepted; a `cancel` command whose
  server dies stays accepted.
* **Engine, step by step.**  Some steps of `DurableRun` stand for several transactions
  in a row: the launch's bind (binding the lock and moving the row to starting), the
  worker's lock and start, attaching the child, undoing a failed launch, and the
  closing and releasing steps of worker, canceller and reconciler.  What another
  actor could see in between is a row or a lock that is a moment behind, which the
  separate crash actions also leave.  Launches of `ParallelGroups` leave out the first
  event of a child (`parallel_groups.py:704-724`), whose version bump has the effect of
  the fault `launch_race`, and take a claim with the refresh before it.
* **Hermes.**  A request cancelled while it waits can still be executed by the
  fallback (`hermes_service_gateway.py`), so `CancelRepaired` speaks of one cancellation; the
  fallback runs outside the resource lock.
* **Patches and tools.**  The commit of a patch reads HEAD into an index of its own,
  adds, compares and commits by separate commands (`git_tools.py:1327-1364`): a user's
  commit in between becomes the parent of one that undoes it.  The other end of a
  staged rename is committed with a file although it is not one of the patch's
  (`git_tools.py:1233-1250`), and a rename staged away from a file is listed under its
  new name only, so the check for foreign staged files does not see its source
  (`git_tools.py:1215-1230`, `:1569-1571`).  The properties exempt these cases by name
  (`Partners`, `writer.parent`).  `RepoTools` finalizes a commit in two steps, in which
  the user stages and edits; user commits in between are in `RepoWriter` and
  `AcceptedRun`.  A crash during apply leaves `applying`, and neither
  apply nor revert accept it afterwards; reverts in another order can bring back
  an earlier payload; a user's edit between the comparison and the write is lost.
  A user staging between the check and the commit is committed
  (`git_tools.py:1495-1508`); a timeout of git is not a `GitCommandError` and
  restores nothing.
* **Hosts.**  The worker's except clause (`ssh_activation.py:897-927`) records
  `ROLLED_BACK` with `rollback_verified` from every state but two: after an
  acknowledgement timeout, while the request stays on disk and is activated later, and
  after a failing write of its own, while the targets have the change.
  `ActivationTruthful` therefore asks of a presumed rollback (`Presumed`) only that
  the request or the server's answer on disk tells the truth; rotation of a
  host key cannot succeed, because no preview records the previous identity
  (`ssh_activation.py:398-409`).  A dead remote controller leaves `running` in its
  state file, and the run is adopted for ever; `on_progress` writes back a row
  it read and can erase a cancellation request.  In `HostOnboarding` the activation is one
  step (its parts are in `SSHActivation`), and the write that restores `config.yaml` does not
  fail (`ssh_profile_manager.py:649-652`).
* **Service.**  A process that dies between two start-up paths leaves the earlier
  `ok` rows of the later paths; a row whose write was refused is never retried
  because `last_ok` is set first (`server.py:6494-6507`); a reload reads the file
  again after it was validated.  A failing reload of the module, an `OSError` while a row is
  claimed and the per-request `except` of the reconciliation at start
  (`ssh_activation.py:1186-1203`) are not modelled.
* **Accepted runs.**  Some kinds resolve their profile again instead of comparing it
  with what was accepted; an upload or executable can change between its hash and
  its use; two Cloudflare profiles share one `.env` under different locks.  A rotation
  makes the secret's temporary file before the checks that may raise
  (`cloudflare_tools.py:1536`, `:715`), outside the clause that removes it, and a failing
  removal is ignored (`:306-310`): `PublishedWhole` exempts both.  A repository command
  whose commit succeeded and whose index could not be synchronized fails with HEAD moved.
* **Supervisors and agents.**  One manager object owns the jobs' handles, and legacy
  jobs are off by default (`long_run_manager.py:132`).  Where approval is not required
  an edit that policy reserved for a human is applied like any other; overlapping
  applies can leave `run.json` and `validation_results` disagreeing; a timed-out
  validation counts as passed (`local_coding_manager.py:544-556`).  Pause and resume write
  without a version bump, so a pause racing a cancel can bring a cancelled supervisor
  back.  `approve_plan` (`supervisor_engine.py:224-275`) is not modelled, because only tests
  call it.  If a caller is added, `SupervisorTruthful` no longer holds: after an unverified
  cancellation the row is in `needs_input` with its child at work, `approve_plan` clears
  `active_child`, and the next cancel finds no child and records `cancelled`.  The
  engine's `except KeyError` (`:473-479`) is out of reach: `JobManager.get_status` answers
  a missing run with an error payload (`job_manager.py:2425-2442`), which `Advance` has.
* **Queries.**  A poll answers `unchanged` by the version and misses what changes
  without one; a lost reply to the last chunk expires its cursor.  An event and the update
  of its run's row are one step, and cursors do not expire by age.
* **Wiki, research, notes, evidence, reports.**  A mark and a refresh write the same
  `CURRENT.json.tmp` (`repo_wiki.py:806-815`): a mark can publish the refresh's older
  pointer, which moves the count of marks back, and later marks can bring it to the
  value a refresh has captured, so that the refresh does not see them.  The page is as
  checked, but served as fresh; `WikiPagesTruthful` speaks of marks until that has
  happened (`crossed`).  Opening, which truncates, and writing that file are one step; a pointer
  published half written reads as none (`:631-638`).  A file indexed while dirty and then reverted keeps its record; a crash leaves `.refresh.lock`; two importers fork the
  chain of versions; what is uploaded is the archived object as it is on disk then,
  so a damaged one is uploaded damaged (`importer.py:270-272`; a removed one is not
  modelled); two saves of one path overwrite the file before the catalog
  refuses the second; memory that was archived, or updated to other words, can be told
  again, since duplicates are sought among records in use by their current words
  (`memory/store.py:289-306`), and an update writes back the archived flag it read
  (`update` and `archive` have no caller in `src/soma` yet); a second sweep can overwrite the artifact that a cut row
  refers to; the worker's artifact and the row it finalizes are one step, and that artifact is
  not damaged later; a rebuild of the knowledge catalog reads all notes in one step; a report marked between check and build is offered again, and so is one whose
  manifest cannot be read (`pulse_contract.py:38-43`).

## Proofs

All theorems hold for every value of the constants that satisfies the named
`ASSUME`s of their modules (types and distinctness), for every subset of the
faults and all bounds, with two exceptions that their statements name:
`Exclusion`, with `CancelledStops` (the hypothesis `Sheltered`), and `WorkflowIsSound` (one cancelling
client).

### DurableRun

The checked invariants are not inductive: that the executing worker holds the
lease follows from what each actor last read.  `IInv` adds this per actor: a
snapshot held by a thread, worker, canceller or the reconciler agrees with the
row as far as its version says; nobody acts on a run before its row exists; a
row's lease is at most one more than its launch attempts, and a first launch
that is not recorded has none.  Most steps only *evolve* a row (a relation on
rows: the version grows or the decision-relevant fields stand still, the lease
stays, a claimed run is never unclaimed again); every part of `IInv` survives an
evolution, so each action needs an argument only about the record it changes.
The two steps that do not evolve a row, creation and relaunch, are proved
directly: at creation nobody knows the run; at a relaunch the version comparison
shows that the run was still unclaimed, so that nobody is executing it.

* `TypeCorrect`, `SingleExecution`, `LeasesAgree` (from `LeaseOwnership` and
  `LockAgreement`) and `VersionsIdentifyStates` follow from `Invariance`
  (`Spec => []IInv`).
* `Refinement` shows `Spec => ImplementsLifecycle`: each step changes the status
  of at most one run, and along an edge of `RunLifecycle`.

The second part proves what the lock is for.  `Exclusion` shows
`Spec => [](RepositoryExclusion /\ CancelledMeansStopped)` for any number of
runs, synchronous operations, crashes, failing spawns and publications, under
`Sheltered`: one process launches and cancels, a termination reaches the child
and is confirmed, a worker does not die by itself, artifact writes succeed, and
two acquires do not interleave.  These are the conditions of the instance
`exclusion` of `run_safety`, with any number of actors.  The invariant `XInv`
says, next to `IInv`, who is in `acquire` (`HostOK`, `AcquireOK`), and per run
where its processes can be given its row and its lock (`ProcessesOK`: whoever
works has the lock, an ended run has no process at work) and what launcher,
canceller and reconciler have made sure of before they end a run or release its
lock (`LaunchOK`, `CancellingOK`, `ReconcilingOK`).  No part of `Sheltered` can
be dropped: TLC violates `RepositoryExclusion` when a termination is
unconfirmed or misses the child, a worker dies leaving its child, an artifact
write fails, two synchronous operations acquire at once, or a second process
launches (with a failing spawn and a crash).  `CancelledStops` states it for the
composition that `run_safety` checks (`CancelledHasStopped`).

### ParallelGroups

`SlotLimit` shows `Spec => []GroupLimit` for every set of groups, children and
clients and every limit.  Only a reservation and a claim put a child in flight;
every other step is *calm*: a child in flight afterwards was so before.  This
needs the inductive invariant to say that a child not yet launched has no
recorded process, or a cancellation would put it in flight, and that a worker
about to commit has a terminal result.  A reservation and a claim both choose
children with fewer than k others before them, and `FirstK` shows by an
injection into 0..k-1 that there are at most k of those; for a claim k is the
number of free slots, counted over rows that include all those in flight.
`GlobalLimitKept` shows `RefillKeepsGlobalLimit` with the same lemma and the
order of creation and position (`AheadOrder`).

A second invariant, `AInv`, follows the children in hand.  A child about to be
started is in the hand of one actor, once, has left the queue and was not started
before (`SpawnOK`); an actor only knows children of groups that exist
(`ActorsOK`, `GroupsOK`); a listed row that is absent has no process
(`ServerOK`).  Steps that start nothing and claim nothing are *orderly*: each row
moves along an `Edge` of the lifecycle and no hand grows, which keeps all of
this.  A start moves a child out of the only hand that held it; a reservation and
a claim take up children that nobody had, because they were absent or pending.
From it follow `ChildrenRun` (`ChildrenAreRuns`: without `ActorsOK` the error
path of a launch could fail a child that does not exist) and `GroupsAreSound`
(`TypeOK`, `SpawnedOnce` and `EndedGroupIsFinal`, the last one because an outcome
never changes).  `InOrder` is defined by the property of the sequence, whose
existence the proof derives from the ranks (`Listing`).

### Workflows

`IInv` says what every actor may still believe: a row read earlier is the row or
an older one (`SnapOK`: with the row's version it is the row), a worker engaged in the workflow holds the lease the row
names, a child run was launched for the step that names it, and the control
flags agree with the row.  From `Spec => []IInv`:

* `WorkersSound`: types, one worker, one launch per child, sound ownership, for
  any number of clients;
* `OutcomeFinal`: `OutcomeIsFinal`;
* `FollowsPlan`: `ImplementsPlan`;
* `WorkflowIsSound`: `WorkflowSound` for at most one cancelling client.  A second
  invariant `CInv` follows the canceller between its reads, signals and writes.
  The hypothesis is needed: a `cancel_workflow` call whose request is refused
  goes on with the row it reads then (`workflows/manager.py:206-210`), whose
  active child need not be the one at work when another call's request succeeds.

### TaskPlane

The proofs are in `WorkProofs`, directly about the composition `MCWork`: its steps are
steps of `TaskPlane` or leave the tasks alone.  The invariant relates three records of
one request: the task row, the scope's attempt and the backend run.  `RowsOK` says which
combinations exist, `OneTask` that two tasks of one request do not both hold a run,
`ThreadsOK` what a call or handler may rely on between its transactions (`WorksOn`,
`Read`, `CallOK`), `StartupOK` what a restart has already passed.  `TasksStaySound` and
`TasksGoForward` follow for any number of calls and handlers, whatever patches and
Hermes requests do.  The second one needs the invariant, too: that a write never takes
an outcome back depends on which row its thread has read.  The proof needed one
assumption TLC's instances met silently: tasks that exist from the start have distinct
requests.

### RemoteRun

Five writers meet in two files and a row.  `IInv` has a part per writer
(`ControllerOK`, `CancellerOK`, `WorkerOK`, `ServerOK`) that says which verdict it
may be about to write given where the process is, a part for the files and one
for the row; `Over` is the idea they share: the remote command has ended and
nobody can start it again.  `RemoteRunsTruthful` follows, and from the same
invariant `VerdictIsFinal`: whichever of worker, canceller and poll ends the run
first, the others do not revise it.  The attempt to prove the first one showed
that the model let a controller die that had never been started; the guard of
`ControllerDies` now excludes it.

### SSHActivation

`ActivationTruthful` relates four kinds of files two processes write without a lock
between them.  `ActivationInv` says, while no worker has left a request unanswered
(`Attended`): which files a change may have (`RecordsFit`); what the worker
has been told at each of its writes, also those of its except clause (`WorkerFits`); that the coordinator
only works for the worker that waits (`CoordFits`) and how far it has come with the
targets (`TargetsFit`); that the backups of the change at work are older than it and,
unless an earlier change broke the unit, a unit (`BackupFits`); and that a change
that was never touched or was verified as rolled back is in no target and in no
backup that may still be restored (`NoTrace`).  The last two are what makes the
property inductive: a restore brings back what the backup holds, so "in no target"
is only kept if the backup is free of it too.  Once a worker has given up waiting
nothing of this holds, which is what the condition `abandoned = {}` of the property
says and the run's faults show.  A rollback that the worker records without having
been told is `Presumed` in the property: the proof shows that then the request or
the server's answer still says what became of the change.

### RepoWriter

The proof that no half of a patch is hidden is in `WorkProofs`, directly about
`MCWork`.  `NothingLeftBehind` is not inductive: a revert brings back whatever the
rollback directory holds, and that may be the payload of another patch.  `Rooted(c, f)`
is what every content the operation handles has in common, on disk, in `old` and in
`snap`: if it is the payload of a patch, that patch has written there, and if the patch
should be gone, a patch that stays (applied, reverted or torn) has it as its rollback
copy.  `CopiesFit` says the first half of the copies; `ManifestFits` that a preview's
base is no payload of its own patch and that an applied patch has what it needs to be
reverted; `StageFits`, `ReadingsFit` and `FilesFit` say, stage by stage, what the
operation has done, what it has read, and what is on disk apart from the user's changes.
`PatchesStayWhole` follows from `Rooted` at once, also while an operation is at work on
the patch; `PatchesStayTruthful` from the last three: which steps write a status
(`StatusChanges`) or a file (`DiskChanges`) is read off the actions.  Its part about
commits needs `CommitFits`: between the commands of a commit the isolated index
differs from the HEAD it was read from in the listed paths only, and has the
operation's files as they are on disk, unless the user wrote them since.

### Records

`RecordsProofs` has an invariant per component of `MCRecords`.

* `EvidenceStaysKept`: evidence is never only where nobody looks.  Next to
  `EvidenceKept`, `SweepsSound` says that a row about to be cut has a verified artifact
  or one that a second sweep has overwritten.
* `ManifestsStayTruthful`: `CallSound` says what a build has searched before it writes
  and what a call saw of a delivered manifest when it started, or that it could not
  read it.
* `NotesStaySound`: what a call has read stays true because files do not go away and an
  index that was complete has been seen (`CallFits`); that a row's file is its own
  note holds until two calls overlap (`clash`), and until then `Apart` keeps the notes,
  paths and memories of any two calls distinct, an update or an archiving among them.
* `ResearchStaysTruthful`: versions, mappings, packets and documents only grow, and damage stays visible (`Grows`);
  `VisitFits` is what a session has found and keeps because of that, `ParsesApart` that
  two uploads have two documents, `VersionsFit` that a version is archived, mapped to
  its own bytes and supersedes an older one, `DumpFits` that an export read piece by
  piece has every claim of its packets.

The proofs needed three assumptions that the instances met: no note has the id that
marks an absent or a damaged one, no content is 0, no draft is `NoDraft`
(`KnowledgeConstants`, `LibraryConstants`).

### Admission

`AdmissionProofs` is about `MCAdmission`, with one invariant per component.

* `AcceptedStaysExecuted` and `CommitsStayOwn` follow from `RunInv`.  Its core is
  `ExecutionFits`: whoever runs, or has run, was vetted by the configuration the worker
  itself loaded, at the acceptance's tier, and with the accepted bytes (`Vetted`), and
  what it executed is what it vetted (`Executed`), although configuration and source
  change before, between and after.  The parts per kind say what the steps of a run
  have done by the time the next one relies on it: `RepoFits` that what will be
  committed was written since the run began, and that the index the commit is made
  of differs from HEAD there and in what a user committed since (`BasedOn`), `DeployFits` how far a release has come with
  the parts its profile has, `TempFits` when a file under transfer is whole and which
  kinds of run can leave one.
* `HostChangesStayExact`: `TrialFits` carries the evidence from the scan to the
  activation although the source of host names changes under it; `ApplyFits` says that
  an apply that nobody wrote in between has the file it was previewed on, or the
  candidate, in front of it.
* `ServiceStaysTruthful`: `RowsFit` says that a start-up path that failed or was cut off
  has a row that says so or that the store refused, `CallsFit` that at most one call is
  under way unless calls are torn, which is what "between calls" needs.

### Services

`ServicesProofs` has an invariant for each of the services of `MCServices`.

* `AgentWorkStaysTruthful`: `EditFits`, `TaskFits` and `JobFits` say what the agent at
  work has read or been told (an approval, an exit code, the end of a command) at each
  point where it may write a status.  `CallerFits` carries this through the writes of a
  job's start and end, which other callers' refreshes and containments interleave with:
  whoever is about to write `running` still owns the process, or it was told to stop.
* `WikiPagesStayTruthful`: `PointersFit` says that every pointer that is current, in the
  temporary file or in somebody's hands names a generation that is complete, or, in the
  refresh that makes it, the last one.  `MarksCount` relates the counts: each mark
  raises the current one, so that a refresh that finds the count it captured has seen
  every mark; it holds until a mark publishes a file that is not its own.  The proof
  found that this can happen, which no bound of the run reached.
* `QueryAnswersStayTrue`: `PageFits` says of the keys received that every matching row
  below the watermark is among them or lower than the cursor, whatever happened to the
  rows since (`PageKept`); `NewestKeys` shows that a page holds the greatest keys, by
  numbering a finite set of keys from its greatest (`Ranks`).  `EventsFit` and
  `ChunksFit` say the same of events and chunks.  `AnswerFits` is what a reader's copy
  and a stored projection are worth: rows only move on (`RowAfter`), with a version that
  counts what is compared, and a result stays.
* `SupervisorStaysTruthful`: `SupRowFits` relates row and child (a child at work is named
  by a row that cannot be queued again), `ClientFits` what a caller read and is about to
  write with what may have become of the child since; a child only moves on
  (`MovesOn`), so that a stale reading is still true when it is written.
* `ToolsStayExact`: `IndexFits` says how index, snapshot and the state before the call
  differ at each point by what the user staged meanwhile and the hidden ends of staged
  renames only, `FileFits` and
  `CleanupFits` that what is about to be written or unlinked is what was seen, unless
  the user was there since.

### Only model-checked

* The liveness properties: fairness and `ENABLED` are outside the prover.
* The part `OpenHoldsSlot` of `GroupsSound`, which does not hold for every fault: a worker
  that dies while its launcher and a canceller are both busy with its child leaves
  PowerShell open under a row that the launcher fails before the canceller has
  terminated it.  The rest of `GroupsSound` is proved (`GroupsAreSound`).
* `CallsIsolated` of `HermesService`, whose invariant ties fifteen variables of clients,
  slots, workers and generations together; it is checked on the instance of the run
  `work` only.
* The properties whose runs expect a violation, since the code breaks them.

All other invariants and action properties of the passing runs are proved.

## Not modelled

PID reuse and the Windows launcher process in front of the worker; several
repositories (no operation touches two lock rows); requests that are refused by
their validation (they change nothing); the contents of commands, results and
events; `apply_repo_patch` of the older patch tool, `create_branch`, the wiki's
migration from its older layout, Hermes' recovery of recorded processes, task
checkpoints, links and event rows, supervisor notifications; and the components
listed as not modelled in `PROJECT.json`.

## Plan

The next proof worth its effort is `OpenHoldsSlot` of `ParallelGroups` where no launch
races a cancellation.  `CallsIsolated` of `HermesService` needs an invariant with a part
for each of slots, leases, workers in hand, restorations and reloads.
