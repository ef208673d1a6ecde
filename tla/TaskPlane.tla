------------------------------ MODULE TaskPlane ------------------------------
(***************************************************************************)
(* The canonical task plane: controllers start durable commands through    *)
(* TaskManager, which owns one task row per controller request, a project  *)
(* scope reservation with one run attempt per task, and a reserved run     *)
(* identity that is handed to the run engine.                              *)
(*                                                                         *)
(* A start call makes up its own task_id and run_id, so both are           *)
(* identified with the number of the call.  The run engine is the abstract *)
(* RunLifecycle that DurableRun implements; it keeps running while the     *)
(* server is down.  All handlers are threads of one server process and     *)
(* share the sqlite database; every transaction is one step.               *)
(***************************************************************************)
EXTENDS Naturals, FiniteSets

CONSTANTS
    NumCalls,       \* start_durable_command calls, a retry being another call
    RequestOf,      \* the controller_request_id of every call
    ContentOf,      \* the normalized content of every call
    ProjectNamed,   \* the calls that name the project explicitly
    Finished,       \* calls whose task completed before the behaviour begins
    NumHandlers,    \* concurrent status, result and cancel requests
    Faults,         \* subset of {"refuse", "lose"}
    MaxUpsets       \* bound: server crashes, runs held and scope switches together

\* What the constants must be; a request has been answered with one task only.
TaskConstants ==
    /\ NumCalls \in Nat /\ NumHandlers \in Nat
    /\ MaxUpsets \in Nat
    /\ DOMAIN RequestOf = 1..NumCalls
    /\ DOMAIN ContentOf = 1..NumCalls
    /\ \A c, d \in Finished \cap (1..NumCalls) : RequestOf[c] = RequestOf[d] => c = d

Calls == 1..NumCalls
Handlers == (NumCalls + 1)..(NumCalls + NumHandlers)
Actors == Calls \cup Handlers

VARIABLES
    enforcement,    \* ProjectScope: "inactive", "enforced" or "paused"
    task,           \* the tasks table
    scope,          \* project_task_reservations: status per task
    attempt,        \* project_run_attempts: status per task
    adjudicated,    \* records with an immutable adjudication
    run,            \* the engine's runs
    lost,           \* runs whose row was lost with the store
    proc,           \* the threads of the server
    server,         \* "up", "down", or a phase of the startup
    todo,           \* tasks the startup has still to reconcile
    upsets          \* how many upsets have happened

vars == <<enforcement, task, scope, attempt, adjudicated, run, lost,
          proc, server, todo, upsets>>

Engine == INSTANCE RunLifecycle WITH Runs <- Calls, life <- run

engineVars == <<run, lost>>
scopeVars  == <<scope, attempt, adjudicated>>
serverVars == <<server, todo, upsets>>

TerminalStates == {"completed", "failed", "cancelled"}
TaskStates == TerminalStates \cup {"accepted", "queued", "running",
    "cancellation_pending", "recovery_pending", "uncertain"}
\* recovery_reason; recovery_state follows from it
Unresolved == {"launch_incomplete", "run_record_missing", "backend_recovery"}
Reasons == Unresolved \cup {"none", "superseded"}

NoTask == [state |-> "absent", reason |-> "none", version |-> 0, published |-> FALSE]

Stored(t) == task[t].state # "absent"
Scoped(t) == scope[t] # "none"
IsTerminal(row) == row.state \in TerminalStates
RunStored(t) == run[t] # "absent" /\ t \notin lost

Idle == [pc |-> "idle", task |-> 0, seen |-> NoTask, obs |-> "absent"]

At(a, pc) == server = "up" /\ proc[a].pc = pc

Upset == upsets < MaxUpsets /\ upsets' = upsets + 1

Goto(a, pc) == proc' = [proc EXCEPT ![a].pc = pc]

GotoWith(a, pc, t) == proc' = [proc EXCEPT ![a].pc = pc, ![a].task = t]

\* find_by_controller_request
Matching(c) == {t \in Calls : Stored(t) /\ RequestOf[t] = RequestOf[c]}

\* require_task_attempt: an unscoped task needs none.
AttemptHolds(t) == Scoped(t) => attempt[t] # "quarantined"

----
(***************************************************************************)
(* reconcile_task: the row is read first, then the backend, and the write  *)
(* is a compare-and-set on what was read.                                  *)
(***************************************************************************)

map_backend_status ==
    [s \in Engine!Lives \ {"absent"} |->
        CASE s = "waiting"   -> "queued"
          [] s = "executing" -> "running"
          [] s = "stopping"  -> "cancellation_pending"
          [] s = "held"      -> "recovery_pending"
          [] s = "timed_out" -> "failed"
          [] OTHER           -> s]

Projected(row, state, reason) ==
    [row EXCEPT !.state = state, !.reason = reason, !.published = @ \/ state \in TerminalStates]

\* _derive_target, with the version a changed row will have
Target(row, obs) ==
    LET next ==
        IF obs = "absent"
        THEN IF row.state \in {"accepted", "queued"}
             THEN Projected(row, "recovery_pending", "launch_incomplete")
             ELSE Projected(row, "uncertain", "run_record_missing")
        ELSE LET state == map_backend_status[obs] IN
             Projected(row, state,
                       IF state = "recovery_pending" THEN "backend_recovery" ELSE "none")
    IN  IF next = row THEN row ELSE [next EXCEPT !.version = @ + 1]

\* DurableRunBackend.query
Observation(t) == IF RunStored(t) THEN run[t] ELSE "absent"

AfterReconcile(a) == IF a \in Calls THEN "done" ELSE "idle"

\* Reads the row, then the backend; if the row changes in between, the write
\* fails its guard, so one step stands for both.  A quarantined attempt raises
\* out of the handler.
Observe(a) ==
    LET t == proc[a].task IN
    /\ At(a, "observe")
    /\ IF AttemptHolds(t)
       THEN proc' = [proc EXCEPT ![a].pc = "write", ![a].seen = task[t],
                                 ![a].obs = Observation(t)]
       ELSE proc' = [proc EXCEPT ![a] = [Idle EXCEPT !.pc = AfterReconcile(a)]]
    /\ UNCHANGED <<enforcement, task, scopeVars, engineVars, serverVars>>

\* mutant: the compare-and-set guards the state but not the version
GuardHoldsByState(row, seen) == row.state = seen.state

\* conditional_update's WHERE clause
GuardHolds(row, seen) == row.version = seen.version /\ row.state = seen.state

WriteRow(a) ==
    LET t == proc[a].task
        p == proc[a] IN
    /\ At(a, "write")
    /\ task' = IF GuardHolds(task[t], p.seen)
               THEN [task EXCEPT ![t] = Target(p.seen, p.obs)] ELSE task
    /\ proc' = [proc EXCEPT ![a] = [Idle EXCEPT !.pc = AfterReconcile(a)]]
    /\ UNCHANGED <<enforcement, scopeVars, engineVars, serverVars>>

----
(***************************************************************************)
(* start_durable_command                                                   *)
(***************************************************************************)

\* A stored request is replayed when scope and content agree.
Replays(c, t) == AttemptHolds(t) /\ ContentOf[t] = ContentOf[c]

\* Reads enforcement, then looks for the request: answers a replay (which
\* reconciles an open task), a conflict, a refusal, or goes on to reserve.
StartFind(c) ==
    /\ server = "up" /\ proc[c].pc = "new"
    /\ \/ \E t \in Matching(c) :
            LET owned == Scoped(t) \/ c \notin ProjectNamed IN
            IF owned /\ Replays(c, t) /\ ~IsTerminal(task[t])
            THEN GotoWith(c, "observe", t) ELSE Goto(c, "done")
       \/ /\ Matching(c) = {}
          /\ \/ enforcement = "enforced" /\ GotoWith(c, "reserve_scoped", c)
             \/ /\ enforcement = "inactive" /\ c \notin ProjectNamed
                /\ GotoWith(c, "reserve", c)
             \/ /\ \/ enforcement = "paused"
                   \/ enforcement = "inactive" /\ c \in ProjectNamed
                /\ Goto(c, "done")
    /\ UNCHANGED <<enforcement, task, scopeVars, engineVars, serverVars>>

\* mutant: the transaction does not look for a concurrent request again
WinnersBlind(c) == {}

\* The request as the immediate transaction finds it: the winner of a race.
Winners(c) == Matching(c)

Accepted == [NoTask EXCEPT !.state = "accepted"]

\* One immediate transaction: replay or conflict when another call won, else
\* the reservation, its run attempt and the task row are inserted together.
Reserve(c, scoped) ==
    /\ At(c, IF scoped THEN "reserve_scoped" ELSE "reserve")
    /\ \/ \E t \in Winners(c) :
            /\ IF Scoped(t) = scoped /\ Replays(c, t) /\ ~IsTerminal(task[t])
               THEN GotoWith(c, "observe", t) ELSE Goto(c, "done")
            /\ UNCHANGED <<task, scope, attempt>>
       \/ /\ Winners(c) = {}
          /\ task' = [task EXCEPT ![c] = Accepted]
          /\ IF scoped
             THEN /\ scope' = [scope EXCEPT ![c] = "attached"]
                  /\ attempt' = [attempt EXCEPT ![c] = "reserved"]
                  /\ Goto(c, "launchable")
             ELSE Goto(c, "launch") /\ UNCHANGED <<scope, attempt>>
    /\ UNCHANGED <<enforcement, adjudicated, engineVars, serverVars>>

\* require_launchable_attempt, its own transaction
Launchable(c) ==
    /\ At(c, "launchable")
    /\ IF enforcement = "enforced" /\ scope[c] = "attached" /\ attempt[c] = "reserved"
       THEN Goto(c, "launch") ELSE Goto(c, "attach")
    /\ UNCHANGED <<enforcement, task, scopeVars, engineVars, serverVars>>

\* backend.start under the reserved identity; it may raise before the run row
\* exists, and the error is only recorded.
Launch(c) ==
    /\ At(c, "launch")
    /\ \/ Engine!Accept(c)
       \/ "refuse" \in Faults /\ UNCHANGED run
    /\ Goto(c, IF Scoped(c) THEN "attach" ELSE "observe")
    /\ UNCHANGED <<enforcement, task, scopeVars, lost, serverVars>>

\* attach_attempt: the attempt of a stored run is attached, or found attached.
Attachable(t) ==
    \/ attempt[t] = "attached"
    \/ attempt[t] \in {"reserved", "recovery_pending"} /\ RunStored(t)

Attach(c) ==
    /\ At(c, "attach")
    /\ IF Attachable(c)
       THEN attempt' = [attempt EXCEPT ![c] = "attached"] /\ Goto(c, "observe")
       ELSE Goto(c, "mark") /\ UNCHANGED attempt
    /\ UNCHANGED <<enforcement, task, scope, adjudicated, engineVars, serverVars>>

\* When it raised, mark_attempt_recovery_pending is a transaction of its own.
MarkRecovery(c) ==
    /\ At(c, "mark")
    /\ attempt' = [attempt EXCEPT ![c] = IF @ = "reserved" THEN "recovery_pending" ELSE @]
    /\ Goto(c, "observe")
    /\ UNCHANGED <<enforcement, task, scope, adjudicated, engineVars, serverVars>>

----
(***************************************************************************)
(* get_status, get_result and cancel_task                                  *)
(***************************************************************************)

\* A terminal task is answered from its row.
Status(h, t) ==
    /\ At(h, "idle") /\ Stored(t) /\ AttemptHolds(t) /\ ~IsTerminal(task[t])
    /\ GotoWith(h, "observe", t)
    /\ UNCHANGED <<enforcement, task, scopeVars, engineVars, serverVars>>

\* A cancellation at the current version; one at an older version, or of a
\* terminal task, only leaves a row in task_commands.
Cancel(h, t) ==
    /\ At(h, "idle") /\ Stored(t) /\ AttemptHolds(t) /\ ~IsTerminal(task[t])
    /\ GotoWith(h, "cancel_query", t)
    /\ UNCHANGED <<enforcement, task, scopeVars, engineVars, serverVars>>

\* Without a stored run nothing is signalled.
CancelQuery(h) ==
    /\ At(h, "cancel_query")
    /\ Goto(h, IF RunStored(proc[h].task) THEN "cancel" ELSE "observe")
    /\ UNCHANGED <<enforcement, task, scopeVars, engineVars, serverVars>>

\* JobManager.cancel_run: an open run is asked to stop.
CancelRun(h) ==
    LET t == proc[h].task IN
    /\ At(h, "cancel")
    /\ \/ Engine!Stop(t)
       \/ run[t] \notin {"waiting", "executing", "held"} /\ UNCHANGED run
    /\ Goto(h, "observe")
    /\ UNCHANGED <<enforcement, task, scopeVars, lost, serverVars>>

----
(***************************************************************************)
(* The owner: recovery resolution, adjudication and the scope switch       *)
(***************************************************************************)

\* What the transaction of resolve_recovery requires: an unresolved task of
\* the project whose run row never appeared, and a completed successor.
Resolvable(t, successor) ==
    /\ Scoped(t) /\ Scoped(successor) /\ t # successor
    /\ <<"task_reservation", t>> \notin adjudicated
    /\ task[t].state \in {"uncertain", "recovery_pending"}
    /\ task[t].reason \in Unresolved
    /\ task[successor].state = "completed"
    /\ scope[successor] # "quarantined"
    /\ ~RunStored(t)
    /\ scope[t] # "quarantined"

\* The task is failed, quarantined and superseded in that transaction.
ResolveRecovery(t, successor) ==
    /\ server = "up" /\ Resolvable(t, successor)
    /\ task' = [task EXCEPT ![t].state = "failed", ![t].reason = "superseded",
                            ![t].version = @ + 1]
    /\ scope' = [scope EXCEPT ![t] = "quarantined"]
    /\ attempt' = [attempt EXCEPT ![t] = "quarantined"]
    /\ adjudicated' = adjudicated \cup {<<"task_reservation", t>>}
    /\ UNCHANGED <<enforcement, engineVars, proc, serverVars>>

\* adjudicate_quarantine: an immutable decision beside a quarantined record;
\* only the startup leaves a quarantined attempt of an active reservation.
AdjudicateQuarantine(t) ==
    /\ server = "up"
    /\ scope[t] = "attached" /\ attempt[t] = "quarantined"
    /\ <<"run_attempt", t>> \notin adjudicated
    /\ adjudicated' = adjudicated \cup {<<"run_attempt", t>>}
    /\ UNCHANGED <<enforcement, task, scope, attempt, engineVars, proc, serverVars>>

\* set_scoped_writes_enabled: activation cannot be undone, only paused.
SetScopedWrites(enabled) ==
    /\ server = "up" /\ Upset
    /\ enabled \/ enforcement # "inactive"
    /\ enforcement' = IF enabled THEN "enforced" ELSE "paused"
    /\ UNCHANGED <<task, scopeVars, engineVars, proc, server, todo>>

----
(***************************************************************************)
(* The engine, crashes and the startup                                     *)
(***************************************************************************)

EngineStep(t) ==
    /\ run[t] # "absent"
    /\ \/ (Engine!Begin(t) \/ Engine!Settle(t)) /\ UNCHANGED upsets
       \/ Engine!Hold(t) /\ Upset
    /\ UNCHANGED <<enforcement, task, scopeVars, lost, proc, server, todo>>

Crash ==
    /\ server # "down" /\ Upset
    /\ server' = "down"
    /\ proc' = [a \in Actors |->
                  IF proc[a].pc = "new" THEN proc[a]
                  ELSE [Idle EXCEPT !.pc = AfterReconcile(a)]]
    /\ todo' = {}
    /\ UNCHANGED <<enforcement, task, scopeVars, engineVars>>

\* The run row is gone when the store comes back (restored from a copy).
LoseRun(t) ==
    /\ server = "down" /\ "lose" \in Faults
    /\ run[t] # "absent" /\ t \notin Finished /\ lost = {}
    /\ lost' = {t}
    /\ UNCHANGED <<enforcement, task, scopeVars, run, proc, serverVars>>

Restart ==
    /\ server = "down" /\ server' = "scope"
    /\ UNCHANGED <<enforcement, task, scopeVars, engineVars, proc, todo, upsets>>

\* ProjectScopeStore.reconcile_startup for one attempt
ReconciledAttempt(t) ==
    IF attempt[t] \in {"reserved", "recovery_pending"}
    THEN IF RunStored(t) THEN "attached" ELSE "recovery_pending"
    ELSE IF attempt[t] = "attached" /\ ~RunStored(t) THEN "quarantined"
    ELSE attempt[t]

\* list_active_tasks
ActiveTasks == {t \in Calls : Stored(t) /\ ~IsTerminal(task[t])}

StartupScope ==
    /\ server = "scope" /\ server' = "tasks"
    /\ attempt' = [t \in Calls |-> ReconciledAttempt(t)]
    /\ todo' = ActiveTasks
    /\ UNCHANGED <<enforcement, task, scope, adjudicated, engineVars, proc, upsets>>

\* TaskManager.reconcile_startup for one task; a failure is recorded and the
\* task stays as it is.
StartupTask(t) ==
    /\ server = "tasks" /\ t \in todo
    /\ todo' = todo \ {t}
    /\ task' = IF AttemptHolds(t)
               THEN [task EXCEPT ![t] = Target(task[t], Observation(t))] ELSE task
    /\ UNCHANGED <<enforcement, scopeVars, engineVars, proc, server, upsets>>

StartupDone ==
    /\ server = "tasks" /\ todo = {}
    /\ server' = "up"
    /\ UNCHANGED <<enforcement, task, scopeVars, engineVars, proc, todo, upsets>>

----
\* A task that went through accepted, queued, running and completed.
CompletedTask == [state |-> "completed", reason |-> "none", version |-> 3, published |-> TRUE]

Init ==
    /\ enforcement \in {"inactive", "enforced"}
    /\ LET Bound(status) ==
            [t \in Calls |-> IF t \in Finished /\ enforcement = "enforced" THEN status ELSE "none"]
       IN  scope = Bound("attached") /\ attempt = Bound("attached")
    /\ task = [t \in Calls |-> IF t \in Finished THEN CompletedTask ELSE NoTask]
    /\ run = [t \in Calls |-> IF t \in Finished THEN "completed" ELSE "absent"]
    /\ adjudicated = {} /\ lost = {}
    /\ proc = [a \in Actors |->
                 IF a \in Handlers THEN Idle
                 ELSE [Idle EXCEPT !.pc = IF a \in Finished THEN "done" ELSE "new"]]
    /\ server = "up" /\ todo = {} /\ upsets = 0

ReconcileStep(a) == Observe(a) \/ WriteRow(a)

StartStep(c) ==
    \/ StartFind(c)
    \/ Reserve(c, TRUE) \/ Reserve(c, FALSE)
    \/ Launchable(c) \/ Launch(c) \/ Attach(c) \/ MarkRecovery(c)

HandlerStep(h) ==
    \/ \E t \in Calls : Status(h, t) \/ Cancel(h, t)
    \/ CancelQuery(h) \/ CancelRun(h)

OwnerStep ==
    \/ \E t, u \in Calls : ResolveRecovery(t, u)
    \/ \E t \in Calls : AdjudicateQuarantine(t)
    \/ \E enabled \in BOOLEAN : SetScopedWrites(enabled)

ServiceStep ==
    \/ Crash \/ Restart \/ StartupScope \/ StartupDone
    \/ \E t \in Calls : StartupTask(t) \/ LoseRun(t)

Next ==
    \/ \E a \in Actors : ReconcileStep(a)
    \/ \E c \in Calls : StartStep(c) \/ EngineStep(c)
    \/ \E h \in Handlers : HandlerStep(h)
    \/ OwnerStep
    \/ ServiceStep

Spec == Init /\ [][Next]_vars

----
(***************************************************************************)
(* Properties                                                              *)
(***************************************************************************)

Active == {"reserve_scoped", "reserve", "launchable", "launch", "attach", "mark",
           "observe", "write"}

TaskRow == [state : TaskStates \cup {"absent"}, reason : Reasons, version : Nat,
            published : BOOLEAN]
Threads == [pc : Active \cup {"new", "idle", "done", "cancel_query", "cancel"},
            task : Calls \cup {0}, seen : TaskRow, obs : Engine!Lives]

\* The tables, the threads and the engine hold values of their types, and a
\* thread at work has a task.
TypeOK ==
    /\ enforcement \in {"inactive", "enforced", "paused"}
    /\ task \in [Calls -> TaskRow]
    /\ scope \in [Calls -> {"none", "attached", "quarantined"}]
    /\ attempt \in [Calls -> {"none", "reserved", "attached", "recovery_pending", "quarantined"}]
    /\ adjudicated \subseteq {"task_reservation", "run_attempt"} \X Calls
    /\ run \in [Calls -> Engine!Lives]
    /\ lost \subseteq Calls
    /\ proc \in [Actors -> Threads]
    /\ \A a \in Actors : proc[a].pc \notin {"new", "idle", "done"} => proc[a].task \in Calls
    /\ server \in {"up", "down", "scope", "tasks"}
    /\ todo \subseteq Calls
    /\ upsets \in 0..MaxUpsets

\* However often and however concurrently a controller repeats a request,
\* across crashes of the server, at most one run is created for it.
OneRunPerRequest ==
    \A c, d \in Calls :
        c # d /\ RequestOf[c] = RequestOf[d] => run[c] = "absent" \/ run[d] = "absent"

\* A task that reports an outcome reports the one its own run really had;
\* the only other failed task is one the owner declared superseded.
TruthfulOutcome ==
    \A t \in Calls : IsTerminal(task[t]) =>
        \/ task[t].reason = "superseded"
        \/ run[t] \in Engine!Outcomes /\ map_backend_status[run[t]] = task[t].state

\* While the server serves, a task still "accepted" has a start call working
\* on it: the startup leaves no reservation of a crashed call behind, unless
\* its attempt was quarantined.
NoForgottenTask ==
    server = "up" =>
        \A t \in Calls : task[t].state = "accepted" /\ AttemptHolds(t) => proc[t].pc \in Active

\* While the server serves, the attempt of a stored run whose start call is
\* past the hand-off is attached (or quarantined): a crash between the launch
\* and the attachment is repaired.
AttemptsSettle ==
    server = "up" =>
        \A t \in Calls :
            Scoped(t) /\ RunStored(t) /\ proc[t].pc \notin {"launch", "attach"} =>
                attempt[t] \in {"attached", "quarantined"}

\* A finished task is never revised, neither by a late reconcile of another
\* thread nor by the start call of a superseded task that launches after all.
OutcomeKept == \A t \in Calls : IsTerminal(task[t]) => task'[t] = task[t]

\* A task that showed its run never goes back to "queued": a reconcile that
\* observed the run earlier cannot overwrite one that observed it later.
NotRequeued ==
    \A t \in Calls :
        task[t].state # "queued" /\ task'[t].state = "queued" =>
            \/ task[t].state = "accepted"
            \/ task[t].reason \in {"launch_incomplete", "run_record_missing"}

\* A quarantined reservation or attempt never becomes active again, whatever
\* the start call that owns it does afterwards.
QuarantineKept ==
    \A t \in Calls :
        /\ scope[t] = "quarantined" => scope'[t] = "quarantined"
        /\ attempt[t] = "quarantined" => attempt'[t] = "quarantined"

=============================================================================
