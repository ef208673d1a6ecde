-------------------------------- MODULE MCWork --------------------------------
(***************************************************************************)
(* What a controller has done for it: tasks (TaskPlane), patches           *)
(* (RepoWriter) and tool calls of the Hermes service (HermesService).      *)
(* They share no state; a behaviour exercises the one in focus.            *)
(***************************************************************************)
EXTENDS Integers

CONSTANTS
    NumCalls, NumHandlers, ProjectNamed, Finished, TaskFaults, MaxUpsets,
    NumPaths, NumPatches, Existing, WriterFaults, MaxWriterEvents,
    NumRequests, NumSlots, MaxReplacements, Limited, ToolLimit, MaxGeneration, MaxWorkers, MaxServiceEvents

VARIABLES
    focus,
    enforcement, task, scope, attempt, adjudicated, run, lost, call, server, todo, upsets,
    disk, tree, index, head, manifest, rollback, writer, before, touched, mishaps,
    registry, attached, service, current, pool, worker, recorded, thread,
    cancelled, flagged, record, executions, cancels, deaths, events

\* Two concurrent or retried calls for one request, and another request that
\* can become the successor of the first.
RequestOf == [c \in 1..NumCalls |-> IF c <= 2 THEN "request" ELSE "other"]
ContentOf == [c \in 1..NumCalls |-> "content"]

\* The first patch modifies both files, the second creates the second file, the
\* third removes the first file.
KindOf == [p \in 1..NumPatches |-> <<"modify", "create", "remove">>[p]]
FilesOf == [p \in 1..NumPatches |-> <<{1, 2}, {2}, {1}>>[p]]

\* The first request mutates a resource; the others may name the same one or
\* compete for a worker at the same time.
KeysOf == [r \in 1..NumRequests |-> IF r = 1 THEN {"resource"} ELSE {"none", "resource"}]

Tsk == INSTANCE TaskPlane WITH Faults <- TaskFaults, proc <- call
Wri == INSTANCE RepoWriter WITH Faults <- WriterFaults, MaxEvents <- MaxWriterEvents,
                                events <- mishaps
Her == INSTANCE HermesService WITH MaxEvents <- MaxServiceEvents, proc <- thread, upsets <- deaths

ASSUME WorkConstants == Tsk!TaskConstants /\ Wri!WriterConstants /\ Her!HermesConstants

taskState == <<enforcement, task, scope, attempt, adjudicated, run, lost, call, server, todo, upsets>>
writerState == <<disk, tree, index, head, manifest, rollback, writer, before, touched, mishaps>>
hermesState == <<registry, attached, service, current, pool, worker, recorded, thread,
                 cancelled, flagged, record, executions, cancels, deaths, events>>
vars == <<focus, taskState, writerState, hermesState>>

\* Out of focus one initial state of a component will do.
Init ==
    /\ focus \in {"starts", "requests", "writer", "hermes"}
    /\ Tsk!Init /\ (focus \notin {"starts", "requests"} => enforcement = "inactive")
    /\ Wri!Init /\ Her!Init

\* Bounds: two calls for one request race each other ("starts"), or one of them
\* races the status, result and cancel requests for its task ("requests").
StartsBound == \A h \in Tsk!Handlers : call'[h] = call[h]
RequestsBound == call'[2] = call[2]

\* Bound: the last mishap is spent only while a patch is still to be previewed.
WriterBound == mishaps' < MaxWriterEvents \/ \E p \in 1..NumPatches : manifest'[p].status = "none"

Next ==
    /\ UNCHANGED focus
    /\ \/ focus = "starts" /\ Tsk!Next /\ StartsBound /\ UNCHANGED <<writerState, hermesState>>
       \/ focus = "requests" /\ Tsk!Next /\ RequestsBound /\ UNCHANGED <<writerState, hermesState>>
       \/ focus = "writer" /\ Wri!Next /\ WriterBound /\ UNCHANGED <<taskState, hermesState>>
       \/ focus = "hermes" /\ Her!Next /\ UNCHANGED <<taskState, writerState>>

Spec == Init /\ [][Next]_vars

\* One run per request, told truthfully, and no task or attempt forgotten by a
\* restart (TaskPlane; tasks/manager.py:701-1045, project_scope/store.py:486-728).
TasksSound ==
    focus \in {"starts", "requests"} =>
        /\ Tsk!TypeOK /\ Tsk!OneRunPerRequest /\ Tsk!TruthfulOutcome
        /\ Tsk!NoForgottenTask /\ Tsk!AttemptsSettle

\* A task is never taken back: not its outcome, not its progress, not its
\* quarantine (TaskPlane; tasks/store.py, project_scope/store.py).
TasksMoveOn ==
    [][(focus \in {"starts", "requests"}) => Tsk!OutcomeKept /\ Tsk!NotRequeued /\ Tsk!QuarantineKept]_taskState

\* No half of a patch is hidden (RepoWriter; repo_writer.py:1563-1970).
PatchesWhole == focus = "writer" => Wri!TypeOK /\ Wri!NothingLeftBehind

\* What a patch announces is on disk, the user's versions survive it, its commit
\* is its own, and it happens once (RepoWriter; repo_writer.py, git_tools.py).
PatchesTruthful ==
    [][focus = "writer" => /\ Wri!AnnouncedIsOnDisk /\ Wri!SeenBeforeReplaced
                           /\ Wri!CommitsItsFiles /\ Wri!CommitsWhole
                           /\ Wri!TakesEffectOnce]_writerState

\* A tool call is executed once, by a worker of its generation, undisturbed by the
\* calls around it, and workers are neither lost nor left behind (HermesService;
\* hermes_service.py, hermes_service_gateway.py, hermes_service_supervisor.py).
CallsIsolated ==
    focus = "hermes" =>
        /\ Her!TypeOK /\ Her!StaleNeverServed /\ Her!OnlyOwnCancellation /\ Her!ExecutedOnce
        /\ Her!DrainedBeforeClose /\ Her!NoLeakedWorker /\ Her!CancelRepaired

==============================================================================
