------------------------------ MODULE LocalAgents ------------------------------
(***************************************************************************)
(* The local agents of src/soma/local_agent, local_coding, supervisor and  *)
(* jobs: small edits of one file that are previewed, approved, applied,    *)
(* validated and rolled back; supervised tasks that validate a repository; *)
(* and jobs whose process only the manager object that started it knows.   *)
(* Agents call them in parallel and keep their state in JSON files, read   *)
(* and written back without a lock.  Validation is a durable run, of which *)
(* this module sees only the status.                                       *)
(***************************************************************************)
EXTENDS Integers

CONSTANTS Agents,        \* concurrent callers
          MaxAgentCalls  \* bound on calls, edits by users and manager restarts

VARIABLES
    approval,   \* the approval request of the edit: status, who must approve;
                \* whether the configuration requires one
    edit,       \* run.json and the artifacts of the edit
    file,       \* content of the target file: 1 as previewed, 2 edited, 3 a user's
    agent,      \* position and locals of each agent
    validation, \* the durable run of a validation command, by agent
    task,       \* result.json of the supervised task
    job,        \* result.json of the job, its process and the owner's handle
    agentCalls

AgentConstants == MaxAgentCalls \in Nat

agentVars == <<approval, edit, file, agent, validation, task, job, agentCalls>>

Approvals == {"none", "pending", "approved", "denied", "expired"}
EditStatuses == {"none", "blocked", "approval_required", "preview_ready",
                 "validation_passed", "validation_failed", "rolled_back", "cancelled"}
TaskStatuses == {"none", "inspecting", "validating", "blocked", "completed",
                 "needs_input", "needs_external_coder", "approval_required", "cancelled"}
JobTerminal == {"completed", "failed", "timeout", "cancelled", "needs_input", "blocked"}
JobStatuses == {"none", "created", "running"} \cup JobTerminal
RunTerminal == {"completed", "failed", "cancelled", "timed_out"}

IdleAgent == [pc |-> "idle", read |-> 0, result |-> "none", exit |-> 9, outcome |-> "none"]

Init ==
    /\ \E required \in BOOLEAN :
          approval = [status |-> "none", approver |-> "chatgpt", granted |-> FALSE,
                      required |-> required]
    /\ edit = [status |-> "none", proposal |-> 0, snapshot |-> 0]
    /\ file = 1
    /\ agent = [a \in Agents |-> IdleAgent]
    /\ validation = [a \in Agents |-> "none"]
    /\ task = [status |-> "none", edits |-> FALSE, result |-> "none", exit |-> 9]
    /\ job = [status |-> "none", process |-> "none", owned |-> FALSE, code |-> 9]
    /\ agentCalls = 0

At(a, pc) == agent[a].pc = pc
Goto(a, pc) == agent' = [agent EXCEPT ![a].pc = pc]
Done(a) == agent' = [agent EXCEPT ![a] = IdleAgent]

\* handle_task classifies the objective and calls one of the managers.
HandleTask(a) == At(a, "idle") /\ agentCalls < MaxAgentCalls /\ agentCalls' = agentCalls + 1
Event == agentCalls < MaxAgentCalls /\ agentCalls' = agentCalls + 1

----
(* Policy and approvals.                                                   *)

\* evaluate creates an approval request for a human, or for ChatGPT.
Evaluate == {"human", "chatgpt"}

RecordDecision(a) ==
    /\ HandleTask(a) /\ approval.status # "none"
    /\ \E approved \in BOOLEAN :
          /\ approved => approval.approver # "human"
          /\ approval' = [approval EXCEPT !.status = IF approved THEN "approved" ELSE "denied",
                                          !.granted = @ \/ approved]
    /\ UNCHANGED <<edit, file, agent, validation, task, job>>

ExpireStale ==
    /\ approval.status = "pending" /\ Event
    /\ approval' = [approval EXCEPT !.status = "expired"]
    /\ UNCHANGED <<edit, file, agent, validation, task, job>>

----
(* A project command: a durable run, awaited up to a deadline.             *)

StartCommand(a, pc, wait) ==
    /\ At(a, pc)
    /\ validation' = [validation EXCEPT ![a] = "running"]
    /\ Goto(a, wait)

RunMoves(a) ==
    /\ \/ validation[a] = "running" /\ \E s \in RunTerminal : validation' = [validation EXCEPT ![a] = s]
       \/ validation[a] = "cancellation_pending" /\ validation' = [validation EXCEPT ![a] = "cancelled"]
    /\ UNCHANGED <<approval, edit, file, agent, task, job, agentCalls>>

StatusMap(s) ==
    CASE s = "completed" -> "success" [] s = "timed_out" -> "timeout" [] OTHER -> "failed"

\* The exit code a run of this status records; 9: none.
ExitCode(s) == CASE s = "completed" -> 0 [] s = "failed" -> 1 [] OTHER -> 9

\* The run ended; or the deadline passed, the run is asked to stop and the
\* result is a timeout whatever the run came to.
AwaitCommand(a, pc, next) ==
    /\ At(a, pc)
    /\ \/ /\ validation[a] \in RunTerminal
          /\ agent' = [agent EXCEPT ![a].pc = next, ![a].result = StatusMap(validation[a]),
                                    ![a].exit = ExitCode(validation[a])]
          /\ UNCHANGED validation
       \/ \E s \in IF validation[a] \in RunTerminal THEN {validation[a]}
                   ELSE {"cancelled", "cancellation_pending"} :
             /\ validation' = [validation EXCEPT ![a] = s]
             /\ agent' = [agent EXCEPT ![a].pc = next, ![a].result = "timeout",
                                       ![a].exit = ExitCode(s)]

----
(* Local edits.                                                            *)

\* The preview: ineligible, invalid or refused edits are blocked; the others
\* wait for approval, or are ready where none is required.  The proposal holds
\* the digest of the file.
PrepareLocalEdit(a) ==
    /\ HandleTask(a) /\ edit.status = "none"
    /\ \/ /\ edit' = [edit EXCEPT !.status = "blocked"]
          /\ UNCHANGED approval
       \/ \E who \in Evaluate :
             /\ approval' = IF approval.required
                            THEN [approval EXCEPT !.status = "pending", !.approver = who]
                            ELSE approval
             /\ edit' = [edit EXCEPT !.status = IF who = "human" THEN "blocked"
                                                ELSE IF approval.required
                                                THEN "approval_required" ELSE "preview_ready",
                                     !.proposal = file, !.snapshot = file]
    /\ UNCHANGED <<file, agent, validation, task, job>>

\* A required approval must be granted by ChatGPT; neither the status of the edit
\* nor a cancellation is looked at.
MayApply ==
    /\ edit.proposal # 0
    /\ approval.required => approval.approver = "chatgpt" /\ approval.status = "approved"

\* apply_local_edit: the file must still have the content of the preview.
ApplyLocalEdit(a) ==
    /\ HandleTask(a) /\ edit.status # "none"
    /\ IF MayApply /\ file = edit.proposal
       THEN agent' = [agent EXCEPT ![a].pc = "apply", ![a].read = file]
       ELSE UNCHANGED agent
    /\ UNCHANGED <<approval, edit, file, validation, task, job>>

\* Snapshot and file are written, then the validation runs.
WriteEdit(a) ==
    /\ At(a, "apply")
    /\ edit' = [edit EXCEPT !.snapshot = agent[a].read]
    /\ file' = 2
    /\ Goto(a, "validate")
    /\ UNCHANGED <<approval, validation, task, job, agentCalls>>
ValidateEdit(a) ==
    StartCommand(a, "validate", "edit_wait") /\ UNCHANGED <<approval, edit, file, task, job, agentCalls>>
AwaitEdit(a) ==
    AwaitCommand(a, "edit_wait", "applied") /\ UNCHANGED <<approval, edit, file, task, job, agentCalls>>

\* _validation_success of the edit: no blocked result, exit code 0 or none.
EditValid(exit) == exit \in {0, 9}

\* The request and the results go to files nothing reads; the status is written
\* to run.json, which may have changed meanwhile.
FinishEdit(a) ==
    /\ At(a, "applied")
    /\ edit' = [edit EXCEPT !.status = IF EditValid(agent[a].exit) THEN "validation_passed"
                                       ELSE "validation_failed"]
    /\ Done(a)
    /\ UNCHANGED <<approval, file, validation, task, job, agentCalls>>

\* rollback_local_edit restores the snapshot over whatever the file holds.
RollbackLocalEdit(a) ==
    /\ HandleTask(a) /\ edit.snapshot # 0
    /\ file' = edit.snapshot
    /\ edit' = [edit EXCEPT !.status = "rolled_back"]
    /\ UNCHANGED <<approval, agent, validation, task, job>>

CancelEdit(a) ==
    /\ HandleTask(a) /\ edit.status # "none"
    /\ edit' = [edit EXCEPT !.status = "cancelled"]
    /\ UNCHANGED <<approval, file, agent, validation, task, job>>

UserEdits ==
    /\ file # 3 /\ Event
    /\ file' = 3
    /\ UNCHANGED <<approval, edit, agent, validation, task, job>>

----
(* Supervised tasks: start_supervised_task keeps the run in memory and       *)
(* writes it again after every stage.                                        *)

StartTask(a) ==
    /\ HandleTask(a) /\ task.status = "none"
    /\ \E edits \in BOOLEAN : task' = [task EXCEPT !.status = "inspecting", !.edits = edits]
    /\ Goto(a, "plan")
    /\ UNCHANGED <<approval, edit, file, validation, job>>

\* A human-only objective is blocked before any command runs.
PlanTask(a) ==
    /\ \/ /\ At(a, "plan")
          /\ task' = [task EXCEPT !.status = "blocked"]
          /\ Done(a) /\ UNCHANGED validation
       \/ /\ StartCommand(a, "plan", "task_wait") /\ UNCHANGED task
    /\ UNCHANGED <<approval, edit, file, job, agentCalls>>
AwaitTask(a) ==
    AwaitCommand(a, "task_wait", "validated") /\ UNCHANGED <<approval, edit, file, task, job, agentCalls>>

\* validation_results are written with the status validating_locally.
SaveValidation(a) ==
    /\ At(a, "validated")
    /\ task' = [task EXCEPT !.status = "validating", !.result = agent[a].result,
                            !.exit = agent[a].exit]
    /\ Goto(a, "decide")
    /\ UNCHANGED <<approval, edit, file, validation, job, agentCalls>>

\* _validation_success of the task: a success, or exit code 0.
TaskValid(result, exit) == result = "success" \/ exit = 0

\* Without a code edit the validation decides; else a handoff is generated.
DecideTask(a) ==
    /\ At(a, "decide")
    /\ \E s \in IF task.edits THEN {"blocked", "approval_required", "needs_external_coder", "needs_input"}
                ELSE IF TaskValid(agent[a].result, agent[a].exit) THEN {"completed"}
                ELSE {"needs_input"} :
          task' = [task EXCEPT !.status = s]
    /\ Done(a)
    /\ UNCHANGED <<approval, edit, file, validation, job, agentCalls>>

\* cancel only writes the status: a task at work writes over it.
CancelTask(a) ==
    /\ HandleTask(a) /\ task.status # "none"
    /\ task' = [task EXCEPT !.status = "cancelled"]
    /\ UNCHANGED <<approval, edit, file, agent, validation, job>>

----
(* Jobs of LongRunJobManager with legacy execution allowed.                 *)

StartJob(a) ==
    /\ HandleTask(a) /\ job.status = "none"
    /\ \/ /\ job' = [job EXCEPT !.status = "blocked"]
          /\ UNCHANGED agent
       \/ /\ job' = [job EXCEPT !.status = "created"]
          /\ Goto(a, "spawn")
    /\ UNCHANGED <<approval, edit, file, validation, task>>

\* Popen fails, or the process runs.
SpawnJob(a) ==
    /\ At(a, "spawn")
    /\ \/ job' = [job EXCEPT !.status = "failed"] /\ Done(a)
       \/ job' = [job EXCEPT !.process = "running"] /\ Goto(a, "keep")
    /\ UNCHANGED <<approval, edit, file, validation, task, agentCalls>>

\* The manager keeps the handle, and then writes the result it has in memory,
\* whatever the others wrote since.
KeepHandle(a) ==
    /\ At(a, "keep")
    /\ job' = [job EXCEPT !.owned = TRUE]
    /\ Goto(a, "mark")
    /\ UNCHANGED <<approval, edit, file, validation, task, agentCalls>>
MarkRunning(a) ==
    /\ At(a, "mark")
    /\ job' = [job EXCEPT !.status = "running"]
    /\ Done(a)
    /\ UNCHANGED <<approval, edit, file, validation, task, agentCalls>>

Alive == {"running", "signalled"}

ProcessEnds ==
    /\ job.process \in Alive
    /\ \E c \in {0, 1} : job' = [job EXCEPT !.process = "ended", !.code = c]
    /\ UNCHANGED <<approval, edit, file, agent, validation, task, agentCalls>>

Open == {"created", "running"}
Signalled == [job EXCEPT !.process = IF @ = "running" THEN "signalled" ELSE @]
Decide(a, status) == agent' = [agent EXCEPT ![a].pc = "finish", ![a].outcome = status]

\* refresh_status: a timeout or the exit code decides how the job ended; without
\* a handle the job has to be contained.
RefreshJob(a) ==
    /\ HandleTask(a) /\ job.status \in Open
    /\ \/ ~job.owned /\ Goto(a, "contain") /\ UNCHANGED job
       \/ job.owned /\ job' = Signalled /\ Decide(a, "timeout")
       \/ job.owned /\ job.process \in Alive /\ UNCHANGED <<agent, job>>
       \/ /\ job.owned /\ job.process = "ended"
          /\ Decide(a, IF job.code = 0 THEN "completed" ELSE "failed")
          /\ UNCHANGED job
    /\ UNCHANGED <<approval, edit, file, validation, task>>

\* cancel_job terminates the process it has a handle of.
CancelJob(a) ==
    /\ HandleTask(a) /\ job.status # "none"
    /\ \/ ~job.owned /\ Goto(a, "contain") /\ UNCHANGED job
       \/ job.owned /\ job.status # "running" /\ UNCHANGED <<agent, job>>
       \/ job.owned /\ job.status = "running" /\ job' = Signalled /\ Decide(a, "cancelled")
    /\ UNCHANGED <<approval, edit, file, validation, task>>

\* mutant: a job without a handle is left as it is.
ContainsNever(status) == FALSE

\* contain_unowned: nobody can tell what became of the process of an open job.
Contains(status) == status \in Open

ContainJob(a) ==
    /\ At(a, "contain")
    /\ IF Contains(job.status) THEN Decide(a, "needs_input") ELSE Done(a)
    /\ UNCHANGED <<approval, edit, file, validation, task, job, agentCalls>>

\* update_status writes over what the file says by now; the handle goes last.
FinishJob(a) ==
    /\ At(a, "finish")
    /\ job' = [job EXCEPT !.status = agent[a].outcome]
    /\ IF agent[a].outcome = "needs_input" THEN Done(a) ELSE Goto(a, "release")
    /\ UNCHANGED <<approval, edit, file, validation, task, agentCalls>>
ReleaseHandle(a) ==
    /\ At(a, "release")
    /\ job' = [job EXCEPT !.owned = FALSE]
    /\ Done(a)
    /\ UNCHANGED <<approval, edit, file, validation, task, agentCalls>>

\* The process of the agents restarts: calls in progress and handles are gone,
\* and the new manager contains the jobs it finds.
RestartAgents ==
    /\ Event
    /\ agent' = [a \in Agents |-> IdleAgent]
    /\ job' = [job EXCEPT !.owned = FALSE,
                          !.status = IF Contains(@) THEN "needs_input" ELSE @]
    /\ UNCHANGED <<approval, edit, file, validation, task>>

Next ==
    \/ ExpireStale \/ UserEdits \/ ProcessEnds \/ RestartAgents
    \/ \E a \in Agents :
          \/ RecordDecision(a) \/ RunMoves(a)
          \/ PrepareLocalEdit(a) \/ ApplyLocalEdit(a) \/ WriteEdit(a) \/ ValidateEdit(a)
          \/ AwaitEdit(a) \/ FinishEdit(a) \/ RollbackLocalEdit(a) \/ CancelEdit(a)
          \/ StartTask(a) \/ PlanTask(a) \/ AwaitTask(a) \/ SaveValidation(a)
          \/ DecideTask(a) \/ CancelTask(a)
          \/ StartJob(a) \/ SpawnJob(a) \/ KeepHandle(a) \/ MarkRunning(a)
          \/ RefreshJob(a) \/ CancelJob(a) \/ ContainJob(a) \/ FinishJob(a) \/ ReleaseHandle(a)

Spec == Init /\ [][Next]_agentVars

----
TypeOK ==
    /\ approval \in [status: Approvals, approver: Evaluate, granted: BOOLEAN,
                    required: BOOLEAN]
    /\ edit \in [status: EditStatuses, proposal: 0..3, snapshot: 0..3]
    /\ file \in 1..3
    /\ validation \in [Agents -> RunTerminal \cup {"none", "running", "cancellation_pending"}]
    /\ task \in [status: TaskStatuses, edits: BOOLEAN,
                 result: {"none", "success", "failed", "timeout"}, exit: {0, 1, 9}]
    /\ job \in [status: JobStatuses, process: Alive \cup {"none", "ended"},
                owned: BOOLEAN, code: {0, 1, 9}]
    /\ agentCalls \in 0..MaxAgentCalls

\* Where the configuration requires approval, the edit reaches the file, and is
\* reported as applied, only if its approval was granted, and never when only a
\* human may grant it, whatever was cancelled, rolled back or expired in between
\* (local_coding_manager.py:236-273, 309-319, approval_store.py:40-62).
EditApproved ==
    /\ TypeOK
    /\ approval.required /\ (file = 2 \/ edit.status \in {"validation_passed", "validation_failed"})
       => approval.granted /\ approval.approver = "chatgpt"

\* A supervised task that needs no edit is completed only on the success of its
\* command (supervisor_flow.py:107-131, 308-314).  However starts, refreshes,
\* cancellations, containments and restarts write over each other's result.json:
\* a job is completed only if its process ended with 0, it is timed out or
\* cancelled only after the process was told to stop, and no process that nobody
\* told to stop runs without an owner behind a job that reads as running
\* (job_monitor.py:32-133; long_run_manager.py:40-47, 146-205, 222-277).
WorkTruthful ==
    /\ task.status = "completed" => task.result = "success" \/ task.exit = 0
    /\ task.result = "success" => task.exit = 0
    /\ job.status = "completed" => job.process = "ended" /\ job.code = 0
    /\ job.status \in {"timeout", "cancelled"} => job.process \in {"signalled", "ended"}
    /\ job.status = "running" /\ job.process = "running" => job.owned

==============================================================================
