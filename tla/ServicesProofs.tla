---------------------------- MODULE ServicesProofs -----------------------------
(***************************************************************************)
(* Theorems about the services of MCServices: local agents, the wiki, the  *)
(* readers of durable runs, the supervisors and the repository tools.      *)
(* Each has an invariant of its own, which its steps keep and which the    *)
(* steps of the others leave alone; a behaviour exercises the one in focus.*)
(***************************************************************************)
EXTENDS MCServices, Sequences, FiniteSetTheorems, TLAPS

----
(* Local agents (LocalAgents).                                              *)

AgentPcs == {"idle", "apply", "validate", "edit_wait", "applied", "plan", "task_wait",
             "validated", "decide", "spawn", "keep", "mark", "contain", "finish", "release"}
AgentRecs == [pc: AgentPcs, read: 0..3, result: {"none", "success", "failed", "timeout"},
              exit: {0, 1, 9}, outcome: Agt!JobTerminal \union {"none"}]
Validations == Agt!RunTerminal \union {"none", "running", "cancellation_pending"}

\* The approval that is required was granted by ChatGPT.
Granted == approval.required => approval.granted /\ approval.approver = "chatgpt"

Applying == {"apply", "validate", "edit_wait", "applied"}
Applied == {"validation_passed", "validation_failed"}

\* The edit is in the file, in a snapshot, reported as applied or about to be only when
\* it was granted, and an edit nobody has prepared is nowhere.
EditFits ==
    /\ file = 2 \/ edit.snapshot = 2 \/ edit.status \in Applied => Granted
    /\ \A a \in Callers : agent[a].pc \in Applying => Granted
    /\ approval.status = "approved" => approval.granted
    /\ edit.status = "none" =>
          /\ file # 2 /\ edit.snapshot = 0 /\ approval.status = "none"
          /\ \A a \in Callers : agent[a].pc \notin Applying

TaskPcs == {"plan", "task_wait", "validated", "decide"}
AtTask(a) == agent[a].pc \in TaskPcs

\* One caller at most works for the task, on a task that is not completed, and the task
\* has its result when it decides.
TaskFits ==
    /\ \A a \in Callers : agent[a].result = "success" => agent[a].exit = 0
    /\ \A a, b \in Callers : AtTask(a) /\ AtTask(b) => a = b
    /\ \A a \in Callers : AtTask(a) => task.status \notin {"none", "completed"}
    /\ \A a \in Callers : agent[a].pc = "decide" =>
          task.result = agent[a].result /\ task.exit = agent[a].exit
    /\ task.result = "success" => task.exit = 0
    /\ task.status = "completed" => task.result = "success" \/ task.exit = 0

Starts == {"spawn", "keep", "mark"}
Stopped(j) == j.process \in {"signalled", "ended"}

\* What the result of a job says.
JobSound(j) ==
    /\ j.status = "none" => j.process = "none"
    /\ j.owned => j.process # "none"
    /\ j.status = "completed" => j.process = "ended" /\ j.code = 0
    /\ j.status \in {"timeout", "cancelled"} => Stopped(j)
    /\ j.status = "running" /\ j.process = "running" => j.owned

\* What a caller knows of the job it starts or finishes.
CallerFits(r, j) ==
    /\ r.pc \in Starts => j.status \notin {"none", "running"}
    /\ r.pc = "spawn" => j.process = "none"
    /\ r.pc = "keep" => j.process # "none"
    /\ r.pc = "mark" => j.owned \/ Stopped(j)
    /\ r.pc = "finish" => r.outcome # "none"
    /\ r.pc = "release" => r.outcome # "needs_input"
    /\ r.pc \in {"finish", "release"} /\ r.outcome # "needs_input" => Stopped(j)
    /\ r.pc = "finish" /\ r.outcome = "completed" => j.process = "ended" /\ j.code = 0

\* One caller at most starts the job.
JobFits ==
    /\ JobSound(job)
    /\ \A a \in Callers : CallerFits(agent[a], job)
    /\ \A a, b \in Callers : agent[a].pc \in Starts /\ agent[b].pc \in Starts => a = b

AgentInv ==
    /\ Agt!TypeOK /\ agent \in [Callers -> AgentRecs]
    /\ EditFits /\ TaskFits /\ JobFits

Approved == [status: Agt!Approvals, approver: Agt!Evaluate, granted: BOOLEAN,
             required: BOOLEAN]
EditRecs == [status: Agt!EditStatuses, proposal: 0..3, snapshot: 0..3]
TaskRecs == [status: Agt!TaskStatuses, edits: BOOLEAN,
             result: {"none", "success", "failed", "timeout"}, exit: {0, 1, 9}]
JobRecs == [status: Agt!JobStatuses, process: {"none", "running", "signalled", "ended"},
            owned: BOOLEAN, code: {0, 1, 9}]

\* What the invariant gives each step.
LEMMA AgentFacts ==
    ASSUME AgentInv
    PROVE  /\ approval \in Approved /\ edit \in EditRecs /\ file \in 1..3
           /\ validation \in [Callers -> Validations] /\ task \in TaskRecs /\ job \in JobRecs
           /\ agentCalls \in 0..MaxAgentCalls /\ MaxAgentCalls \in Nat
           /\ agent \in [Callers -> AgentRecs] /\ EditFits /\ TaskFits /\ JobFits
BY ServiceConstants DEF AgentInv, Agt!TypeOK, Approved, EditRecs, TaskRecs, JobRecs, Validations,
   Agt!AgentConstants, Agt!Alive

\* The invariant follows from its parts.
LEMMA AgentFollows ==
    ASSUME approval' \in Approved, edit' \in EditRecs, file' \in 1..3,
           validation' \in [Callers -> Validations], task' \in TaskRecs, job' \in JobRecs,
           agentCalls' \in 0..MaxAgentCalls, agent' \in [Callers -> AgentRecs],
           EditFits', TaskFits', JobFits'
    PROVE  AgentInv'
BY DEF AgentInv, Agt!TypeOK, Approved, EditRecs, TaskRecs, JobRecs, Validations, Agt!Alive

\* A call is counted.
LEMMA CallsCount ==
    ASSUME agentCalls \in 0..MaxAgentCalls, MaxAgentCalls \in Nat,
           \/ agentCalls' = agentCalls
           \/ agentCalls < MaxAgentCalls /\ agentCalls' = agentCalls + 1
    PROVE  agentCalls' \in 0..MaxAgentCalls
OBVIOUS

\* A caller goes on to its next step.
LEMMA AgentGoes ==
    ASSUME agent \in [Callers -> AgentRecs], NEW a \in Callers, NEW p \in AgentPcs, Agt!Goto(a, p)
    PROVE  /\ agent' \in [Callers -> AgentRecs] /\ agent'[a].pc = p
           /\ agent'[a].read = agent[a].read /\ agent'[a].result = agent[a].result
           /\ agent'[a].exit = agent[a].exit /\ agent'[a].outcome = agent[a].outcome
           /\ \A b \in Callers \ {a} : agent'[b] = agent[b]
<1> DEFINE r == [agent[a] EXCEPT !.pc = p]
<1>1. /\ r \in AgentRecs /\ r.pc = p /\ r.read = agent[a].read /\ r.result = agent[a].result
      /\ r.exit = agent[a].exit /\ r.outcome = agent[a].outcome
  BY DEF AgentRecs
<1>2. agent' = [agent EXCEPT ![a] = r] BY DEF Agt!Goto
<1> HIDE DEF r
<1>3. QED BY <1>1, <1>2

\* A caller is done.
LEMMA AgentDone ==
    ASSUME agent \in [Callers -> AgentRecs], NEW a \in Callers, Agt!Done(a)
    PROVE  /\ agent' \in [Callers -> AgentRecs] /\ agent'[a] = Agt!IdleAgent
           /\ \A b \in Callers \ {a} : agent'[b] = agent[b]
<1>1. Agt!IdleAgent \in AgentRecs BY DEF Agt!IdleAgent, AgentRecs, AgentPcs
<1>2. QED BY <1>1 DEF Agt!Done

\* A command was waited for: a success has exit code 0.
LEMMA CommandAwaited ==
    ASSUME agent \in [Callers -> AgentRecs], validation \in [Callers -> Validations],
           NEW a \in Callers, NEW p, NEW q \in AgentPcs, Agt!AwaitCommand(a, p, q)
    PROVE  /\ agent[a].pc = p
           /\ agent' \in [Callers -> AgentRecs] /\ agent'[a].pc = q
           /\ agent'[a].result = "success" => agent'[a].exit = 0
           /\ \A b \in Callers \ {a} : agent'[b] = agent[b]
           /\ validation' \in [Callers -> Validations]
<1>1. agent[a].pc = p BY DEF Agt!AwaitCommand, Agt!At
<1>2. PICK s \in Validations, res \in {"success", "failed", "timeout"} :
         /\ agent' = [agent EXCEPT ![a].pc = q, ![a].result = res, ![a].exit = Agt!ExitCode(s)]
         /\ res = "success" => Agt!ExitCode(s) = 0
         /\ validation' \in [Callers -> Validations]
  <2>1. CASE /\ validation[a] \in Agt!RunTerminal
             /\ agent' = [agent EXCEPT ![a].pc = q, ![a].result = Agt!StatusMap(validation[a]),
                                       ![a].exit = Agt!ExitCode(validation[a])]
             /\ UNCHANGED validation
    <3>1. /\ Agt!StatusMap(validation[a]) \in {"success", "failed", "timeout"}
          /\ Agt!StatusMap(validation[a]) = "success" => Agt!ExitCode(validation[a]) = 0
      BY DEF Agt!StatusMap, Agt!ExitCode
    <3>2. QED BY <2>1, <3>1
  <2>2. CASE \E s \in IF validation[a] \in Agt!RunTerminal THEN {validation[a]}
                      ELSE {"cancelled", "cancellation_pending"} :
                /\ validation' = [validation EXCEPT ![a] = s]
                /\ agent' = [agent EXCEPT ![a].pc = q, ![a].result = "timeout",
                                          ![a].exit = Agt!ExitCode(s)]
    <3>1. PICK s \in Validations :
                /\ validation' = [validation EXCEPT ![a] = s]
                /\ agent' = [agent EXCEPT ![a].pc = q, ![a].result = "timeout",
                                          ![a].exit = Agt!ExitCode(s)]
      BY <2>2 DEF Validations, Agt!RunTerminal
    <3>2. QED BY <3>1
  <2>3. QED BY <2>1, <2>2 DEF Agt!AwaitCommand
<1> DEFINE r == [agent[a] EXCEPT !.pc = q, !.result = res, !.exit = Agt!ExitCode(s)]
<1>3. Agt!ExitCode(s) \in {0, 1, 9} BY DEF Agt!ExitCode
<1>4. /\ r \in AgentRecs /\ r.pc = q /\ r.result = res /\ r.exit = Agt!ExitCode(s)
  BY <1>3 DEF AgentRecs
<1>5. agent' = [agent EXCEPT ![a] = r] BY <1>2
<1> HIDE DEF r
<1>6. /\ agent' \in [Callers -> AgentRecs] /\ agent'[a] = r
      /\ \A b \in Callers \ {a} : agent'[b] = agent[b]
  BY <1>4, <1>5
<1>7. r.result = "success" => r.exit = 0 BY <1>2, <1>4
<1>8. QED BY <1>1, <1>2, <1>4, <1>6, <1>7

\* Steps of the approval, of users and of the edit that leave the callers alone.
LEMMA EditMoves ==
    ASSUME AgentInv,
           \/ Agt!ExpireStale \/ Agt!UserEdits
           \/ \E a \in Callers : \/ Agt!RecordDecision(a) \/ Agt!PrepareLocalEdit(a)
                                 \/ Agt!RollbackLocalEdit(a) \/ Agt!CancelEdit(a)
    PROVE  AgentInv'
<1>1. UNCHANGED <<agent, validation, task, job>>
  BY DEF Agt!ExpireStale, Agt!UserEdits, Agt!RecordDecision, Agt!PrepareLocalEdit,
     Agt!RollbackLocalEdit, Agt!CancelEdit
<1>2. agentCalls' \in 0..MaxAgentCalls
  BY AgentFacts, CallsCount DEF Agt!ExpireStale, Agt!UserEdits, Agt!RecordDecision,
     Agt!PrepareLocalEdit, Agt!RollbackLocalEdit, Agt!CancelEdit, Agt!Event, Agt!HandleTask
<1>3. TaskFits' /\ JobFits' BY <1>1, AgentFacts DEF TaskFits, JobFits, AtTask, TaskPcs
<1>4. /\ approval' \in Approved /\ edit' \in EditRecs /\ file' \in 1..3 /\ EditFits'
  <2>1. CASE Agt!ExpireStale
    BY <1>1, <2>1, AgentFacts DEF Agt!ExpireStale, EditFits, Granted, Approved, Agt!Approvals
  <2>2. CASE Agt!UserEdits BY <1>1, <2>2, AgentFacts DEF Agt!UserEdits, EditFits, Granted
  <2>3. ASSUME NEW a \in Callers, Agt!RecordDecision(a)
        PROVE  /\ approval' \in Approved /\ edit' \in EditRecs /\ file' \in 1..3 /\ EditFits'
    <3>1. PICK approved \in BOOLEAN :
             approval' = [approval EXCEPT !.status = IF approved THEN "approved" ELSE "denied",
                                          !.granted = @ \/ approved]
      BY <2>3 DEF Agt!RecordDecision
    <3>2. /\ approval' \in Approved /\ approval'.approver = approval.approver
          /\ approval'.granted = (approval.granted \/ approved)
          /\ approval'.required = approval.required
          /\ approval'.status = IF approved THEN "approved" ELSE "denied"
      BY <3>1, AgentFacts DEF Approved, Agt!Approvals
    <3>3. UNCHANGED <<edit, file>> /\ approval.status # "none" BY <2>3 DEF Agt!RecordDecision
    <3>4. QED BY <1>1, <3>2, <3>3, AgentFacts DEF EditFits, Granted
  <2>4. ASSUME NEW a \in Callers, Agt!PrepareLocalEdit(a)
        PROVE  /\ approval' \in Approved /\ edit' \in EditRecs /\ file' \in 1..3 /\ EditFits'
    <3>1. edit.status = "none" /\ file' = file BY <2>4 DEF Agt!PrepareLocalEdit
    <3>2. CASE edit' = [edit EXCEPT !.status = "blocked"] /\ approval' = approval
      BY <1>1, <3>1, <3>2, AgentFacts DEF EditFits, Granted, EditRecs, Agt!EditStatuses, Applied
    <3>3. CASE \E who \in Agt!Evaluate :
                 /\ approval' = IF approval.required
                                THEN [approval EXCEPT !.status = "pending", !.approver = who]
                                ELSE approval
                 /\ edit' = [edit EXCEPT !.status = IF who = "human" THEN "blocked"
                                                    ELSE IF approval.required
                                                    THEN "approval_required" ELSE "preview_ready",
                                         !.proposal = file, !.snapshot = file]
      <4>1. PICK who \in Agt!Evaluate, st \in {"blocked", "approval_required", "preview_ready"} :
               /\ approval' = IF approval.required
                              THEN [approval EXCEPT !.status = "pending", !.approver = who]
                              ELSE approval
               /\ edit' = [edit EXCEPT !.status = st, !.proposal = file, !.snapshot = file]
        BY <3>3
      <4>2. approval' \in Approved /\ approval'.status # "approved"
        BY <3>1, <4>1, AgentFacts DEF Approved, Agt!Approvals, EditFits
      <4>3. file \in 0..3 /\ file # 2 /\ \A b \in Callers : agent[b].pc \notin Applying
        BY <3>1, AgentFacts DEF EditFits
      <4>4. edit' \in EditRecs /\ edit'.snapshot = file /\ edit'.status = st
        BY <4>1, <4>3, AgentFacts DEF EditRecs, Agt!EditStatuses
      <4>5. EditFits' BY <1>1, <3>1, <4>2, <4>3, <4>4 DEF EditFits, Applied
      <4>6. QED BY <3>1, <4>2, <4>4, <4>5, AgentFacts
    <3>4. QED BY <2>4, <3>2, <3>3 DEF Agt!PrepareLocalEdit
  <2>5. ASSUME NEW a \in Callers, Agt!RollbackLocalEdit(a)
        PROVE  /\ approval' \in Approved /\ edit' \in EditRecs /\ file' \in 1..3 /\ EditFits'
    <3>1. /\ edit.snapshot # 0 /\ file' = edit.snapshot /\ approval' = approval
          /\ edit' = [edit EXCEPT !.status = "rolled_back"]
      BY <2>5 DEF Agt!RollbackLocalEdit
    <3>2. edit' \in EditRecs /\ file' \in 1..3 BY <3>1, AgentFacts DEF EditRecs, Agt!EditStatuses
    <3>3. EditFits' BY <1>1, <3>1, AgentFacts DEF EditFits, Granted, EditRecs, Applied
    <3>4. QED BY <3>1, <3>2, <3>3, AgentFacts
  <2>6. ASSUME NEW a \in Callers, Agt!CancelEdit(a)
        PROVE  /\ approval' \in Approved /\ edit' \in EditRecs /\ file' \in 1..3 /\ EditFits'
    BY <1>1, <2>6, AgentFacts DEF Agt!CancelEdit, EditFits, Granted, EditRecs, Agt!EditStatuses, Applied
  <2>7. QED BY <2>1, <2>2, <2>3, <2>4, <2>5, <2>6
<1>5. QED BY <1>1, <1>2, <1>3, <1>4, AgentFacts, AgentFollows

AtJob == Starts \union {"finish", "release"}

\* What a caller does for an edit says nothing of the task and the job.
LEMMA ElsewhereKept ==
    ASSUME AgentInv, NEW a \in Callers, UNCHANGED <<task, job>>,
           ~AtTask(a), ~AtTask(a)', agent'[a].pc \notin AtJob,
           agent'[a].result = "success" => agent'[a].exit = 0,
           \A b \in Callers \ {a} : agent'[b] = agent[b]
    PROVE  TaskFits' /\ JobFits'
<1>1. \A b \in Callers : AtTask(b)' => AtTask(b) /\ b # a BY DEF AtTask, TaskPcs
<1>2. TaskFits' BY <1>1, AgentFacts DEF TaskFits, AtTask, TaskPcs
<1>3. JobFits' BY AgentFacts DEF JobFits, CallerFits, AtJob, Starts
<1>4. QED BY <1>2, <1>3

\* A caller applies the granted edit, validates it and says how that went.
LEMMA EditApplies ==
    ASSUME AgentInv, NEW a \in Callers,
           \/ Agt!ApplyLocalEdit(a) \/ Agt!WriteEdit(a) \/ Agt!ValidateEdit(a)
           \/ Agt!AwaitEdit(a) \/ Agt!FinishEdit(a)
    PROVE  AgentInv'
<1>1. UNCHANGED <<task, job>>
  BY DEF Agt!ApplyLocalEdit, Agt!WriteEdit, Agt!ValidateEdit, Agt!AwaitEdit, Agt!FinishEdit
<1>2. agentCalls' \in 0..MaxAgentCalls
  BY AgentFacts, CallsCount DEF Agt!ApplyLocalEdit, Agt!WriteEdit, Agt!ValidateEdit,
     Agt!AwaitEdit, Agt!FinishEdit, Agt!HandleTask
<1>3. CASE Agt!ApplyLocalEdit(a)
  <2>1. /\ UNCHANGED <<approval, edit, file, validation>> /\ agent[a].pc = "idle"
        /\ edit.status # "none"
    BY <1>3 DEF Agt!ApplyLocalEdit, Agt!HandleTask, Agt!At
  <2>2. CASE Agt!MayApply /\ agent' = [agent EXCEPT ![a].pc = "apply", ![a].read = file]
    <3> DEFINE r == [agent[a] EXCEPT !.pc = "apply", !.read = file]
    <3>0. file \in 0..3 /\ agent[a] \in AgentRecs BY AgentFacts
    <3>1. /\ r \in AgentRecs /\ r.pc = "apply" /\ r.result = agent[a].result
          /\ r.exit = agent[a].exit
      BY <3>0 DEF AgentRecs, AgentPcs
    <3>2. agent' = [agent EXCEPT ![a] = r] BY <2>2
    <3> HIDE DEF r
    <3>3. /\ agent' \in [Callers -> AgentRecs] /\ agent'[a] = r
          /\ \A b \in Callers \ {a} : agent'[b] = agent[b]
      BY <3>1, <3>2, AgentFacts
    <3>4. TaskFits' /\ JobFits'
      <4>1. agent'[a].result = "success" => agent'[a].exit = 0
        BY <3>1, <3>3, AgentFacts DEF TaskFits
      <4>2. QED BY <1>1, <2>1, <3>1, <3>3, <4>1, ElsewhereKept DEF AtTask, TaskPcs, AtJob, Starts
    <3>5. Granted BY <2>2, AgentFacts DEF Agt!MayApply, EditFits, Granted
    <3>6. EditFits' BY <2>1, <3>1, <3>3, <3>5, AgentFacts DEF EditFits, Granted, Applied
    <3>7. QED BY <1>1, <1>2, <2>1, <3>3, <3>4, <3>6, AgentFacts, AgentFollows
  <2>3. CASE agent' = agent
    <3>1. EditFits' /\ TaskFits' /\ JobFits'
      BY <1>1, <2>1, <2>3, AgentFacts DEF EditFits, TaskFits, JobFits, AtTask, TaskPcs, Granted
    <3>2. QED BY <1>1, <1>2, <2>1, <2>3, <3>1, AgentFacts, AgentFollows
  <2>4. QED BY <1>3, <2>2, <2>3 DEF Agt!ApplyLocalEdit
<1>4. CASE Agt!WriteEdit(a)
  <2>1. /\ UNCHANGED <<approval, validation>> /\ agent[a].pc = "apply"
        /\ file' = 2 /\ edit' = [edit EXCEPT !.snapshot = agent[a].read]
        /\ Agt!Goto(a, "validate")
    BY <1>4 DEF Agt!WriteEdit, Agt!At
  <2>2. /\ agent' \in [Callers -> AgentRecs] /\ agent'[a].pc = "validate"
        /\ agent'[a].result = agent[a].result /\ agent'[a].exit = agent[a].exit
        /\ \A b \in Callers \ {a} : agent'[b] = agent[b]
    BY <2>1, AgentFacts, AgentGoes DEF AgentPcs
  <2>3. edit' \in EditRecs /\ edit'.status = edit.status BY <2>1, AgentFacts DEF EditRecs, AgentRecs
  <2>4. EditFits'
    <3>1. Granted /\ edit.status # "none" BY <2>1, AgentFacts DEF EditFits, Applying
    <3>2. QED BY <2>1, <2>2, <2>3, <3>1, AgentFacts DEF EditFits, Granted
  <2>5. agent'[a].result = "success" => agent'[a].exit = 0 BY <2>2, AgentFacts DEF TaskFits
  <2>6. TaskFits' /\ JobFits'
    BY <1>1, <2>1, <2>2, <2>5, ElsewhereKept DEF AtTask, TaskPcs, AtJob, Starts
  <2>7. QED BY <1>1, <1>2, <2>1, <2>2, <2>3, <2>4, <2>6, AgentFacts, AgentFollows
<1>5. CASE Agt!ValidateEdit(a)
  <2>1. /\ UNCHANGED <<approval, edit, file>> /\ agent[a].pc = "validate"
        /\ validation' = [validation EXCEPT ![a] = "running"] /\ Agt!Goto(a, "edit_wait")
    BY <1>5 DEF Agt!ValidateEdit, Agt!StartCommand, Agt!At
  <2>2. /\ agent' \in [Callers -> AgentRecs] /\ agent'[a].pc = "edit_wait"
        /\ agent'[a].result = agent[a].result /\ agent'[a].exit = agent[a].exit
        /\ \A b \in Callers \ {a} : agent'[b] = agent[b]
    BY <2>1, AgentFacts, AgentGoes DEF AgentPcs
  <2>3. validation' \in [Callers -> Validations] BY <2>1, AgentFacts DEF Validations
  <2>4. EditFits' BY <2>1, <2>2, AgentFacts DEF EditFits, Granted, Applying
  <2>5. agent'[a].result = "success" => agent'[a].exit = 0 BY <2>2, AgentFacts DEF TaskFits
  <2>6. TaskFits' /\ JobFits'
    BY <1>1, <2>1, <2>2, <2>5, ElsewhereKept DEF AtTask, TaskPcs, AtJob, Starts
  <2>7. QED BY <1>1, <1>2, <2>1, <2>2, <2>3, <2>4, <2>6, AgentFacts, AgentFollows
<1>6. CASE Agt!AwaitEdit(a)
  <2>1. UNCHANGED <<approval, edit, file>> /\ Agt!AwaitCommand(a, "edit_wait", "applied")
    BY <1>6 DEF Agt!AwaitEdit
  <2>2. /\ agent' \in [Callers -> AgentRecs] /\ agent'[a].pc = "applied" /\ agent[a].pc = "edit_wait"
        /\ agent'[a].result = "success" => agent'[a].exit = 0
        /\ \A b \in Callers \ {a} : agent'[b] = agent[b]
        /\ validation' \in [Callers -> Validations]
    BY <2>1, AgentFacts, CommandAwaited DEF AgentPcs
  <2>3. EditFits' BY <2>1, <2>2, AgentFacts DEF EditFits, Granted, Applying
  <2>4. TaskFits' /\ JobFits' BY <1>1, <2>2, ElsewhereKept DEF AtTask, TaskPcs, AtJob, Starts
  <2>5. QED BY <1>1, <1>2, <2>1, <2>2, <2>3, <2>4, AgentFacts, AgentFollows
<1>7. CASE Agt!FinishEdit(a)
  <2>1. /\ UNCHANGED <<approval, file, validation>> /\ agent[a].pc = "applied"
        /\ edit' = [edit EXCEPT !.status = IF Agt!EditValid(agent[a].exit) THEN "validation_passed"
                                           ELSE "validation_failed"]
        /\ Agt!Done(a)
    BY <1>7 DEF Agt!FinishEdit, Agt!At
  <2>2. /\ agent' \in [Callers -> AgentRecs] /\ agent'[a] = Agt!IdleAgent
        /\ \A b \in Callers \ {a} : agent'[b] = agent[b]
    BY <2>1, AgentFacts, AgentDone
  <2>3. /\ edit' \in EditRecs /\ edit'.snapshot = edit.snapshot
        /\ edit'.status \in Applied
    BY <2>1, AgentFacts DEF EditRecs, Agt!EditStatuses, Applied
  <2>4. EditFits'
    <3>1. Granted BY <2>1, AgentFacts DEF EditFits, Applying
    <3>2. QED BY <2>1, <2>2, <2>3, <3>1, AgentFacts DEF EditFits, Granted, Agt!IdleAgent, Applied
  <2>5. TaskFits' /\ JobFits'
    BY <1>1, <2>1, <2>2, ElsewhereKept DEF AtTask, TaskPcs, AtJob, Starts, Agt!IdleAgent
  <2>6. QED BY <1>1, <1>2, <2>1, <2>2, <2>3, <2>4, <2>5, AgentFacts, AgentFollows
<1>8. QED BY <1>3, <1>4, <1>5, <1>6, <1>7

\* What a caller does for the task or the job says nothing of the edit.
LEMMA EditKept ==
    ASSUME AgentInv, NEW a \in Callers, UNCHANGED <<approval, edit, file>>,
           agent'[a].pc \notin Applying, \A b \in Callers \ {a} : agent'[b] = agent[b]
    PROVE  EditFits'
BY AgentFacts DEF EditFits, Granted

\* What a caller does for the task says nothing of the job.
LEMMA JobKept ==
    ASSUME AgentInv, NEW a \in Callers, UNCHANGED job, agent'[a].pc \notin AtJob,
           \A b \in Callers \ {a} : agent'[b] = agent[b]
    PROVE  JobFits'
BY AgentFacts DEF JobFits, CallerFits, AtJob, Starts

\* A caller works for the task: it starts or goes on.
LEMMA TaskMoves ==
    ASSUME AgentInv, NEW a \in Callers,
           \/ Agt!StartTask(a) \/ Agt!PlanTask(a) \/ Agt!AwaitTask(a) \/ Agt!SaveValidation(a)
           \/ Agt!DecideTask(a) \/ Agt!CancelTask(a)
    PROVE  AgentInv'
<1>1. UNCHANGED <<approval, edit, file, job>>
  BY DEF Agt!StartTask, Agt!PlanTask, Agt!AwaitTask, Agt!SaveValidation, Agt!DecideTask,
     Agt!CancelTask
<1>2. agentCalls' \in 0..MaxAgentCalls
  BY AgentFacts, CallsCount DEF Agt!StartTask, Agt!PlanTask, Agt!AwaitTask, Agt!SaveValidation,
     Agt!DecideTask, Agt!CancelTask, Agt!HandleTask
<1>3. TaskFits /\ task \in TaskRecs /\ agent[a] \in AgentRecs BY AgentFacts
<1>4. ASSUME agent' \in [Callers -> AgentRecs], agent'[a].pc \notin Applying \union AtJob,
             \A b \in Callers \ {a} : agent'[b] = agent[b],
             validation' \in [Callers -> Validations], task' \in TaskRecs, TaskFits'
      PROVE  AgentInv'
  BY <1>1, <1>2, <1>4, EditKept, JobKept, AgentFacts, AgentFollows
<1>5. CASE Agt!StartTask(a)
  <2>1. /\ agent[a].pc = "idle" /\ task.status = "none" /\ validation' = validation
        /\ Agt!Goto(a, "plan")
        /\ \E edits \in BOOLEAN : task' = [task EXCEPT !.status = "inspecting", !.edits = edits]
    BY <1>5 DEF Agt!StartTask, Agt!HandleTask, Agt!At
  <2>2. /\ agent' \in [Callers -> AgentRecs] /\ agent'[a].pc = "plan"
        /\ agent'[a].result = agent[a].result /\ agent'[a].exit = agent[a].exit
        /\ \A b \in Callers \ {a} : agent'[b] = agent[b]
    BY <2>1, AgentFacts, AgentGoes DEF AgentPcs
  <2>3. /\ task' \in TaskRecs /\ task'.status = "inspecting"
        /\ task'.result = task.result /\ task'.exit = task.exit
    BY <1>3, <2>1 DEF TaskRecs, Agt!TaskStatuses
  <2>4. \A b \in Callers : ~AtTask(b) BY <1>3, <2>1 DEF TaskFits
  <2>5. TaskFits' BY <1>3, <2>2, <2>3, <2>4 DEF TaskFits, AtTask, TaskPcs
  <2>6. QED BY <1>4, <2>1, <2>2, <2>3, <2>5, AgentFacts DEF Applying, AtJob, Starts
<1>6. CASE Agt!PlanTask(a)
  <2>1. CASE /\ task' = [task EXCEPT !.status = "blocked"] /\ Agt!Done(a)
             /\ validation' = validation
    <3>1. /\ agent' \in [Callers -> AgentRecs] /\ agent'[a] = Agt!IdleAgent
          /\ \A b \in Callers \ {a} : agent'[b] = agent[b]
      BY <2>1, AgentFacts, AgentDone
    <3>2. /\ task' \in TaskRecs /\ task'.status = "blocked"
          /\ task'.result = task.result /\ task'.exit = task.exit
      BY <1>3, <2>1 DEF TaskRecs, Agt!TaskStatuses
    <3>3. TaskFits' BY <1>3, <3>1, <3>2 DEF TaskFits, AtTask, TaskPcs, Agt!IdleAgent
    <3>4. QED BY <1>4, <2>1, <3>1, <3>2, <3>3, AgentFacts DEF Agt!IdleAgent, Applying, AtJob, Starts
  <2>2. CASE Agt!StartCommand(a, "plan", "task_wait") /\ task' = task
    <3>1. /\ agent[a].pc = "plan" /\ Agt!Goto(a, "task_wait")
          /\ validation' = [validation EXCEPT ![a] = "running"]
      BY <2>2 DEF Agt!StartCommand, Agt!At
    <3>2. /\ agent' \in [Callers -> AgentRecs] /\ agent'[a].pc = "task_wait"
          /\ agent'[a].result = agent[a].result /\ agent'[a].exit = agent[a].exit
          /\ \A b \in Callers \ {a} : agent'[b] = agent[b]
      BY <3>1, AgentFacts, AgentGoes DEF AgentPcs
    <3>3. validation' \in [Callers -> Validations] BY <3>1, AgentFacts DEF Validations
    <3>4. \A b \in Callers : AtTask(b)' <=> AtTask(b) BY <3>1, <3>2 DEF AtTask, TaskPcs
    <3>5. TaskFits' BY <1>3, <2>2, <3>2, <3>4 DEF TaskFits
    <3>6. QED BY <1>4, <2>2, <3>2, <3>3, <3>5, AgentFacts DEF Applying, AtJob, Starts
  <2>3. QED BY <1>6, <2>1, <2>2 DEF Agt!PlanTask
<1>7. CASE Agt!AwaitTask(a)
  <2>1. task' = task /\ Agt!AwaitCommand(a, "task_wait", "validated") BY <1>7 DEF Agt!AwaitTask
  <2>2. /\ agent' \in [Callers -> AgentRecs] /\ agent'[a].pc = "validated" /\ agent[a].pc = "task_wait"
        /\ agent'[a].result = "success" => agent'[a].exit = 0
        /\ \A b \in Callers \ {a} : agent'[b] = agent[b]
        /\ validation' \in [Callers -> Validations]
    BY <2>1, AgentFacts, CommandAwaited DEF AgentPcs
  <2>3. \A b \in Callers : AtTask(b)' <=> AtTask(b) BY <2>2 DEF AtTask, TaskPcs
  <2>4. TaskFits' BY <1>3, <2>1, <2>2, <2>3 DEF TaskFits
  <2>5. QED BY <1>4, <2>1, <2>2, <2>4, AgentFacts DEF Applying, AtJob, Starts
<1>8. CASE Agt!SaveValidation(a)
  <2>1. /\ agent[a].pc = "validated" /\ validation' = validation /\ Agt!Goto(a, "decide")
        /\ task' = [task EXCEPT !.status = "validating", !.result = agent[a].result,
                                !.exit = agent[a].exit]
    BY <1>8 DEF Agt!SaveValidation, Agt!At
  <2>2. /\ agent' \in [Callers -> AgentRecs] /\ agent'[a].pc = "decide"
        /\ agent'[a].result = agent[a].result /\ agent'[a].exit = agent[a].exit
        /\ \A b \in Callers \ {a} : agent'[b] = agent[b]
    BY <2>1, AgentFacts, AgentGoes DEF AgentPcs
  <2>3. /\ task' \in TaskRecs /\ task'.status = "validating"
        /\ task'.result = agent[a].result /\ task'.exit = agent[a].exit
    BY <1>3, <2>1 DEF TaskRecs, Agt!TaskStatuses, AgentRecs
  <2>4. \A b \in Callers : AtTask(b) => b = a BY <1>3, <2>1 DEF TaskFits, AtTask, TaskPcs
  <2>5. TaskFits' BY <1>3, <2>2, <2>3, <2>4 DEF TaskFits, AtTask, TaskPcs
  <2>6. QED BY <1>4, <2>1, <2>2, <2>3, <2>5, AgentFacts DEF Applying, AtJob, Starts
<1>9. CASE Agt!DecideTask(a)
  <2>1. PICK s \in {"blocked", "approval_required", "needs_external_coder", "needs_input",
                    "completed"} :
          /\ task' = [task EXCEPT !.status = s]
          /\ s = "completed" => Agt!TaskValid(agent[a].result, agent[a].exit)
    BY <1>9 DEF Agt!DecideTask
  <2>2. agent[a].pc = "decide" /\ validation' = validation /\ Agt!Done(a)
    BY <1>9 DEF Agt!DecideTask, Agt!At
  <2>3. /\ agent' \in [Callers -> AgentRecs] /\ agent'[a] = Agt!IdleAgent
        /\ \A b \in Callers \ {a} : agent'[b] = agent[b]
    BY <2>2, AgentFacts, AgentDone
  <2>4. /\ task' \in TaskRecs /\ task'.status = s
        /\ task'.result = task.result /\ task'.exit = task.exit
    BY <1>3, <2>1 DEF TaskRecs, Agt!TaskStatuses
  <2>5. \A b \in Callers : ~(AtTask(b)')
    BY <1>3, <2>2, <2>3 DEF TaskFits, AtTask, TaskPcs, Agt!IdleAgent
  <2>6. s = "completed" => task.result = "success" \/ task.exit = 0
    BY <1>3, <2>1, <2>2 DEF TaskFits, Agt!TaskValid
  <2>7. TaskFits' BY <1>3, <2>3, <2>4, <2>5, <2>6 DEF TaskFits, AtTask, TaskPcs, Agt!IdleAgent
  <2>8. QED BY <1>4, <2>2, <2>3, <2>4, <2>7, AgentFacts DEF Agt!IdleAgent, Applying, AtJob, Starts
<1>10. CASE Agt!CancelTask(a)
  <2>1. /\ UNCHANGED <<agent, validation>> /\ task.status # "none"
        /\ task' = [task EXCEPT !.status = "cancelled"]
    BY <1>10 DEF Agt!CancelTask
  <2>2. /\ task' \in TaskRecs /\ task'.status = "cancelled"
        /\ task'.result = task.result /\ task'.exit = task.exit
    BY <1>3, <2>1 DEF TaskRecs, Agt!TaskStatuses
  <2>3. TaskFits' /\ JobFits' /\ EditFits'
    BY <1>1, <1>3, <2>1, <2>2, AgentFacts DEF TaskFits, AtTask, TaskPcs, JobFits, EditFits, Granted
  <2>4. QED BY <1>1, <1>2, <2>1, <2>2, <2>3, AgentFacts, AgentFollows
<1>11. QED BY <1>5, <1>6, <1>7, <1>8, <1>9, <1>10

\* What a caller does for the job says nothing of the task.
LEMMA TaskKept ==
    ASSUME AgentInv, NEW a \in Callers, UNCHANGED task, ~AtTask(a)',
           agent'[a].result = "success" => agent'[a].exit = 0,
           \A b \in Callers \ {a} : agent'[b] = agent[b]
    PROVE  TaskFits'
<1>1. \A b \in Callers : AtTask(b)' => AtTask(b) /\ b # a BY DEF AtTask, TaskPcs
<1>2. QED BY <1>1, AgentFacts DEF TaskFits, AtTask, TaskPcs

\* What a caller does for the job, when its record and the result fit afterwards.
LEMMA JobFollows ==
    ASSUME AgentInv, NEW a \in Callers, UNCHANGED <<approval, edit, file, validation, task>>,
           agentCalls' \in 0..MaxAgentCalls, agent[a].pc \notin TaskPcs,
           agent' \in [Callers -> AgentRecs], agent'[a].pc \notin Applying \union TaskPcs,
           agent'[a].result = "success" => agent'[a].exit = 0,
           \A b \in Callers \ {a} : agent'[b] = agent[b],
           job' \in JobRecs, JobFits'
    PROVE  AgentInv'
<1>1. ~AtTask(a)' BY DEF AtTask, TaskPcs
<1>2. EditFits' /\ TaskFits' BY <1>1, EditKept, TaskKept
<1>3. QED BY <1>2, AgentFacts, AgentFollows

\* The process of the job ends.
LEMMA JobMoves ==
    ASSUME AgentInv, Agt!ProcessEnds
    PROVE  AgentInv'
<1>1. UNCHANGED <<approval, edit, file, agent, validation, task, agentCalls>> BY DEF Agt!ProcessEnds
<1>2. job \in JobRecs /\ JobFits BY AgentFacts
<1>3. PICK c \in {0, 1} : job' = [job EXCEPT !.process = "ended", !.code = c] BY DEF Agt!ProcessEnds
<1>4. job.process \in {"running", "signalled"} BY DEF Agt!ProcessEnds, Agt!Alive
<1>5. /\ job' \in JobRecs /\ job'.process = "ended" /\ job'.code = c
      /\ job'.status = job.status /\ job'.owned = job.owned
  BY <1>2, <1>3 DEF JobRecs
<1>6. JobSound(job') BY <1>2, <1>4, <1>5 DEF JobFits, JobSound, Stopped
<1>7. ASSUME NEW b \in Callers
      PROVE  CallerFits(agent[b], job')
  <2>1. CallerFits(agent[b], job) BY <1>2 DEF JobFits
  <2>2. agent[b].pc # "spawn" BY <1>4, <2>1 DEF CallerFits
  <2>3. QED BY <1>4, <1>5, <2>1, <2>2 DEF CallerFits, Stopped
<1>8. JobFits' BY <1>1, <1>2, <1>6, <1>7 DEF JobFits
<1>9. EditFits' /\ TaskFits' BY <1>1, AgentFacts DEF EditFits, Granted, TaskFits, AtTask, TaskPcs
<1>10. QED BY <1>1, <1>5, <1>8, <1>9, AgentFacts, AgentFollows

\* A process is told to stop.
LEMMA SignalsFit ==
    ASSUME job \in JobRecs, JobSound(job)
    PROVE  /\ Agt!Signalled \in JobRecs /\ JobSound(Agt!Signalled)
           /\ Agt!Signalled.status = job.status /\ Agt!Signalled.owned = job.owned
           /\ Agt!Signalled.code = job.code
           /\ Agt!Signalled.process = IF job.process = "running" THEN "signalled" ELSE job.process
<1> DEFINE k == Agt!Signalled
<1>1. /\ k \in JobRecs
      /\ k.status = job.status /\ k.owned = job.owned /\ k.code = job.code
      /\ k.process = IF job.process = "running" THEN "signalled" ELSE job.process
  BY DEF Agt!Signalled, JobRecs
<1> HIDE DEF k
<1>2. JobSound(k) BY <1>1 DEF JobSound, Stopped
<1>3. QED BY <1>1, <1>2 DEF k

\* A caller has decided how the job ended.
LEMMA JobDecided ==
    ASSUME agent \in [Callers -> AgentRecs], NEW a \in Callers,
           NEW s \in Agt!JobTerminal, Agt!Decide(a, s)
    PROVE  /\ agent' \in [Callers -> AgentRecs] /\ agent'[a].pc = "finish"
           /\ agent'[a].outcome = s /\ agent'[a].result = agent[a].result
           /\ agent'[a].exit = agent[a].exit
           /\ \A b \in Callers \ {a} : agent'[b] = agent[b]
<1> DEFINE r == [agent[a] EXCEPT !.pc = "finish", !.outcome = s]
<1>1. /\ r \in AgentRecs /\ r.pc = "finish" /\ r.result = agent[a].result
      /\ r.exit = agent[a].exit /\ r.outcome = s
  BY DEF AgentRecs, AgentPcs
<1>2. agent' = [agent EXCEPT ![a] = r] BY DEF Agt!Decide
<1> HIDE DEF r
<1>3. QED BY <1>1, <1>2

\* A caller starts, refreshes, cancels, contains or finishes the job.
LEMMA JobTurns ==
    ASSUME AgentInv, NEW a \in Callers,
           \/ Agt!StartJob(a) \/ Agt!SpawnJob(a) \/ Agt!KeepHandle(a) \/ Agt!MarkRunning(a)
           \/ Agt!RefreshJob(a) \/ Agt!CancelJob(a) \/ Agt!ContainJob(a)
           \/ Agt!FinishJob(a) \/ Agt!ReleaseHandle(a)
    PROVE  AgentInv'
<1>1. UNCHANGED <<approval, edit, file, validation, task>>
  BY DEF Agt!StartJob, Agt!SpawnJob, Agt!KeepHandle, Agt!MarkRunning, Agt!RefreshJob,
     Agt!CancelJob, Agt!ContainJob, Agt!FinishJob, Agt!ReleaseHandle
<1>2. agentCalls' \in 0..MaxAgentCalls
  BY AgentFacts, CallsCount DEF Agt!StartJob, Agt!SpawnJob, Agt!KeepHandle, Agt!MarkRunning,
     Agt!RefreshJob, Agt!CancelJob, Agt!ContainJob, Agt!FinishJob, Agt!ReleaseHandle,
     Agt!HandleTask
<1>3. /\ job \in JobRecs /\ JobSound(job) /\ \A b \in Callers : CallerFits(agent[b], job)
      /\ \A b, c \in Callers : agent[b].pc \in Starts /\ agent[c].pc \in Starts => b = c
      /\ agent \in [Callers -> AgentRecs]
      /\ agent[a].result = "success" => agent[a].exit = 0
  BY AgentFacts DEF JobFits, TaskFits
<1>4. agent[a].pc \in {"idle", "contain"} \union AtJob
  BY DEF Agt!StartJob, Agt!SpawnJob, Agt!KeepHandle, Agt!MarkRunning, Agt!RefreshJob,
     Agt!CancelJob, Agt!ContainJob, Agt!FinishJob, Agt!ReleaseHandle, Agt!HandleTask, Agt!At,
     AtJob, Starts
\* The step of the caller, its record afterwards and that of the job.
<1>5. ASSUME NEW r, NEW k \in JobRecs, JobSound(k), CallerFits(r, k),
             agent' \in [Callers -> AgentRecs], agent'[a] = r, job' = k,
             \A b \in Callers \ {a} : agent'[b] = agent[b] /\ CallerFits(agent[b], k),
             r.pc \in {"idle", "contain"} \union AtJob,
             r.pc \in Starts => \A b \in Callers \ {a} : agent[b].pc \notin Starts,
             r.result = "success" => r.exit = 0
      PROVE  AgentInv'
  <2>1. \A b \in Callers : CallerFits(agent'[b], job') BY <1>5
  <2>2. \A b, c \in Callers : agent'[b].pc \in Starts /\ agent'[c].pc \in Starts => b = c
    BY <1>3, <1>5
  <2>3. JobFits' BY <1>5, <2>1, <2>2 DEF JobFits
  <2>4. /\ agent[a].pc \notin TaskPcs
        /\ agent'[a].pc \notin Applying \union TaskPcs
    BY <1>4, <1>5 DEF AtJob, Starts, TaskPcs, Applying
  <2>5. agent'[a].result = "success" => agent'[a].exit = 0 BY <1>5
  <2>6. QED BY <1>1, <1>2, <1>5, <2>3, <2>4, <2>5, JobFollows
\* A caller goes on while the result stays as it is.
<1>6. ASSUME NEW p \in {"idle", "contain"} \union AtJob, Agt!Goto(a, p), job' = job,
             p \in Starts => agent[a].pc \in Starts,
             CallerFits([agent[a] EXCEPT !.pc = p], job)
      PROVE  AgentInv'
  <2>1. p \in AgentPcs BY DEF AgentPcs, AtJob, Starts
  <2>2. /\ agent' \in [Callers -> AgentRecs] /\ agent'[a].pc = p
        /\ agent'[a].result = agent[a].result /\ agent'[a].exit = agent[a].exit
        /\ \A b \in Callers \ {a} : agent'[b] = agent[b]
        /\ agent'[a] = [agent[a] EXCEPT !.pc = p]
    BY <1>3, <1>6, <2>1, AgentGoes DEF Agt!Goto
  <2>3. p \in Starts => \A b \in Callers \ {a} : agent[b].pc \notin Starts BY <1>3, <1>6
  <2>4. CallerFits(agent'[a], job) BY <1>6, <2>2
  <2>5. QED BY <1>3, <1>5, <1>6, <2>2, <2>3, <2>4
<1>7. CASE Agt!StartJob(a)
  <2>1. agent[a].pc = "idle" /\ job.status = "none" BY <1>7 DEF Agt!StartJob, Agt!HandleTask, Agt!At
  <2>2. job.process = "none" /\ ~job.owned /\ \A b \in Callers : agent[b].pc \notin Starts
    BY <1>3, <2>1 DEF JobSound, CallerFits
  <2>3. PICK st \in {"blocked", "created"} :
           /\ job' = [job EXCEPT !.status = st]
           /\ \/ st = "blocked" /\ agent' = agent
              \/ st = "created" /\ Agt!Goto(a, "spawn")
    BY <1>7 DEF Agt!StartJob
  <2>4. /\ job' \in JobRecs /\ job'.status = st /\ job'.process = "none" /\ job'.owned = job.owned
        /\ job'.code = job.code
    BY <1>3, <2>2, <2>3 DEF JobRecs, Agt!JobStatuses, Agt!JobTerminal
  <2>5. JobSound(job') BY <2>2, <2>4 DEF JobSound
  <2>6. \A b \in Callers : CallerFits(agent[b], job')
    BY <1>3, <2>2, <2>4 DEF CallerFits, Starts, Stopped
  <2>7. CASE agent' = agent BY <1>3, <1>5, <2>1, <2>2, <2>4, <2>5, <2>6, <2>7
  <2>8. CASE st = "created" /\ Agt!Goto(a, "spawn")
    <3>1. /\ agent' \in [Callers -> AgentRecs] /\ agent'[a].pc = "spawn"
          /\ agent'[a].result = agent[a].result /\ agent'[a].exit = agent[a].exit
          /\ \A b \in Callers \ {a} : agent'[b] = agent[b]
      BY <1>3, <2>8, AgentGoes DEF AgentPcs
    <3>2. CallerFits(agent'[a], job') BY <2>4, <2>8, <3>1 DEF CallerFits
    <3>3. agent'[a].pc \in {"idle", "contain"} \union AtJob BY <3>1 DEF AtJob, Starts
    <3>4. QED BY <1>3, <1>5, <2>2, <2>4, <2>5, <2>6, <3>1, <3>2, <3>3
  <2>9. QED BY <2>3, <2>7, <2>8
<1>8. CASE Agt!SpawnJob(a)
  <2>1. agent[a].pc = "spawn" BY <1>8 DEF Agt!SpawnJob, Agt!At
  <2>2. /\ job.process = "none" /\ ~job.owned /\ job.status \notin {"none", "running", "completed"}
        /\ job.status \notin {"timeout", "cancelled"}
        /\ \A b \in Callers \ {a} : agent[b].pc \notin Starts
    BY <1>3, <2>1 DEF CallerFits, JobSound, Starts, Stopped
  <2>3. CASE job' = [job EXCEPT !.status = "failed"] /\ Agt!Done(a)
    <3>1. /\ agent' \in [Callers -> AgentRecs] /\ agent'[a] = Agt!IdleAgent
          /\ \A b \in Callers \ {a} : agent'[b] = agent[b]
      BY <1>3, <2>3, AgentDone
    <3>2. /\ job' \in JobRecs /\ job'.status = "failed" /\ job'.process = "none"
          /\ job'.owned = job.owned /\ job'.code = job.code
      BY <1>3, <2>2, <2>3 DEF JobRecs, Agt!JobStatuses, Agt!JobTerminal
    <3>3. JobSound(job') BY <2>2, <3>2 DEF JobSound
    <3>4. \A b \in Callers \ {a} : CallerFits(agent[b], job')
      BY <1>3, <2>2, <3>2 DEF CallerFits, Starts, Stopped
    <3>5. /\ CallerFits(Agt!IdleAgent, job') /\ Agt!IdleAgent.pc = "idle"
          /\ Agt!IdleAgent.result # "success" /\ Agt!IdleAgent.pc \notin Starts
      BY DEF CallerFits, Starts, Agt!IdleAgent
    <3>6. QED BY <1>5, <3>1, <3>2, <3>3, <3>4, <3>5
  <2>4. CASE job' = [job EXCEPT !.process = "running"] /\ Agt!Goto(a, "keep")
    <3>1. /\ agent' \in [Callers -> AgentRecs] /\ agent'[a].pc = "keep"
          /\ agent'[a].result = agent[a].result /\ agent'[a].exit = agent[a].exit
          /\ \A b \in Callers \ {a} : agent'[b] = agent[b]
      BY <1>3, <2>4, AgentGoes DEF AgentPcs
    <3>2. /\ job' \in JobRecs /\ job'.status = job.status /\ job'.process = "running"
          /\ job'.owned = job.owned /\ job'.code = job.code
      BY <1>3, <2>2, <2>4 DEF JobRecs
    <3>3. JobSound(job') BY <2>2, <3>2 DEF JobSound
    <3>4. \A b \in Callers \ {a} : CallerFits(agent[b], job')
      BY <1>3, <2>2, <3>2 DEF CallerFits, Starts, Stopped
    <3>5. CallerFits(agent'[a], job') /\ agent'[a].pc \in {"idle", "contain"} \union AtJob
      BY <2>2, <3>1, <3>2 DEF CallerFits, Starts, AtJob
    <3>6. QED BY <1>3, <1>5, <2>2, <3>1, <3>2, <3>3, <3>4, <3>5
  <2>5. QED BY <1>8, <2>3, <2>4 DEF Agt!SpawnJob
<1>9. CASE Agt!KeepHandle(a)
  <2>1. agent[a].pc = "keep" /\ job' = [job EXCEPT !.owned = TRUE] /\ Agt!Goto(a, "mark")
    BY <1>9 DEF Agt!KeepHandle, Agt!At
  <2>2. /\ agent' \in [Callers -> AgentRecs] /\ agent'[a].pc = "mark"
        /\ agent'[a].result = agent[a].result /\ agent'[a].exit = agent[a].exit
        /\ \A b \in Callers \ {a} : agent'[b] = agent[b]
    BY <1>3, <2>1, AgentGoes DEF AgentPcs
  <2>3. /\ job' \in JobRecs /\ job'.status = job.status /\ job'.process = job.process
        /\ job'.owned /\ job'.code = job.code
    BY <1>3, <2>1 DEF JobRecs
  <2>4. /\ job.process # "none" /\ job.status \notin {"none", "running"}
        /\ \A b \in Callers \ {a} : agent[b].pc \notin Starts
    BY <1>3, <2>1 DEF CallerFits, Starts
  <2>5. JobSound(job') BY <1>3, <2>3, <2>4 DEF JobSound, Stopped
  <2>6. \A b \in Callers \ {a} : CallerFits(agent[b], job')
    BY <1>3, <2>3, <2>4 DEF CallerFits, Starts, Stopped
  <2>7. CallerFits(agent'[a], job') /\ agent'[a].pc \in {"idle", "contain"} \union AtJob
    BY <2>2, <2>3, <2>4 DEF CallerFits, Starts, AtJob
  <2>8. QED BY <1>3, <1>5, <2>2, <2>3, <2>4, <2>5, <2>6, <2>7
<1>10. CASE Agt!MarkRunning(a)
  <2>1. agent[a].pc = "mark" /\ job' = [job EXCEPT !.status = "running"] /\ Agt!Done(a)
    BY <1>10 DEF Agt!MarkRunning, Agt!At
  <2>2. /\ agent' \in [Callers -> AgentRecs] /\ agent'[a] = Agt!IdleAgent
        /\ \A b \in Callers \ {a} : agent'[b] = agent[b]
    BY <1>3, <2>1, AgentDone
  <2>3. /\ job' \in JobRecs /\ job'.status = "running" /\ job'.process = job.process
        /\ job'.owned = job.owned /\ job'.code = job.code
    BY <1>3, <2>1 DEF JobRecs, Agt!JobStatuses
  <2>4. /\ job.owned \/ Stopped(job)
        /\ \A b \in Callers \ {a} : agent[b].pc \notin Starts
    BY <1>3, <2>1 DEF CallerFits, Starts
  <2>5. JobSound(job') BY <1>3, <2>3, <2>4 DEF JobSound, Stopped
  <2>6. \A b \in Callers \ {a} : CallerFits(agent[b], job')
    BY <1>3, <2>3, <2>4 DEF CallerFits, Starts, Stopped
  <2>7. /\ CallerFits(Agt!IdleAgent, job') /\ Agt!IdleAgent.pc = "idle"
        /\ Agt!IdleAgent.result # "success" /\ Agt!IdleAgent.pc \notin Starts
    BY DEF CallerFits, Starts, Agt!IdleAgent
  <2>8. QED BY <1>5, <2>2, <2>3, <2>5, <2>6, <2>7
\* A caller that has a handle decides how the job ended.
<1>11. ASSUME NEW s \in Agt!JobTerminal, agent[a].pc \in {"idle", "contain"}, Agt!Decide(a, s),
              \/ job' = job
              \/ job' = Agt!Signalled,
              s # "needs_input" => Stopped(job'),
              s = "completed" => job'.process = "ended" /\ job'.code = 0
       PROVE  AgentInv'
  <2>1. /\ agent' \in [Callers -> AgentRecs] /\ agent'[a].pc = "finish"
        /\ agent'[a].outcome = s /\ agent'[a].result = agent[a].result
        /\ agent'[a].exit = agent[a].exit
        /\ \A b \in Callers \ {a} : agent'[b] = agent[b]
    BY <1>3, <1>11, JobDecided
  <2>2. /\ job' \in JobRecs /\ JobSound(job') /\ job'.status = job.status
        /\ job'.owned = job.owned /\ job'.code = job.code
        /\ \/ job'.process = job.process
           \/ job.process = "running" /\ job'.process = "signalled"
    BY <1>3, <1>11, SignalsFit
  <2>3. \A b \in Callers \ {a} : CallerFits(agent[b], job')
    BY <1>3, <2>2 DEF CallerFits, Starts, Stopped
  <2>4. s # "none" /\ "finish" \notin Starts /\ "finish" \in AtJob
    BY DEF Agt!JobTerminal, Starts, AtJob
  <2>5. CallerFits(agent'[a], job') BY <1>11, <2>1, <2>4 DEF CallerFits
  <2>6. QED BY <1>3, <1>5, <2>1, <2>2, <2>3, <2>4, <2>5
<1>12. CASE Agt!RefreshJob(a)
  <2>1. agent[a].pc = "idle" BY <1>12 DEF Agt!RefreshJob, Agt!HandleTask, Agt!At
  <2>2. CASE Agt!Goto(a, "contain") /\ job' = job
    <3>1. CallerFits([agent[a] EXCEPT !.pc = "contain"], job)
      BY <1>3 DEF CallerFits, Starts, AgentRecs
    <3>2. QED BY <1>6, <2>2, <3>1 DEF Starts
  <2>3. CASE job.owned /\ job' = Agt!Signalled /\ Agt!Decide(a, "timeout")
    BY <1>3, <1>11, <2>1, <2>3, SignalsFit DEF JobSound, Stopped, JobRecs, Agt!JobTerminal
  <2>4. CASE agent' = agent /\ job' = job
    <3>1. \A b \in Callers \ {a} : agent[a].pc \in Starts => agent[b].pc \notin Starts BY <1>3
    <3>2. QED BY <1>3, <1>4, <1>5, <2>4, <3>1
  <2>5. CASE /\ job.process = "ended" /\ job' = job
             /\ Agt!Decide(a, IF job.code = 0 THEN "completed" ELSE "failed")
    BY <1>11, <2>1, <2>5 DEF Stopped, Agt!JobTerminal
  <2>6. QED BY <1>12, <2>2, <2>3, <2>4, <2>5 DEF Agt!RefreshJob
<1>13. CASE Agt!CancelJob(a)
  <2>1. agent[a].pc = "idle" BY <1>13 DEF Agt!CancelJob, Agt!HandleTask, Agt!At
  <2>2. CASE Agt!Goto(a, "contain") /\ job' = job
    <3>1. CallerFits([agent[a] EXCEPT !.pc = "contain"], job)
      BY <1>3 DEF CallerFits, Starts, AgentRecs
    <3>2. QED BY <1>6, <2>2, <3>1 DEF Starts
  <2>3. CASE agent' = agent /\ job' = job
    <3>1. \A b \in Callers \ {a} : agent[a].pc \in Starts => agent[b].pc \notin Starts BY <1>3
    <3>2. QED BY <1>3, <1>4, <1>5, <2>3, <3>1
  <2>4. CASE job.owned /\ job' = Agt!Signalled /\ Agt!Decide(a, "cancelled")
    BY <1>3, <1>11, <2>1, <2>4, SignalsFit DEF JobSound, Stopped, JobRecs, Agt!JobTerminal
  <2>5. QED BY <1>13, <2>2, <2>3, <2>4 DEF Agt!CancelJob
<1>14. CASE Agt!ContainJob(a)
  <2>1. agent[a].pc = "contain" /\ job' = job BY <1>14 DEF Agt!ContainJob, Agt!At
  <2>2. CASE Agt!Decide(a, "needs_input") BY <1>11, <2>1, <2>2 DEF Agt!JobTerminal
  <2>3. CASE Agt!Done(a)
    <3>1. /\ agent' \in [Callers -> AgentRecs] /\ agent'[a] = Agt!IdleAgent
          /\ \A b \in Callers \ {a} : agent'[b] = agent[b]
      BY <1>3, <2>3, AgentDone
    <3>2. /\ CallerFits(Agt!IdleAgent, job) /\ Agt!IdleAgent.pc = "idle"
          /\ Agt!IdleAgent.result # "success" /\ Agt!IdleAgent.pc \notin Starts
      BY DEF CallerFits, Starts, Agt!IdleAgent
    <3>3. QED BY <1>3, <1>5, <2>1, <3>1, <3>2
  <2>4. QED BY <1>14, <2>2, <2>3 DEF Agt!ContainJob
<1>15. CASE Agt!FinishJob(a)
  <2>1. /\ agent[a].pc = "finish" /\ job' = [job EXCEPT !.status = agent[a].outcome]
        /\ IF agent[a].outcome = "needs_input" THEN Agt!Done(a) ELSE Agt!Goto(a, "release")
    BY <1>15 DEF Agt!FinishJob, Agt!At
  <2>2. agent[a].outcome \in Agt!JobTerminal BY <1>3, <2>1 DEF CallerFits, AgentRecs
  <2>3. /\ job' \in JobRecs /\ job'.status = agent[a].outcome /\ job'.process = job.process
        /\ job'.owned = job.owned /\ job'.code = job.code
    BY <1>3, <2>1, <2>2 DEF JobRecs, Agt!JobStatuses
  <2>4. job'.status \notin {"none", "running"} BY <2>2, <2>3 DEF Agt!JobTerminal
  <2>5. JobSound(job') BY <1>3, <2>1, <2>3, <2>4 DEF JobSound, CallerFits, Stopped
  <2>6. \A b \in Callers \ {a} : CallerFits(agent[b], job')
    BY <1>3, <2>3, <2>4 DEF CallerFits, Starts, Stopped
  <2>7. CASE Agt!Done(a)
    <3>1. /\ agent' \in [Callers -> AgentRecs] /\ agent'[a] = Agt!IdleAgent
          /\ \A b \in Callers \ {a} : agent'[b] = agent[b]
      BY <1>3, <2>7, AgentDone
    <3>2. /\ CallerFits(Agt!IdleAgent, job') /\ Agt!IdleAgent.pc = "idle"
          /\ Agt!IdleAgent.result # "success" /\ Agt!IdleAgent.pc \notin Starts
      BY DEF CallerFits, Starts, Agt!IdleAgent
    <3>3. QED BY <1>5, <2>3, <2>5, <2>6, <3>1, <3>2
  <2>8. CASE agent[a].outcome # "needs_input" /\ Agt!Goto(a, "release")
    <3>1. /\ agent' \in [Callers -> AgentRecs] /\ agent'[a].pc = "release"
          /\ agent'[a].result = agent[a].result /\ agent'[a].exit = agent[a].exit
          /\ agent'[a].outcome = agent[a].outcome
          /\ \A b \in Callers \ {a} : agent'[b] = agent[b]
      BY <1>3, <2>8, AgentGoes DEF AgentPcs
    <3>2. Stopped(job') BY <1>3, <2>1, <2>3, <2>8 DEF CallerFits, Stopped
    <3>3. CallerFits(agent'[a], job') BY <2>8, <3>1, <3>2 DEF CallerFits, Starts
    <3>4. "release" \notin Starts /\ "release" \in AtJob BY DEF Starts, AtJob
    <3>5. QED BY <1>3, <1>5, <2>3, <2>5, <2>6, <3>1, <3>3, <3>4
  <2>9. QED BY <2>1, <2>7, <2>8
<1>16. CASE Agt!ReleaseHandle(a)
  <2>1. agent[a].pc = "release" /\ job' = [job EXCEPT !.owned = FALSE] /\ Agt!Done(a)
    BY <1>16 DEF Agt!ReleaseHandle, Agt!At
  <2>2. /\ agent' \in [Callers -> AgentRecs] /\ agent'[a] = Agt!IdleAgent
        /\ \A b \in Callers \ {a} : agent'[b] = agent[b]
    BY <1>3, <2>1, AgentDone
  <2>3. /\ job' \in JobRecs /\ job'.status = job.status /\ job'.process = job.process
        /\ ~job'.owned /\ job'.code = job.code
    BY <1>3, <2>1 DEF JobRecs
  <2>4. Stopped(job) BY <1>3, <2>1 DEF CallerFits
  <2>5. JobSound(job') BY <1>3, <2>3, <2>4 DEF JobSound, Stopped
  <2>6. \A b \in Callers \ {a} : CallerFits(agent[b], job')
    BY <1>3, <2>3, <2>4 DEF CallerFits, Starts, Stopped
  <2>7. /\ CallerFits(Agt!IdleAgent, job') /\ Agt!IdleAgent.pc = "idle"
        /\ Agt!IdleAgent.result # "success" /\ Agt!IdleAgent.pc \notin Starts
    BY DEF CallerFits, Starts, Agt!IdleAgent
  <2>8. QED BY <1>5, <2>2, <2>3, <2>5, <2>6, <2>7
<1>17. QED BY <1>7, <1>8, <1>9, <1>10, <1>12, <1>13, <1>14, <1>15, <1>16

\* The process of the callers restarts.
LEMMA AgentsRestart ==
    ASSUME AgentInv, Agt!RestartAgents
    PROVE  AgentInv'
<1>1. /\ UNCHANGED <<approval, edit, file, validation, task>>
      /\ agent' = [a \in Callers |-> Agt!IdleAgent]
  BY DEF Agt!RestartAgents
<1>2. agentCalls' \in 0..MaxAgentCalls BY AgentFacts, CallsCount DEF Agt!RestartAgents, Agt!Event
<1>3. job \in JobRecs /\ JobSound(job) BY AgentFacts DEF JobFits
<1>4. agent' \in [Callers -> AgentRecs] BY <1>1 DEF AgentRecs, AgentPcs, Agt!IdleAgent
<1>5. PICK s \in Agt!JobStatuses :
         /\ job' = [job EXCEPT !.owned = FALSE, !.status = s]
         /\ s # "running" /\ (s = job.status \/ s = "needs_input")
  <2>1. job.status \in Agt!JobStatuses BY <1>3 DEF JobRecs
  <2>2. job' = [job EXCEPT !.owned = FALSE,
                           !.status = IF job.status \in {"created", "running"} THEN "needs_input"
                                      ELSE job.status]
    BY <1>3 DEF Agt!RestartAgents, Agt!Contains, Agt!Open, JobRecs
  <2>3. QED BY <2>1, <2>2 DEF Agt!JobStatuses, Agt!JobTerminal
<1>6. /\ job' \in JobRecs /\ ~job'.owned /\ job'.status = s
      /\ job'.process = job.process /\ job'.code = job.code
  BY <1>3, <1>5 DEF JobRecs
<1>7. JobSound(job') BY <1>3, <1>5, <1>6 DEF JobSound, Stopped
<1>8. \A a \in Callers : agent'[a] = Agt!IdleAgent /\ CallerFits(agent'[a], job')
  BY <1>1 DEF CallerFits, Starts, Agt!IdleAgent
<1>9. EditFits' /\ TaskFits' /\ JobFits'
  BY <1>1, <1>7, <1>8, AgentFacts DEF EditFits, Granted, Applying, TaskFits, AtTask, TaskPcs, JobFits, Starts,
     Agt!IdleAgent
<1>10. QED BY <1>1, <1>2, <1>4, <1>6, <1>9, AgentFacts, AgentFollows

\* A command ends by itself.
LEMMA CommandEnds ==
    ASSUME AgentInv, NEW a \in Callers, Agt!RunMoves(a)
    PROVE  AgentInv'
<1>1. UNCHANGED <<approval, edit, file, agent, task, job, agentCalls>> BY DEF Agt!RunMoves
<1>2. validation' \in [Callers -> Validations]
  BY AgentFacts DEF Agt!RunMoves, Validations, Agt!RunTerminal
<1>3. EditFits' /\ TaskFits' /\ JobFits'
  BY <1>1, AgentFacts DEF EditFits, Granted, TaskFits, AtTask, TaskPcs, JobFits
<1>4. QED BY <1>1, <1>2, <1>3, AgentFacts, AgentFollows

\* Every step of the callers keeps the invariant.
LEMMA AgentStep ==
    ASSUME AgentInv, Agt!Next
    PROVE  AgentInv'
BY EditMoves, EditApplies, TaskMoves, JobMoves, JobTurns, AgentsRestart, CommandEnds DEF Agt!Next

\* Nothing has been asked of the callers yet.
LEMMA AgentInit ==
    ASSUME Agt!Init
    PROVE  AgentInv
<1>1. Agt!TypeOK
  BY ServiceConstants DEF Agt!Init, Agt!TypeOK, Agt!AgentConstants, Agt!Approvals, Agt!Evaluate,
     Agt!EditStatuses, Agt!TaskStatuses, Agt!JobStatuses, Agt!Alive
<1>2. agent \in [Callers -> AgentRecs] BY DEF Agt!Init, AgentRecs, AgentPcs, Agt!IdleAgent
<1>3. EditFits /\ TaskFits /\ JobFits
  BY DEF Agt!Init, EditFits, TaskFits, JobFits, AtTask, TaskPcs, Agt!IdleAgent, Granted, Applied, Applying,
     JobSound, CallerFits, Starts
<1>4. QED BY <1>1, <1>2, <1>3 DEF AgentInv

\* A step that leaves the callers alone.
LEMMA AgentStutters ==
    ASSUME AgentInv, UNCHANGED agentState
    PROVE  AgentInv'
<1>1. UNCHANGED <<approval, edit, file, agent, validation, task, job, agentCalls>> BY DEF agentState
<1>2. EditFits' /\ TaskFits' /\ JobFits'
  BY <1>1, AgentFacts DEF EditFits, Granted, TaskFits, AtTask, TaskPcs, JobFits
<1>3. QED BY <1>1, <1>2, AgentFacts, AgentFollows

\* An edit reaches the file only with the approval that is required; what tasks and
\* jobs report is what their commands came to, and no process runs unwatched behind a
\* job that reads as running (local_coding_manager.py, supervisor_flow.py,
\* job_monitor.py, long_run_manager.py).
THEOREM AgentWorkStaysTruthful == Spec => []AgentWorkTruthful
<1>1. Init => AgentInv BY AgentInit DEF Init
<1>2. AgentInv /\ [Next]_vars => AgentInv' BY AgentStep, AgentStutters DEF Next, vars
<1>3. AgentInv => AgentWorkTruthful
  BY AgentFacts DEF AgentWorkTruthful, Agt!EditApproved, Agt!WorkTruthful, AgentInv, EditFits,
     TaskFits, JobFits, JobSound, Stopped, Granted, Applied
<1>4. QED BY <1>1, <1>2, <1>3, PTL DEF Spec

----
(* The wiki (RepoWiki).                                                     *)

WikiTrees == [Paths -> Wik!Versions]
Pointers == [generation: Int, changes: Nat, stale: BOOLEAN]
Pages == [records: WikiTrees, head: WikiTrees, complete: BOOLEAN, asChecked: WikiTrees,
          marked: BOOLEAN]
Refreshes == [pc: {"idle", "capture", "scan", "compare", "check", "generate", "write", "replace"},
              force: BOOLEAN, before: Pointers, dirty: SUBSET Paths, head: WikiTrees,
              records: WikiTrees, marked: BOOLEAN, next: Pointers]
Markers == [pc: {"idle", "read", "write", "replace"}, next: Pointers]

Publishing == ref.pc \in {"generate", "write", "replace"}
Looking == ref.pc \in {"scan", "compare", "check"}
Marking == marker.pc \in {"write", "replace"}

\* A mark that may still be published.
Live == marker.pc = "write" \/ (marker.pc = "replace" /\ temp = marker.next)

\* A pointer leads to a page that is fresh if the pointer says so, and complete.
Honest(p) ==
    /\ p.generation \in 1..Len(generations)
    /\ ~p.stale => LET page == generations[p.generation] IN
                   page.records = page.asChecked /\ (crossed \/ ~page.marked)
Shown(p) == Honest(p) /\ generations[p.generation].complete

\* CURRENT, the shared file and what is about to be written there.
PointersFit ==
    /\ current = Wik!NoCurrent \/ Shown(current)
    /\ temp = Wik!Nothing \/ Shown(temp)
    /\ Marking => Shown(marker.next)
    /\ ref.pc \in {"write", "replace"} => Shown(ref.next)
    /\ ref.pc = "generate" => Honest(ref.next)
    /\ ref.before = Wik!NoCurrent \/ ref.before.generation \in 1..Len(generations)

\* The count of a mark that may be published exceeds what CURRENT shows, what a refresh
\* has captured and what it publishes; what was captured or is published is not ahead
\* of CURRENT, and behind it after a mark.
MarksCount ==
    /\ Live => marker.next.changes > current.changes
    /\ Publishing =>
          /\ current.changes >= ref.next.changes
          /\ current.generation < ref.next.generation
          /\ Marking => marker.next.generation < ref.next.generation
          /\ Live => marker.next.changes > ref.next.changes
    /\ Looking =>
          /\ current.changes >= ref.before.changes
          /\ ref.marked => current.changes > ref.before.changes
          /\ Live => marker.next.changes > ref.before.changes
    /\ ref.pc = "capture" => ~ref.marked
    /\ ref.pc = "replace" =>
          \/ temp \in {ref.next, Wik!Nothing}
          \/ marker.pc = "replace" /\ temp = marker.next

WikiInv ==
    /\ source \in WikiTrees /\ committed \in WikiTrees
    /\ current \in Pointers /\ temp \in Pointers /\ generations \in Seq(Pages)
    /\ lockfile \in BOOLEAN /\ crossed \in BOOLEAN /\ ref \in Refreshes /\ marker \in Markers
    /\ ref.pc # "idle" => lockfile
    /\ PointersFit
    /\ crossed \/ MarksCount

\* The initial values are of these types.
LEMMA WikiValues ==
    /\ Wik!NoCurrent \in Pointers /\ Wik!Nothing \in Pointers
    /\ Wik!NoRefresh \in Refreshes /\ Wik!NoRefresh.pc = "idle" /\ Wik!NoRefresh.before = Wik!NoCurrent
    /\ Wik!NoRefresh.marked = FALSE
    /\ Wik!NoMarker \in Markers /\ Wik!NoMarker.pc = "idle"
<1>1. Wik!NoCurrent \in Pointers /\ Wik!Nothing \in Pointers
  BY DEF Wik!NoCurrent, Wik!Nothing, Pointers
<1>2. [f \in Paths |-> "a"] \in WikiTrees BY DEF WikiTrees, Wik!Versions
<1>3. /\ Wik!NoRefresh \in Refreshes /\ Wik!NoRefresh.pc = "idle"
      /\ Wik!NoRefresh.before = Wik!NoCurrent /\ Wik!NoRefresh.marked = FALSE
  BY <1>1, <1>2 DEF Wik!NoRefresh, Refreshes
<1>4. Wik!NoMarker \in Markers /\ Wik!NoMarker.pc = "idle" BY <1>1 DEF Wik!NoMarker, Markers
<1>5. QED BY <1>1, <1>3, <1>4

\* Rewriting a file gives a tree again.
LEMMA FileRewritten ==
    ASSUME source \in WikiTrees, NEW f \in Paths, Wik!Rewrite(f)
    PROVE  source' \in WikiTrees
<1> DEFINE v == CHOOSE v \in Wik!Versions : v # source[f]
<1>1. v \in Wik!Versions
  <2>1. \E w \in Wik!Versions : w # source[f] BY DEF Wik!Versions
  <2>2. QED BY <2>1
<1>2. source' = [source EXCEPT ![f] = v] BY DEF Wik!Rewrite
<1> HIDE DEF v
<1>3. QED BY <1>1, <1>2 DEF WikiTrees

\* The source moves: by the user, or by a tool that goes on to mark the wiki.
LEMMA SourceMoves ==
    ASSUME WikiInv, Wik!UserEdits \/ Wik!UserCommits \/ Wik!ToolChanges
    PROVE  WikiInv'
<1>1. UNCHANGED <<current, temp, generations, lockfile, ref, crossed>>
  BY DEF Wik!UserEdits, Wik!UserCommits, Wik!ToolChanges
<1>2. source' \in WikiTrees /\ committed' \in WikiTrees
  BY FileRewritten DEF WikiInv, Wik!UserEdits, Wik!UserCommits, Wik!ToolChanges
<1>3. /\ marker' \in Markers
      /\ marker' = marker \/ (marker'.pc = "read" /\ marker.pc = "idle")
  BY DEF WikiInv, Markers, Wik!UserEdits, Wik!UserCommits, Wik!ToolChanges
<1>4. PointersFit' BY <1>1, <1>3 DEF WikiInv, PointersFit, Marking, Shown, Honest
<1>5. (crossed \/ MarksCount)'
  BY <1>1, <1>3 DEF WikiInv, MarksCount, Live, Marking, Publishing, Looking
<1>6. QED BY <1>1, <1>2, <1>3, <1>4, <1>5 DEF WikiInv

\* A mark is taken from CURRENT, one above its count.
LEMMA MarkTaken ==
    ASSUME WikiInv, Wik!MarkRead
    PROVE  WikiInv'
<1>1. /\ UNCHANGED <<source, committed, current, temp, generations, lockfile, ref, crossed>>
      /\ marker.pc = "read"
  BY DEF Wik!MarkRead
<1>2. CASE current = Wik!NoCurrent
  <2>1. marker' \in Markers /\ marker'.pc = "idle" BY <1>2, WikiValues DEF Wik!MarkRead
  <2>2. PointersFit' BY <1>1, <2>1 DEF WikiInv, PointersFit, Marking, Shown, Honest
  <2>3. (crossed \/ MarksCount)'
    BY <1>1, <2>1 DEF WikiInv, MarksCount, Live, Marking, Publishing, Looking
  <2>4. QED BY <1>1, <2>1, <2>2, <2>3 DEF WikiInv
<1>3. CASE current # Wik!NoCurrent
  <2> DEFINE m == [current EXCEPT !.changes = @ + 1]
             n == [m EXCEPT !.stale = TRUE]
  <2>1. /\ n \in Pointers /\ n.generation = current.generation
        /\ n.changes = current.changes + 1 /\ n.stale = TRUE
        /\ current.changes \in Nat
    <3>1. current \in Pointers /\ current.changes \in Nat BY DEF WikiInv, Pointers
    <3>2. /\ m \in Pointers /\ m.generation = current.generation
          /\ m.changes = current.changes + 1
      BY <3>1 DEF Pointers
    <3> HIDE DEF m
    <3>3. QED BY <3>1, <3>2 DEF Pointers
  <2>2. marker' = [pc |-> "write", next |-> n] BY <1>3 DEF Wik!MarkRead
  <2> HIDE DEF n
  <2>3. marker' \in Markers /\ marker'.pc = "write" /\ marker'.next = n BY <2>1, <2>2 DEF Markers
  <2>4. PointersFit' BY <1>1, <1>3, <2>1, <2>3 DEF WikiInv, PointersFit, Marking, Shown, Honest
  <2>5. (crossed \/ MarksCount)'
    <3>1. ref.next.changes \in Nat /\ ref.before.changes \in Nat BY DEF WikiInv, Refreshes, Pointers
    <3>2. QED BY <1>1, <2>1, <2>3, <3>1 DEF WikiInv, MarksCount, Live, Marking, Publishing, Looking
  <2>6. QED BY <1>1, <2>3, <2>4, <2>5 DEF WikiInv
<1>4. QED BY <1>2, <1>3

\* The mark is in the shared file.
LEMMA MarkWritten ==
    ASSUME WikiInv, Wik!MarkWrites
    PROVE  WikiInv'
<1>1. /\ UNCHANGED <<source, committed, current, generations, lockfile, ref, crossed>>
      /\ marker.pc = "write" /\ temp' = marker.next
  BY DEF Wik!MarkWrites
<1>2. /\ marker' \in Markers /\ marker'.pc = "replace" /\ marker'.next = marker.next
      /\ marker.next \in Pointers
  BY DEF WikiInv, Markers, Wik!MarkWrites
<1>3. PointersFit' BY <1>1, <1>2 DEF WikiInv, PointersFit, Marking, Shown, Honest
<1>4. (crossed \/ MarksCount)'
  BY <1>1, <1>2 DEF WikiInv, MarksCount, Live, Marking, Publishing, Looking
<1>5. QED BY <1>1, <1>2, <1>3, <1>4 DEF WikiInv

\* The marker publishes what the shared file holds: its own mark, or another's file.
LEMMA MarkReplaced ==
    ASSUME WikiInv, Wik!MarkReplaces
    PROVE  WikiInv'
<1>1. /\ UNCHANGED <<source, committed, generations, lockfile>>
      /\ marker.pc = "replace" /\ temp' = Wik!Nothing /\ marker' = Wik!NoMarker
      /\ current' = IF temp = Wik!Nothing THEN current ELSE temp
      /\ crossed' = (crossed \/ temp \notin {Wik!Nothing, marker.next})
  BY DEF Wik!MarkReplaces, Wik!Replaced
<1>2. /\ marker' \in Markers /\ marker'.pc = "idle" /\ temp' \in Pointers
      /\ current' \in Pointers /\ crossed' \in BOOLEAN /\ crossed => crossed'
  BY <1>1, WikiValues DEF WikiInv
<1>3. /\ ref' \in Refreshes /\ ref'.pc = ref.pc /\ ref'.before = ref.before /\ ref'.next = ref.next
      /\ ref' # ref => temp = marker.next /\ Looking
  BY DEF Wik!MarkReplaces, WikiInv, Refreshes, Looking
<1>4. PointersFit' BY <1>1, <1>2, <1>3 DEF WikiInv, PointersFit, Marking, Shown, Honest
<1>5. (crossed \/ MarksCount)'
  <2>1. CASE temp \notin {Wik!Nothing, marker.next} BY <1>1, <2>1
  <2>2. CASE temp = Wik!Nothing
    <3>1. current' = current BY <1>1, <2>2
    <3>2. ~Shown(temp) BY <2>2 DEF Shown, Honest, Wik!Nothing
    <3>3. temp # marker.next BY <1>1, <2>2, <3>2 DEF WikiInv, PointersFit, Marking
    <3>4. ref' = ref BY <1>3, <3>3
    <3>5. QED BY <1>1, <1>2, <3>1, <3>4 DEF WikiInv, MarksCount, Live, Marking, Publishing, Looking
  <2>3. CASE temp = marker.next /\ temp # Wik!Nothing
    <3>1. current' = marker.next /\ Live BY <1>1, <2>3 DEF Live
    <3>2. /\ marker.next.changes \in Nat /\ current.changes \in Nat
          /\ ref.before.changes \in Nat /\ ref.next.changes \in Nat
      BY DEF WikiInv, Markers, Refreshes, Pointers
    <3>3. QED
      BY <1>1, <1>2, <1>3, <3>1, <3>2 DEF WikiInv, MarksCount, Live, Marking, Publishing, Looking
  <2>4. QED BY <2>1, <2>2, <2>3
<1>6. QED BY <1>1, <1>2, <1>3, <1>4, <1>5 DEF WikiInv

\* A refresh starts.
LEMMA RefreshStarts ==
    ASSUME WikiInv, Wik!StartRefresh
    PROVE  WikiInv'
<1>1. /\ UNCHANGED <<source, committed, current, temp, generations, marker, crossed>>
      /\ ref.pc = "idle" /\ lockfile' = TRUE
  BY DEF Wik!StartRefresh, Wik!Refreshing
<1>2. PICK u \in BOOLEAN : ref' = [Wik!NoRefresh EXCEPT !.pc = "capture", !.force = u]
  BY DEF Wik!StartRefresh
<1> DEFINE r == [Wik!NoRefresh EXCEPT !.pc = "capture"]
<1>3. r \in Refreshes /\ r.pc = "capture" /\ r.before = Wik!NoCurrent /\ r.marked = FALSE
  BY WikiValues DEF Refreshes
<1>4. ref' = [r EXCEPT !.force = u] BY <1>2
<1> HIDE DEF r
<1>5. /\ ref' \in Refreshes /\ ref'.pc = "capture" /\ ref'.before = Wik!NoCurrent
      /\ ref'.marked = FALSE
  BY <1>3, <1>4 DEF Refreshes
<1>6. PointersFit' BY <1>1, <1>5 DEF WikiInv, PointersFit, Marking, Shown, Honest
<1>7. (crossed \/ MarksCount)'
  BY <1>1, <1>5 DEF WikiInv, MarksCount, Live, Marking, Publishing, Looking
<1>8. QED BY <1>1, <1>5, <1>6, <1>7 DEF WikiInv

\* It captures CURRENT, what is dirty, and the head.
LEMMA RefreshCaptures ==
    ASSUME WikiInv, Wik!Capture
    PROVE  WikiInv'
<1> DEFINE r == [ref EXCEPT !.pc = "scan"]
           s == [r EXCEPT !.before = current]
           t == [s EXCEPT !.dirty = Wik!Dirty]
<1>1. /\ UNCHANGED <<source, committed, current, temp, generations, lockfile, marker, crossed>>
      /\ ref.pc = "capture" /\ ref' = [t EXCEPT !.head = committed]
  BY DEF Wik!Capture, Wik!Refreshing
<1>2. r \in Refreshes /\ r.pc = "scan" BY DEF WikiInv, Refreshes
<1>3. current \in Pointers /\ committed \in WikiTrees /\ Wik!Dirty \in SUBSET Paths
  BY DEF WikiInv, Wik!Dirty
<1> HIDE DEF r
<1>4. s \in Refreshes /\ s.pc = "scan" /\ s.before = current BY <1>2, <1>3 DEF Refreshes
<1> HIDE DEF s
<1>5. t \in Refreshes /\ t.pc = "scan" /\ t.before = current BY <1>3, <1>4 DEF Refreshes
<1> HIDE DEF t
<1>6. ref' \in Refreshes /\ ref'.pc = "scan" /\ ref'.before = current
  BY <1>1, <1>3, <1>5 DEF Refreshes
<1>7. ref.pc # "idle" /\ ref'.marked = ref.marked BY <1>1, <1>2 DEF WikiInv, Refreshes, r, s, t
<1>8. PointersFit' BY <1>1, <1>6 DEF WikiInv, PointersFit, Marking, Shown, Honest
<1>9. (crossed \/ MarksCount)'
  <2>1. current.changes \in Nat BY <1>3 DEF Pointers
  <2>2. QED BY <1>1, <1>6, <1>7, <2>1 DEF WikiInv, MarksCount, Live, Marking, Publishing, Looking
<1>10. QED BY <1>1, <1>6, <1>7, <1>8, <1>9 DEF WikiInv

\* It reads the source again, or keeps what the previous page recorded.
LEMMA SourceScanned ==
    ASSUME WikiInv, Wik!ScanSourceFiles
    PROVE  WikiInv'
<1> DEFINE r == [ref EXCEPT !.pc = "compare"]
           w == [f \in Paths |-> IF Wik!Incremental /\ f \notin Wik!ChangedPaths
                                 THEN Wik!Previous.records[f] ELSE source[f]]
<1>1. /\ UNCHANGED <<source, committed, current, temp, generations, lockfile, marker, crossed>>
      /\ ref.pc = "scan" /\ ref' = [r EXCEPT !.records = w]
  BY DEF Wik!ScanSourceFiles, Wik!Refreshing
<1>2. /\ r \in Refreshes /\ r.pc = "compare" /\ r.before = ref.before /\ r.marked = ref.marked
  BY DEF WikiInv, Refreshes
<1>3. w \in WikiTrees
  <2>1. CASE Wik!Incremental
    <3>1. Wik!Previous \in Pages BY <2>1 DEF WikiInv, PointersFit, Wik!Incremental, Wik!Previous
    <3>2. Wik!Previous.records \in WikiTrees /\ source \in WikiTrees BY <3>1 DEF WikiInv, Pages
    <3>3. QED BY <3>2 DEF WikiTrees
  <2>2. CASE ~Wik!Incremental BY <2>2 DEF WikiInv, WikiTrees
  <2>3. QED BY <2>1, <2>2
<1> HIDE DEF r, w
<1>4. ref' \in Refreshes /\ ref'.pc = "compare" /\ ref'.before = ref.before /\ ref'.marked = ref.marked
  BY <1>1, <1>2, <1>3 DEF Refreshes
<1>5. PointersFit' BY <1>1, <1>4 DEF WikiInv, PointersFit, Marking, Shown, Honest
<1>6. (crossed \/ MarksCount)'
  BY <1>1, <1>4 DEF WikiInv, MarksCount, Live, Marking, Publishing, Looking
<1>7. QED BY <1>1, <1>4, <1>5, <1>6 DEF WikiInv

\* A refresh ends, with or without its lock, and leaves the pointers alone.
LEMMA RefreshOver ==
    ASSUME WikiInv, ref' = Wik!NoRefresh, lockfile' \in BOOLEAN,
           marker' \in Markers, marker' = marker \/ marker'.pc = "idle",
           UNCHANGED <<source, committed, current, temp, generations, crossed>>
    PROVE  WikiInv'
<1>1. ref' \in Refreshes /\ ref'.pc = "idle" /\ ref'.before = Wik!NoCurrent BY WikiValues
<1>2. PointersFit' BY <1>1 DEF WikiInv, PointersFit, Marking, Shown, Honest
<1>3. (crossed \/ MarksCount)' BY <1>1 DEF WikiInv, MarksCount, Live, Marking, Publishing, Looking
<1>4. QED BY <1>1, <1>2, <1>3 DEF WikiInv

\* Nothing to index ends the refresh; otherwise it goes on to its last check.
LEMMA SourceCompared ==
    ASSUME WikiInv, Wik!Compare
    PROVE  WikiInv'
<1>1. /\ UNCHANGED <<source, committed, current, temp, generations, marker, crossed>>
      /\ ref.pc = "compare"
  BY DEF Wik!Compare, Wik!Refreshing
<1>2. CASE Wik!Unchanged BY <1>1, <1>2, RefreshOver DEF Wik!Compare, Wik!EndRefresh, WikiInv
<1>3. CASE ~Wik!Unchanged
  <2>1. ref' = [ref EXCEPT !.pc = "check"] /\ lockfile' = lockfile BY <1>3 DEF Wik!Compare
  <2>2. ref' \in Refreshes /\ ref'.pc = "check" /\ ref'.before = ref.before /\ ref'.marked = ref.marked
    BY <2>1 DEF WikiInv, Refreshes
  <2>3. PointersFit' BY <1>1, <2>2 DEF WikiInv, PointersFit, Marking, Shown, Honest
  <2>4. (crossed \/ MarksCount)'
    BY <1>1, <2>2 DEF WikiInv, MarksCount, Live, Marking, Publishing, Looking
  <2>5. QED BY <1>1, <2>1, <2>2, <2>3, <2>4 DEF WikiInv
<1>4. QED BY <1>2, <1>3

\* An exception or a death ends the refresh.
LEMMA RefreshBreaks ==
    ASSUME WikiInv, Wik!RefreshFails \/ Wik!Death
    PROVE  WikiInv'
BY RefreshOver, WikiValues DEF Wik!RefreshFails, Wik!Death, Wik!EndRefresh, WikiInv

\* The last check appends a generation that is fresh when the check found it so.
LEMMA FreshnessChecked ==
    ASSUME WikiInv, Wik!FreshnessState
    PROVE  WikiInv'
<1> DEFINE c == IF current.changes > ref.before.changes THEN current.changes ELSE ref.before.changes
           z == current.changes # ref.before.changes \/ ~Wik!SourceSnapshotIsCurrent
           n == [generation |-> Len(generations) + 1, changes |-> c, stale |-> z]
           g == [records |-> ref.records, head |-> ref.head, complete |-> FALSE,
                 asChecked |-> source, marked |-> ref.marked]
           r == [ref EXCEPT !.pc = "generate"]
<1>1. /\ UNCHANGED <<source, committed, current, temp, lockfile, marker, crossed>>
      /\ ref.pc = "check"
      /\ ref' = [r EXCEPT !.next = n]
      /\ generations' = Append(generations, g)
  BY DEF Wik!FreshnessState, Wik!Refreshing
<1>2. /\ generations \in Seq(Pages) /\ Len(generations) \in Nat
      /\ ref \in Refreshes /\ source \in WikiTrees
      /\ current.changes \in Nat /\ ref.before.changes \in Nat /\ current.generation \in Int
  BY DEF WikiInv, Refreshes, Pointers
<1>3. g \in Pages /\ g.records = ref.records /\ g.asChecked = source /\ g.marked = ref.marked
  BY <1>2 DEF Refreshes, Pages
<1>4. /\ n \in Pointers /\ n.generation = Len(generations) + 1
      /\ crossed \/ n.changes = current.changes
      /\ ~n.stale => ref.records = source /\ current.changes = ref.before.changes
  <2>1. c \in Nat BY <1>2
  <2>2. z \in BOOLEAN /\ (~z => ref.records = source /\ current.changes = ref.before.changes)
    BY DEF Wik!SourceSnapshotIsCurrent
  <2>3. crossed \/ c = current.changes BY <1>1, <1>2 DEF WikiInv, MarksCount, Looking
  <2> HIDE DEF c, z
  <2>4. QED BY <1>2, <2>1, <2>2, <2>3 DEF Pointers
<1>5. /\ r \in Refreshes /\ r.pc = "generate" /\ r.before = ref.before BY <1>2 DEF Refreshes
<1> HIDE DEF r, n, g, c, z
<1>6. /\ ref' \in Refreshes /\ ref'.pc = "generate" /\ ref'.before = ref.before /\ ref'.next = n
  BY <1>1, <1>4, <1>5 DEF Refreshes
<1>7. /\ generations' \in Seq(Pages) /\ Len(generations') = Len(generations) + 1
      /\ \A i \in 1..Len(generations) : generations'[i] = generations[i]
      /\ generations'[Len(generations) + 1] = g
  BY <1>1, <1>2, <1>3
<1>8. crossed \/ (ref.marked => current.changes > ref.before.changes)
  BY <1>1 DEF WikiInv, MarksCount, Looking
<1>9. PointersFit'
  <2>1. Honest(ref.next)' BY <1>1, <1>2, <1>3, <1>4, <1>6, <1>7, <1>8 DEF Honest
  <2>2. \A p \in Pointers : Shown(p) =>
           /\ p.generation \in 1..Len(generations')
           /\ generations'[p.generation] = generations[p.generation]
    BY <1>2, <1>7 DEF Shown, Honest
  <2>3. current \in Pointers /\ temp \in Pointers /\ marker.next \in Pointers
    BY DEF WikiInv, Markers
  <2>4. (current = Wik!NoCurrent \/ Shown(current))' /\ (temp = Wik!Nothing \/ Shown(temp))'
    BY <1>1, <2>2, <2>3 DEF WikiInv, PointersFit, Shown, Honest
  <2>5. (Marking => Shown(marker.next))'
    BY <1>1, <2>2, <2>3 DEF WikiInv, PointersFit, Marking, Shown, Honest
  <2>6. (ref.before = Wik!NoCurrent \/ ref.before.generation \in 1..Len(generations))'
    BY <1>2, <1>6, <1>7 DEF WikiInv, PointersFit
  <2>7. QED BY <1>6, <2>1, <2>4, <2>5, <2>6 DEF PointersFit
<1>10. (crossed \/ MarksCount)'
  <2>1. current = Wik!NoCurrent \/ current.generation \in 1..Len(generations)
    BY DEF WikiInv, PointersFit, Shown, Honest
  <2>2. current.generation < Len(generations) + 1 BY <1>2, <2>1 DEF Wik!NoCurrent
  <2>3. Marking => marker.next.generation < Len(generations) + 1
    BY <1>2 DEF WikiInv, PointersFit, Shown, Honest
  <2>4. crossed \/ (Live => marker.next.changes > current.changes) BY DEF WikiInv, MarksCount
  <2>5. QED
    BY <1>1, <1>2, <1>4, <1>6, <2>2, <2>3, <2>4 DEF MarksCount, Live, Marking, Publishing, Looking
<1>11. QED BY <1>1, <1>6, <1>7, <1>9, <1>10 DEF WikiInv

\* The pages of the generation are on disk, and verified.
LEMMA GenerationWritten ==
    ASSUME WikiInv, Wik!WriteGeneration
    PROVE  WikiInv'
<1> DEFINE i == ref.next.generation
           g == [generations[i] EXCEPT !.complete = TRUE]
<1>1. /\ UNCHANGED <<source, committed, current, temp, lockfile, marker, crossed>>
      /\ ref.pc = "generate" /\ ref' = [ref EXCEPT !.pc = "write"]
      /\ generations' = [generations EXCEPT ![i] = g]
  BY DEF Wik!WriteGeneration, Wik!Refreshing, Wik!Verified
<1>2. i \in 1..Len(generations) /\ generations \in Seq(Pages) /\ generations[i] \in Pages
  BY <1>1 DEF WikiInv, PointersFit, Honest
<1>3. /\ g \in Pages /\ g.complete = TRUE /\ g.records = generations[i].records
      /\ g.asChecked = generations[i].asChecked /\ g.marked = generations[i].marked
  BY <1>2 DEF Pages
<1>4. /\ ref' \in Refreshes /\ ref'.pc = "write" /\ ref'.before = ref.before /\ ref'.next = ref.next
  BY <1>1 DEF WikiInv, Refreshes
<1> HIDE DEF i, g
<1>5. /\ generations' \in Seq(Pages) /\ Len(generations') = Len(generations)
      /\ \A j \in 1..Len(generations) : generations'[j] = IF j = i THEN g ELSE generations[j]
  BY <1>1, <1>2, <1>3
<1>6. \A j \in 1..Len(generations) :
         /\ generations'[j].records = generations[j].records
         /\ generations'[j].asChecked = generations[j].asChecked
         /\ generations'[j].marked = generations[j].marked
         /\ generations[j].complete => generations'[j].complete
  BY <1>3, <1>5
<1>7. PointersFit'
  <2>1. (current = Wik!NoCurrent \/ Shown(current))' /\ (temp = Wik!Nothing \/ Shown(temp))'
    BY <1>1, <1>5, <1>6 DEF WikiInv, PointersFit, Shown, Honest
  <2>2. (Marking => Shown(marker.next))'
    BY <1>1, <1>5, <1>6 DEF WikiInv, PointersFit, Marking, Shown, Honest
  <2>3. Shown(ref.next)'
    <3>1. generations'[ref.next.generation].complete BY <1>2, <1>3, <1>5 DEF i
    <3>2. QED BY <1>1, <1>4, <1>5, <1>6, <3>1 DEF WikiInv, PointersFit, Shown, Honest
  <2>4. (ref.before = Wik!NoCurrent \/ ref.before.generation \in 1..Len(generations))'
    BY <1>4, <1>5 DEF WikiInv, PointersFit
  <2>5. QED BY <1>4, <2>1, <2>2, <2>3, <2>4 DEF PointersFit
<1>8. (crossed \/ MarksCount)'
  BY <1>1, <1>4 DEF WikiInv, MarksCount, Live, Marking, Publishing, Looking
<1>9. QED BY <1>1, <1>4, <1>5, <1>7, <1>8 DEF WikiInv

\* The refresh puts its CURRENT into the shared file: a mark there is lost.
LEMMA RefreshWritten ==
    ASSUME WikiInv, Wik!RefreshWrites
    PROVE  WikiInv'
<1>1. /\ UNCHANGED <<source, committed, current, generations, lockfile, marker, crossed>>
      /\ ref.pc = "write" /\ temp' = ref.next
  BY DEF Wik!RefreshWrites, Wik!Refreshing
<1>2. /\ ref' \in Refreshes /\ ref'.pc = "replace" /\ ref'.before = ref.before /\ ref'.next = ref.next
      /\ ref.next \in Pointers
  BY DEF Wik!RefreshWrites, WikiInv, Refreshes
<1>3. PointersFit' BY <1>1, <1>2 DEF WikiInv, PointersFit, Marking, Shown, Honest
<1>4. (crossed \/ MarksCount)'
  <2>1. CASE crossed BY <1>1, <2>1
  <2>2. CASE MarksCount
    <3>1. Marking => marker.next # ref.next
      <4>1. ref.next.generation \in Int BY <1>2 DEF Pointers
      <4>2. QED BY <1>1, <2>2, <4>1 DEF MarksCount, Publishing
    <3>2. Live' => Live BY <1>1, <3>1 DEF Live, Marking
    <3>3. QED BY <1>1, <1>2, <2>2, <3>2 DEF MarksCount, Marking, Publishing, Looking
  <2>3. QED BY <2>1, <2>2 DEF WikiInv
<1>5. QED BY <1>1, <1>2, <1>3, <1>4 DEF WikiInv

\* The refresh publishes what the shared file holds: its own CURRENT, or a mark.
LEMMA RefreshPublished ==
    ASSUME WikiInv, Wik!PublishCurrent
    PROVE  WikiInv'
<1>1. /\ UNCHANGED <<source, committed, generations, marker, crossed>>
      /\ ref.pc = "replace" /\ temp' = Wik!Nothing /\ ref' = Wik!NoRefresh /\ lockfile' = FALSE
      /\ current' = IF temp = Wik!Nothing THEN current ELSE temp
  BY DEF Wik!PublishCurrent, Wik!Refreshing, Wik!Replaced, Wik!EndRefresh
<1>2. /\ ref' \in Refreshes /\ ref'.pc = "idle" /\ ref'.before = Wik!NoCurrent
      /\ temp' \in Pointers /\ current' \in Pointers
  BY <1>1, WikiValues DEF WikiInv
<1>3. PointersFit' BY <1>1, <1>2 DEF WikiInv, PointersFit, Marking, Shown, Honest
<1>4. (crossed \/ MarksCount)'
  <2>1. CASE crossed BY <1>1, <2>1
  <2>2. CASE MarksCount
    <3>1. CASE marker.pc = "write"
      <4>1. current' = current \/ current' = ref.next BY <1>1, <2>2, <3>1 DEF MarksCount, Live
      <4>2. QED BY <1>1, <1>2, <2>2, <3>1, <4>1 DEF MarksCount, Live, Publishing, Looking
    <3>2. CASE marker.pc # "write"
      <4>1. ~Live'
        <5>1. ~Shown(Wik!Nothing) BY DEF Shown, Honest, Wik!Nothing
        <5>2. QED BY <1>1, <3>2, <5>1 DEF WikiInv, PointersFit, Marking, Live
      <4>2. QED BY <1>2, <4>1 DEF MarksCount, Publishing, Looking
    <3>3. QED BY <3>1, <3>2
  <2>3. QED BY <2>1, <2>2 DEF WikiInv
<1>5. QED BY <1>1, <1>2, <1>3, <1>4 DEF WikiInv

\* Every step of the wiki keeps the invariant.
LEMMA WikiStep ==
    ASSUME WikiInv, Wik!Next
    PROVE  WikiInv'
BY SourceMoves, MarkTaken, MarkWritten, MarkReplaced, RefreshStarts, RefreshCaptures, SourceScanned,
   SourceCompared, FreshnessChecked, GenerationWritten, RefreshWritten, RefreshPublished,
   RefreshBreaks DEF Wik!Next

\* No generation has been written yet.
LEMMA WikiInit ==
    ASSUME Wik!Init
    PROVE  WikiInv
<1>1. source \in WikiTrees /\ committed \in WikiTrees BY DEF Wik!Init, WikiTrees, Wik!Versions
<1>2. /\ current = Wik!NoCurrent /\ temp = Wik!Nothing /\ generations = <<>>
      /\ lockfile = FALSE /\ crossed = FALSE /\ ref = Wik!NoRefresh /\ marker = Wik!NoMarker
  BY DEF Wik!Init
<1>3. generations \in Seq(Pages) BY <1>2
<1>4. PointersFit BY <1>2, WikiValues DEF PointersFit, Marking
<1>5. MarksCount BY <1>2, WikiValues DEF MarksCount, Live, Publishing, Looking
<1>6. QED BY <1>1, <1>2, <1>3, <1>4, <1>5, WikiValues DEF WikiInv

\* A step that leaves the wiki alone.
LEMMA WikiStutters ==
    ASSUME WikiInv, UNCHANGED wikiState
    PROVE  WikiInv'
<1>1. UNCHANGED <<source, committed, current, temp, generations, lockfile, ref, marker, crossed>>
  BY DEF wikiState
<1>2. PointersFit' BY <1>1 DEF WikiInv, PointersFit, Marking, Shown, Honest
<1>3. (crossed \/ MarksCount)' BY <1>1 DEF WikiInv, MarksCount, Live, Marking, Publishing, Looking
<1>4. QED BY <1>1, <1>2, <1>3 DEF WikiInv

\* CURRENT always leads to a complete generation; what is served as fresh holds the
\* source as it was at its last check, with no mark published since its capture
\* (repo_wiki.py:192-465, 698-814).
THEOREM WikiPagesStayTruthful == Spec => []WikiPagesTruthful
<1>1. Init => WikiInv BY WikiInit DEF Init
<1>2. WikiInv /\ [Next]_vars => WikiInv' BY WikiStep, WikiStutters DEF Next, vars
<1>3. WikiInv => WikiPagesTruthful
  <2> SUFFICES ASSUME WikiInv
               PROVE  Wik!PagesTruthful
    BY DEF WikiPagesTruthful
  <2>1. Wik!TypeOK
    <3>1. current.generation \in 0..Len(generations)
      BY DEF WikiInv, PointersFit, Shown, Honest, Wik!NoCurrent
    <3>2. temp.generation \in -1..Len(generations)
      BY DEF WikiInv, PointersFit, Shown, Honest, Wik!Nothing
    <3>3. QED BY <3>1, <3>2 DEF Wik!TypeOK, WikiInv, WikiTrees
  <2>2. current # Wik!NoCurrent => Shown(current) BY DEF WikiInv, PointersFit
  <2>3. QED
    BY <2>1, <2>2 DEF Wik!PagesTruthful, Wik!ReadPage, Wik!ResolveCurrentSnapshot, Shown, Honest
<1>4. QED BY <1>1, <1>2, <1>3, PTL DEF Spec

----
(* Queries (RunQueries).                                                    *)

Sources == {"none"} \union Qry!Results
Projections == [source: Sources, ok: BOOLEAN,
                outcome: {"none", "success", "validation_failure", "unknown_failure", "pending"}]
RunStates == {"running"} \union Qry!Terminal
Rows == [key: 1..MaxRuns, status: RunStates, phase: Nat, version: Nat, result: Sources,
         projection: Projections]
Copies == [version: Int, status: RunStates \union {"none"}, phase: Nat]
ReaderPcs == {"rest", "listed", "events", "chunks", "whole", "observe", "polled", "unchanged",
              "source", "record", "retry", "told"}
ReaderRecs == [pc: ReaderPcs, filter: {"any", "running"}, watermark: Nat, got: Seq(Nat),
               more: BOOLEAN, after: Nat, start: Nat, parts: Seq(RunStates), total: Nat,
               copy: Copies, version: Int, told: Projections]
Snapshots == [payload: RunStates \union {"none"}, total: Nat]

\* A row's result is the one its status stands for, and a stored projection is of it.
RowFits(x) ==
    /\ x.status = "running" <=> x.result = "none"
    /\ x.result # "none" => x.status = Qry!StatusOf(x.result)
    /\ x.projection # Qry!NoProjection => x.result # "none" /\ x.projection \in Qry!ProjectionPayload(x.result)

\* The page that got these keys continues below key: of the matching rows up to the
\* watermark the keys are in the page or lower, and the page has no other.
PageFits(rs, watermark, filter, key, got) ==
    /\ watermark \in 0..Len(rs)
    /\ \A m, n \in 1..Len(got) : m < n => got[m] > got[n]
    /\ \A m \in 1..Len(got) : got[m] >= key /\ \E i \in 1..watermark : rs[i].key = got[m]
    /\ \A i \in 1..watermark : Qry!Matches(rs[i], filter) =>
          rs[i].key < key \/ \E m \in 1..Len(got) : got[m] = rs[i].key

ListFits(c, rs) ==
    c.pc = "listed" => \E key \in Nat :
       /\ PageFits(rs, c.watermark, c.filter, key, c.got)
       /\ IF c.more THEN key = c.after ELSE key = 0

\* The events received follow each other up to the cursor.
EventsFit(c, n) ==
    c.pc = "events" =>
       /\ Len(c.got) > 0 /\ c.after = c.start + Len(c.got) /\ c.after <= n
       /\ \A m \in 1..Len(c.got) : c.got[m] = c.start + m

\* The chunks received are of one payload, which the snapshot still holds, if it exists.
ChunksFit(c, s) ==
    /\ c.pc \in {"chunks", "whole"} =>
          /\ Len(c.parts) > 0
          /\ \A m \in 1..Len(c.parts) : c.parts[m] = c.parts[1]
    /\ c.pc = "whole" => Len(c.parts) = c.total
    /\ c.pc = "chunks" =>
          /\ Len(c.parts) < c.total
          /\ s = Qry!NoSnapshot \/ s.payload = c.parts[1]

\* A copy of the current version is the row; an answer is of the row's result.
Answers(p, x) ==
    /\ p.source \in {"none", x.result}
    /\ p.ok => x.result = "success"
    /\ p.outcome = "validation_failure" => x.result = "unsuccessful"
AnswerFits(c, x) ==
    /\ c.copy.version <= x.version
    /\ c.copy.version = x.version => c.copy.status = x.status /\ c.copy.phase = x.phase
    /\ c.pc = "source" => x.status \in Qry!Terminal
    /\ c.pc \in {"record", "retry"} =>
          x.status \in Qry!Terminal /\ c.told \in Qry!ProjectionPayload(x.result)
    /\ c.pc = "told" => Answers(c.told, x)

QueryTypes ==
    /\ runs \in Seq(Rows) /\ Len(runs) \in 2..MaxRuns /\ log \in 1..MaxLog
    /\ snapshots \in [Callers -> Snapshots] /\ reader \in [Callers -> ReaderRecs]
    /\ asks \in 0..MaxAsks

QueryInv ==
    /\ QueryTypes
    /\ \A i \in 1..Len(runs) : RowFits(runs[i])
    /\ \A c \in Callers : /\ ListFits(reader[c], runs) /\ EventsFit(reader[c], log)
                          /\ ChunksFit(reader[c], snapshots[c]) /\ AnswerFits(reader[c], runs[1])

\* The model's cardinality is that of the theorems about it.
LEMMA CardinalityIs == \A S : Qry!Cardinality(S) = Cardinality(S)
BY DEF Qry!Cardinality, Cardinality

\* The rank of a key in a set of keys counted from its greatest.
Rank(K, k) == Cardinality({j \in K : j >= k})

\* Ranks number the keys of a finite set downwards, from 1.
LEMMA Ranks ==
    ASSUME NEW K \in SUBSET Nat, IsFiniteSet(K)
    PROVE  /\ Cardinality(K) \in Nat
           /\ \A k \in K : Rank(K, k) \in 1..Cardinality(K)
           /\ \A k, l \in K : k < l => Rank(K, l) < Rank(K, k)
           /\ \A m \in 1..Cardinality(K) : \E k \in K : Rank(K, k) = m
<1> DEFINE Up(k) == {j \in K : j >= k}
<1>1. Cardinality(K) \in Nat BY FS_CardinalityType
<1>2. \A k \in K : IsFiniteSet(Up(k)) /\ Cardinality(Up(k)) <= Cardinality(K) /\ Cardinality(Up(k)) \in Nat
  BY FS_Subset, FS_CardinalityType
<1>3. \A k \in K : Cardinality(Up(k)) # 0
  <2> SUFFICES ASSUME NEW k \in K, Cardinality(Up(k)) = 0
               PROVE  FALSE
    OBVIOUS
  <2>1. Up(k) = {} BY <1>2, FS_EmptySet
  <2>2. k \in Up(k)
    OBVIOUS
  <2>3. QED BY <2>1, <2>2
<1>4. \A k \in K : Rank(K, k) \in 1..Cardinality(K) BY <1>1, <1>2, <1>3 DEF Rank
<1>5. \A k, l \in K : k < l => Rank(K, l) < Rank(K, k)
  <2> SUFFICES ASSUME NEW k \in K, NEW l \in K, k < l
               PROVE  Cardinality(Up(l)) < Cardinality(Up(k))
    BY DEF Rank
  <2>0. \A j \in K : j \in Nat
    OBVIOUS
  <2>1. Up(l) \in SUBSET Up(k) /\ k \in Up(k) /\ k \notin Up(l)
    <3>1. k \in Nat /\ l \in Nat BY <2>0
    <3>2. \A j \in K : j >= l => j >= k BY <2>0, <3>1
    <3>3. \A j \in Up(l) : j \in Up(k) BY <3>2
    <3>4. k \in Up(k) /\ k \notin Up(l) BY <3>1
    <3> HIDE DEF Up
    <3>5. QED BY <3>3, <3>4
  <2>2. Cardinality(Up(l)) <= Cardinality(Up(k)) /\ Cardinality(Up(l)) # Cardinality(Up(k))
    <3> HIDE DEF Up
    <3>1. QED BY <1>2, <2>1, FS_Subset
  <2>3. QED BY <1>2, <2>2
<1>6. \A m \in 1..Cardinality(K) : \E k \in K : Rank(K, k) = m
  <2> DEFINE g == [k \in K |-> Rank(K, k)]
             T == 1..Cardinality(K)
  <2>1. g \in [K -> T] BY <1>4
  <2>2. \A k, l \in K : g[k] = g[l] => k = l
    <3>1. \A k, l \in K : k < l \/ l < k \/ k = l
      OBVIOUS
    <3>2. \A k \in K : g[k] = Rank(K, k) /\ Rank(K, k) \in Nat BY <1>4
    <3> HIDE DEF g
    <3>3. QED BY <1>5, <3>1, <3>2
  <2>3. IsFiniteSet(T) /\ Cardinality(T) = Cardinality(K) BY <1>1, FS_Interval
  <2> HIDE DEF T, g
  <2>4. g \in Injection(K, T) BY <2>1, <2>2 DEF Injection, IsInjective
  <2>5. g \in Surjection(K, T) BY <2>3, <2>4, FS_Injection
  <2>6. QED BY <2>5 DEF Surjection, g, T
<1>7. QED BY <1>1, <1>4, <1>5, <1>6

\* The keys of a set of rows.
KeysOf(R) == {runs[i].key : i \in R}

\* The keys of a set of rows are finitely many, and no more than the rows.
LEMMA KeysOfRows ==
    ASSUME QueryTypes, NEW R \in SUBSET (1..Len(runs))
    PROVE  /\ KeysOf(R) \in SUBSET Nat /\ IsFiniteSet(KeysOf(R))
           /\ Cardinality(KeysOf(R)) \in Nat /\ Cardinality(R) \in Nat
           /\ Cardinality(KeysOf(R)) <= Cardinality(R)
           /\ R # {} => Cardinality(KeysOf(R)) # 0
<1> DEFINE K == {runs[i].key : i \in R}
           g == [i \in R |-> runs[i].key]
<1>1. IsFiniteSet(R)
  <2>1. IsFiniteSet(1..Len(runs)) BY FS_Interval DEF QueryTypes
  <2>2. QED BY <2>1, FS_Subset
<1>2. K \in SUBSET Nat
  <2>1. \A i \in R : runs[i] \in Rows BY DEF QueryTypes
  <2>2. QED BY <2>1, ServiceConstants DEF Rows, Qry!QueryConstants
<1>3. g \in Surjection(R, K) BY DEF Surjection
<1>4. IsFiniteSet(K) /\ Cardinality(K) <= Cardinality(R) BY <1>1, <1>3, FS_Surjection
<1>5. R # {} => Cardinality(K) # 0
  <2>1. R # {} => K # {}
    OBVIOUS
  <2>2. QED BY <1>4, <2>1, FS_EmptySet
<1>6. QED BY <1>1, <1>2, <1>4, <1>5, FS_CardinalityType DEF KeysOf

\* The newest of some rows: the greatest keys in descending order, as many as the limit
\* lets in.
PageOf(page, R) ==
    /\ page \in Seq(Nat) /\ (page = <<>> <=> Len(page) = 0)
    /\ Len(page) = 0 => R = {}
    /\ \A m \in 1..Len(page) : page[m] \in KeysOf(R)
    /\ \A m, n \in 1..Len(page) : m < n => page[m] > page[n]
    /\ \A n \in 1..Len(page) : \A k \in KeysOf(R) : k < page[n] \/ \E m \in 1..n : page[m] = k
    /\ Cardinality(R) <= Len(page) => \A k \in KeysOf(R) : \E m \in 1..Len(page) : page[m] = k

\* The newest rows are such a page.
LEMMA NewestKeys ==
    ASSUME QueryTypes, NEW R \in SUBSET (1..Len(runs))
    PROVE  PageOf(Qry!Newest(R, PageLimit), R)
<1> DEFINE page == Qry!Newest(R, PageLimit)
           K == KeysOf(R)
           L == IF Cardinality(K) < PageLimit THEN Cardinality(K) ELSE PageLimit
<1>1. /\ K \in SUBSET Nat /\ IsFiniteSet(K) /\ Cardinality(K) \in Nat /\ Cardinality(R) \in Nat
      /\ Cardinality(K) <= Cardinality(R) /\ (R # {} => Cardinality(K) # 0)
  BY KeysOfRows
<1>2. page = [m \in 1..L |-> CHOOSE k \in K : Rank(K, k) = m]
  <2>1. page = [m \in 1..L |-> CHOOSE k \in K : Cardinality({j \in K : j >= k}) = m]
    BY Zenon DEF Qry!Newest, KeysOf, Qry!Cardinality, Cardinality
  <2> HIDE DEF K, L
  <2>2. QED BY <2>1 DEF Rank
<1>3. PageLimit \in Nat \ {0} BY ServiceConstants DEF Qry!QueryConstants
<1>4. L \in 0..Cardinality(K) /\ (L = 0 => R = {}) BY <1>1, <1>3
<1>5. Cardinality(R) <= L => L = Cardinality(K) BY <1>1, <1>3
<1> HIDE DEF K, L, page
<1>6. \A m \in 1..L : page[m] \in K /\ Rank(K, page[m]) = m
  <2> SUFFICES ASSUME NEW m \in 1..L
               PROVE  page[m] \in K /\ Rank(K, page[m]) = m
    OBVIOUS
  <2>1. \E k \in K : Rank(K, k) = m BY <1>1, <1>4, Ranks
  <2>2. page[m] = CHOOSE k \in K : Rank(K, k) = m BY <1>2
  <2>3. QED BY <2>1, <2>2
<1>7. page \in Seq(Nat) /\ Len(page) = L
  <2>1. page = [m \in 1..L |-> page[m]] BY <1>2
  <2>2. \A m \in 1..L : page[m] \in Nat BY <1>1, <1>6
  <2>3. L \in Nat BY <1>1, <1>4
  <2>4. QED BY <2>1, <2>2, <2>3
<1>8. \A k, l \in K : k \in Nat /\ (k < l => Rank(K, l) < Rank(K, k)) BY <1>1, Ranks
<1>9. \A k \in K : Rank(K, k) \in 1..Cardinality(K) BY <1>1, Ranks
<1>a. \A k, l \in K : Rank(K, k) = Rank(K, l) => k = l
  <2> SUFFICES ASSUME NEW k \in K, NEW l \in K, Rank(K, k) = Rank(K, l)
               PROVE  k = l
    OBVIOUS
  <2>1. Rank(K, k) \in Nat /\ k \in Nat /\ l \in Nat BY <1>1, <1>8, <1>9
  <2>2. (k < l => Rank(K, l) < Rank(K, k)) /\ (l < k => Rank(K, k) < Rank(K, l)) BY <1>8
  <2>3. QED BY <2>1, <2>2
<1>10. \A m, n \in 1..L : m < n => page[m] > page[n]
  <2> SUFFICES ASSUME NEW m \in 1..L, NEW n \in 1..L, m < n
               PROVE  page[m] > page[n]
    OBVIOUS
  <2>1. page[m] \in K /\ page[n] \in K /\ Rank(K, page[m]) = m /\ Rank(K, page[n]) = n BY <1>6
  <2>2. ~(page[m] < page[n]) /\ page[m] # page[n] BY <1>8, <2>1
  <2>3. QED BY <1>8, <2>1, <2>2
<1>11. \A n \in 1..L : \A k \in K : k < page[n] \/ \E m \in 1..n : page[m] = k
  <2> SUFFICES ASSUME NEW n \in 1..L, NEW k \in K, ~(k < page[n])
               PROVE  \E m \in 1..n : page[m] = k
    OBVIOUS
  <2> DEFINE m == Rank(K, k)
  <2>1. m \in 1..Cardinality(K) /\ Rank(K, k) = m BY <1>9
  <2> HIDE DEF m
  <2>2. m <= n
    <3>1. page[n] \in K /\ Rank(K, page[n]) = n BY <1>6
    <3>2. k = page[n] \/ page[n] < k BY <1>8, <3>1
    <3>3. page[n] < k => Rank(K, k) < Rank(K, page[n]) BY <1>8, <3>1
    <3>4. k = page[n] => m = n BY <2>1, <3>1
    <3>5. QED BY <1>1, <2>1, <3>1, <3>2, <3>3, <3>4
  <2>3. m \in 1..L /\ m \in 1..n BY <1>1, <1>4, <2>1, <2>2
  <2>4. page[m] \in K /\ Rank(K, page[m]) = m BY <1>6, <2>3
  <2>5. page[m] = k BY <1>a, <2>1, <2>4
  <2>6. QED BY <2>3, <2>5
<1>12. L = Cardinality(K) => \A k \in K : \E m \in 1..L : page[m] = k
  <2> SUFFICES ASSUME L = Cardinality(K), NEW k \in K
               PROVE  \E m \in 1..L : page[m] = k
    OBVIOUS
  <2> DEFINE m == Rank(K, k)
  <2>1. m \in 1..L /\ Rank(K, k) = m BY <1>9
  <2> HIDE DEF m
  <2>2. page[m] \in K /\ Rank(K, page[m]) = m BY <1>6, <2>1
  <2>3. page[m] = k BY <1>a, <2>1, <2>2
  <2>4. QED BY <2>1, <2>3
<1>13. page = <<>> <=> Len(page) = 0 BY <1>7
<1>14. QED BY <1>4, <1>5, <1>6, <1>7, <1>10, <1>11, <1>12, <1>13 DEF K, PageOf, page

\* Two sequences put together.
LEMMA Joined ==
    ASSUME NEW p \in Seq(Nat), NEW q \in Seq(Nat)
    PROVE  /\ p \o q \in Seq(Nat) /\ Len(p \o q) = Len(p) + Len(q)
           /\ Len(p) \in Nat /\ Len(q) \in Nat
           /\ \A m \in 1..(Len(p) + Len(q)) : (p \o q)[m] = IF m <= Len(p) THEN p[m] ELSE q[m - Len(p)]
           /\ \A m \in 1..Len(p \o q) : (p \o q)[m] \in Nat
<1> DEFINE j == p \o q
<1>1. /\ j \in Seq(Nat) /\ Len(j) = Len(p) + Len(q) /\ Len(p) \in Nat /\ Len(q) \in Nat
      /\ \A m \in 1..(Len(p) + Len(q)) : j[m] = IF m <= Len(p) THEN p[m] ELSE q[m - Len(p)]
  OBVIOUS
<1> HIDE DEF j
<1>2. \A m \in 1..Len(j) : j[m] \in Nat BY <1>1
<1>3. QED BY <1>1, <1>2 DEF j

\* A page continues the keys received below key: it ends the list, or the list goes on
\* below the last key returned.
LEMMA PageContinues ==
    ASSUME QueryTypes, NEW c \in Callers, NEW w \in 0..Len(runs), NEW fl \in {"any", "running"},
           NEW key \in Nat, NEW got \in Seq(Nat), PageFits(runs, w, fl, key, got),
           Qry!SummaryPage(c, w, fl, key, got)
    PROVE  \E d \in ReaderRecs :
              /\ reader' = [reader EXCEPT ![c] = d] /\ ListFits(d, runs)
              /\ d.pc = "listed" /\ d.copy = reader[c].copy
<1> DEFINE R == Qry!Below(w, fl, key)
           page == Qry!Newest(R, PageLimit)
<1>1. R \in SUBSET (1..Len(runs)) BY DEF Qry!Below
<1>2. \A i \in 1..Len(runs) : i \in R <=> i <= w /\ Qry!Matches(runs[i], fl) /\ runs[i].key < key
  BY DEF Qry!Below
<1>3. \A i \in 1..Len(runs) : runs[i].key \in Nat
  <2>1. \A i \in 1..Len(runs) : runs[i] \in Rows BY DEF QueryTypes
  <2>2. MaxRuns \in Nat BY ServiceConstants DEF Qry!QueryConstants
  <2>3. QED BY <2>1, <2>2 DEF Rows
<1>4. \/ /\ page = <<>>
         /\ reader' = [reader EXCEPT ![c] = [@ EXCEPT !.pc = "listed", !.watermark = w,
                                     !.filter = fl, !.got = got, !.more = FALSE]]
      \/ /\ page # <<>>
         /\ \E fits \in 1..Len(page) :
              reader' = [reader EXCEPT ![c] = [@ EXCEPT !.pc = "listed", !.watermark = w, !.filter = fl,
                           !.got = got \o SubSeq(page, 1, fits), !.after = page[fits],
                           !.more = fits < Len(page) \/ Cardinality(R) > Len(page)]]
  <2>1. \A fits \in 1..Len(page) : /\ Qry!TruncatePage(page, fits).got = SubSeq(page, 1, fits)
                                   /\ Qry!TruncatePage(page, fits).last = page[fits]
    BY DEF Qry!TruncatePage
  <2>2. \/ /\ page = <<>>
           /\ reader' = [reader EXCEPT ![c] = [@ EXCEPT !.pc = "listed", !.watermark = w,
                                       !.filter = fl, !.got = got, !.more = FALSE]]
        \/ /\ page # <<>>
           /\ \E fits \in 1..Len(page) :
                reader' = [reader EXCEPT ![c] = [@ EXCEPT !.pc = "listed", !.watermark = w, !.filter = fl,
                             !.got = got \o Qry!TruncatePage(page, fits).got,
                             !.after = Qry!TruncatePage(page, fits).last,
                             !.more = fits < Len(page) \/ Cardinality(R) > Len(page)]]
    BY CardinalityIs DEF Qry!SummaryPage
  <2> HIDE DEF R, page
  <2>3. ASSUME NEW fits \in 1..Len(page),
               reader' = [reader EXCEPT ![c] = [@ EXCEPT !.pc = "listed", !.watermark = w, !.filter = fl,
                            !.got = got \o Qry!TruncatePage(page, fits).got,
                            !.after = Qry!TruncatePage(page, fits).last,
                            !.more = fits < Len(page) \/ Cardinality(R) > Len(page)]]
        PROVE  reader' = [reader EXCEPT ![c] = [@ EXCEPT !.pc = "listed", !.watermark = w, !.filter = fl,
                            !.got = got \o SubSeq(page, 1, fits), !.after = page[fits],
                            !.more = fits < Len(page) \/ Cardinality(R) > Len(page)]]
    BY <2>1, <2>3, Zenon
  <2>4. QED BY <2>2, <2>3, Zenon
<1> HIDE DEF R, page
<1> DEFINE K == KeysOf(R)
<1>5. /\ page \in Seq(Nat) /\ (page = <<>> <=> Len(page) = 0) /\ (Len(page) = 0 => R = {})
      /\ \A m \in 1..Len(page) : page[m] \in K
      /\ \A m, n \in 1..Len(page) : m < n => page[m] > page[n]
      /\ \A n \in 1..Len(page) : \A k \in K : k < page[n] \/ \E m \in 1..n : page[m] = k
      /\ Cardinality(R) <= Len(page) => \A k \in K : \E m \in 1..Len(page) : page[m] = k
  <2>1. PageOf(page, R) BY <1>1, NewestKeys DEF page
  <2>2. QED BY <2>1 DEF PageOf
<1>b. \A i \in R : runs[i].key \in K BY DEF KeysOf
<1>c. \A k \in K : \E i \in R : runs[i].key = k BY DEF KeysOf
<1> HIDE DEF K
<1> DEFINE c1 == [reader[c] EXCEPT !.pc = "listed"]
           c2 == [c1 EXCEPT !.watermark = w]
           c3 == [c2 EXCEPT !.filter = fl]
<1>6. reader \in [Callers -> ReaderRecs] /\ Len(runs) \in Nat /\ w \in Nat BY DEF QueryTypes
<1>7. c1 \in ReaderRecs /\ c1.pc = "listed" /\ c1.copy = reader[c].copy
  <2>1. reader[c] \in ReaderRecs BY <1>6
  <2>2. QED BY <2>1 DEF ReaderRecs, ReaderPcs
<1>8. c2 \in ReaderRecs /\ c2.pc = "listed" /\ c2.copy = reader[c].copy /\ c2.watermark = w
  <2> HIDE DEF c1
  <2>1. QED BY <1>6, <1>7 DEF ReaderRecs
<1>9. /\ c3 \in ReaderRecs /\ c3.pc = "listed" /\ c3.copy = reader[c].copy
      /\ c3.watermark = w /\ c3.filter = fl
  <2> HIDE DEF c2
  <2>1. QED BY <1>8 DEF ReaderRecs
<1>10. CASE page = <<>>
  <2> DEFINE c4 == [c3 EXCEPT !.got = got]
             c5 == [c4 EXCEPT !.more = FALSE]
  <2>1. reader' = [reader EXCEPT ![c] = c5] BY <1>4, <1>5, <1>6, <1>10
  <2> HIDE DEF c3
  <2>2. /\ c4 \in ReaderRecs /\ c4.pc = "listed" /\ c4.copy = reader[c].copy
        /\ c4.watermark = w /\ c4.filter = fl /\ c4.got = got
    BY <1>9 DEF ReaderRecs
  <2> HIDE DEF c4
  <2>3. /\ c5 \in ReaderRecs /\ c5.pc = "listed" /\ c5.copy = reader[c].copy
        /\ c5.watermark = w /\ c5.filter = fl /\ c5.got = got /\ c5.more = FALSE
    BY <2>2 DEF ReaderRecs
  <2> HIDE DEF c5
  <2>4. R = {} BY <1>5, <1>10
  <2>5. PageFits(runs, w, fl, 0, got)
    <3>1. \A i \in 1..w : Qry!Matches(runs[i], fl) => ~(runs[i].key < key) BY <1>2, <1>6, <2>4
    <3>2. \A m \in 1..Len(got) : got[m] >= 0
      OBVIOUS
    <3>3. QED BY <3>1, <3>2 DEF PageFits
  <2>6. ListFits(c5, runs) BY <2>3, <2>5 DEF ListFits
  <2>7. QED BY <2>1, <2>3, <2>6
<1>11. CASE page # <<>>
  <2>1. PICK fits \in 1..Len(page) :
          reader' = [reader EXCEPT ![c] = [@ EXCEPT !.pc = "listed", !.watermark = w, !.filter = fl,
                       !.got = got \o SubSeq(page, 1, fits), !.after = page[fits],
                       !.more = fits < Len(page) \/ Cardinality(R) > Len(page)]]
    BY <1>4, <1>11
  <2> DEFINE cut == SubSeq(page, 1, fits)
             g == got \o cut
             last == page[fits]
             more == fits < Len(page) \/ Cardinality(R) > Len(page)
             c4 == [c3 EXCEPT !.got = g]
             c5 == [c4 EXCEPT !.after = last]
             c6 == [c5 EXCEPT !.more = more]
  <2>2. reader' = [reader EXCEPT ![c] = c6] BY <1>6, <2>1
  <2>3. last \in Nat /\ more \in BOOLEAN /\ last \in K BY <1>5
  <2>4. cut \in Seq(Nat) /\ Len(cut) = fits /\ \A m \in 1..fits : cut[m] = page[m] BY <1>5
  <2> HIDE DEF cut
  <2>d. /\ g \in Seq(Nat) /\ Len(g) = Len(got) + fits /\ Len(got) \in Nat /\ fits \in Nat
        /\ \A m \in 1..(Len(got) + fits) : g[m] = IF m <= Len(got) THEN got[m] ELSE cut[m - Len(got)]
    BY <2>4, Joined
  <2>e. \A m \in 1..Len(g) : g[m] \in Nat BY <2>4, Joined
  <2> HIDE DEF g
  <2>5. /\ g \in Seq(Nat) /\ Len(g) = Len(got) + fits /\ Len(got) \in Nat /\ fits \in Nat
        /\ \A m \in 1..Len(g) : g[m] \in Nat
    BY <2>d, <2>e, Zenon
  <2>a. \A m \in 1..Len(got) : m \in 1..Len(g) /\ g[m] = got[m] /\ got[m] \in Nat
    <3> SUFFICES ASSUME NEW m \in 1..Len(got)
                 PROVE  m \in 1..Len(g) /\ g[m] = got[m] /\ got[m] \in Nat
      OBVIOUS
    <3>1. m \in 1..(Len(got) + fits) /\ m <= Len(got) BY <2>5
    <3>2. got[m] \in Nat
      OBVIOUS
    <3>3. g[m] = IF m <= Len(got) THEN got[m] ELSE cut[m - Len(got)] BY <2>d, <3>1
    <3>4. m \in 1..Len(g) BY <2>5, <3>1
    <3>5. QED BY <3>1, <3>2, <3>3, <3>4
  <2>b. \A n \in 1..fits : Len(got) + n \in 1..Len(g) /\ g[Len(got) + n] = page[n]
    <3> SUFFICES ASSUME NEW n \in 1..fits
                 PROVE  Len(got) + n \in 1..Len(g) /\ g[Len(got) + n] = page[n]
      OBVIOUS
    <3>1. /\ Len(got) + n \in 1..(Len(got) + fits) /\ ~(Len(got) + n <= Len(got))
          /\ (Len(got) + n) - Len(got) = n
      BY <2>5
    <3>2. QED BY <2>4, <2>d, <3>1
  <2>c. \A m \in 1..Len(g) : m \in 1..Len(got) \/ \E n \in 1..fits : m = Len(got) + n
    <3> SUFFICES ASSUME NEW m \in 1..Len(g), m \notin 1..Len(got)
                 PROVE  \E n \in 1..fits : m = Len(got) + n
      OBVIOUS
    <3>1. m - Len(got) \in 1..fits /\ m = Len(got) + (m - Len(got)) BY <2>5
    <3>2. QED BY <3>1
  <2> HIDE DEF c3, g, last, more
  <2>6. /\ c4 \in ReaderRecs /\ c4.pc = "listed" /\ c4.copy = reader[c].copy
        /\ c4.watermark = w /\ c4.filter = fl /\ c4.got = g
    BY <1>9, <2>5 DEF ReaderRecs
  <2> HIDE DEF c4
  <2>7. /\ c5 \in ReaderRecs /\ c5.pc = "listed" /\ c5.copy = reader[c].copy
        /\ c5.watermark = w /\ c5.filter = fl /\ c5.got = g /\ c5.after = last
    BY <2>3, <2>6 DEF ReaderRecs
  <2> HIDE DEF c5
  <2>8. /\ c6 \in ReaderRecs /\ c6.pc = "listed" /\ c6.copy = reader[c].copy
        /\ c6.watermark = w /\ c6.filter = fl /\ c6.got = g /\ c6.after = last /\ c6.more = more
    BY <2>3, <2>7 DEF ReaderRecs
  <2> HIDE DEF c6
  <2>9. PageFits(runs, w, fl, last, g)
    <3>1. \A n \in 1..fits : page[n] >= last /\ page[n] < key /\ page[n] \in Nat
      <4> SUFFICES ASSUME NEW n \in 1..fits
                   PROVE  page[n] >= last /\ page[n] < key /\ page[n] \in Nat
        OBVIOUS
      <4>1. n \in 1..Len(page) /\ page[n] \in K /\ page[n] \in Nat BY <1>5
      <4>2. page[n] < key BY <1>1, <1>2, <1>c, <4>1
      <4>3. n = fits \/ page[n] > page[fits] BY <1>5, <4>1
      <4>4. QED BY <1>5, <2>3, <4>1, <4>2, <4>3 DEF last
    <3>2. \A m \in 1..Len(got) : got[m] >= key /\ got[m] \in Nat BY DEF PageFits
    <3>3. last < key BY <3>1 DEF last
    <3>4. \A m \in 1..Len(g) : g[m] >= last /\ \E i \in 1..w : runs[i].key = g[m]
      <4> SUFFICES ASSUME NEW m \in 1..Len(g)
                   PROVE  g[m] >= last /\ \E i \in 1..w : runs[i].key = g[m]
        OBVIOUS
      <4>1. CASE m \in 1..Len(got)
        <5>1. g[m] = got[m] /\ \E i \in 1..w : runs[i].key = got[m] BY <2>a, <4>1 DEF PageFits
        <5>2. got[m] >= key /\ got[m] \in Nat BY <3>2, <4>1
        <5>3. got[m] >= last BY <2>3, <3>3, <5>2
        <5>4. QED BY <5>1, <5>3
      <4>2. CASE \E n \in 1..fits : m = Len(got) + n
        <5>1. PICK n \in 1..fits : m = Len(got) + n BY <4>2
        <5>2. g[m] = page[n] /\ n \in 1..Len(page)
          <6>1. g[Len(got) + n] = page[n] BY <2>b
          <6>2. n \in 1..Len(page) BY <1>5
          <6>3. QED BY <5>1, <6>1, <6>2
        <5>3. PICK i \in R : page[n] = runs[i].key BY <1>5, <1>c, <5>2
        <5>4. i \in 1..w BY <1>1, <1>2, <5>3
        <5>5. QED BY <3>1, <5>2, <5>3, <5>4
      <4>3. QED BY <2>c, <4>1, <4>2
    <3>5. \A m, n \in 1..Len(g) : m < n => g[m] > g[n]
      <4> SUFFICES ASSUME NEW m \in 1..Len(g), NEW n \in 1..Len(g), m < n
                   PROVE  g[m] > g[n]
        OBVIOUS
      <4>1. CASE n \in 1..Len(got)
        <5>1. m \in 1..Len(got) BY <2>5, <4>1
        <5>2. QED BY <2>a, <4>1, <5>1 DEF PageFits
      <4>2. CASE \E b \in 1..fits : n = Len(got) + b
        <5>1. PICK b \in 1..fits : n = Len(got) + b BY <4>2
        <5>2. g[n] = page[b] /\ b \in 1..Len(page)
          <6>1. g[Len(got) + b] = page[b] BY <2>b
          <6>2. b \in 1..Len(page) BY <1>5
          <6>3. QED BY <5>1, <6>1, <6>2
        <5>3. CASE m \in 1..Len(got)
          <6>1. g[m] = got[m] /\ got[m] >= key /\ got[m] \in Nat BY <2>a, <3>2, <5>3
          <6>2. page[b] < key /\ page[b] \in Nat BY <3>1
          <6>3. QED BY <5>2, <6>1, <6>2
        <5>4. CASE \E a \in 1..fits : m = Len(got) + a
          <6>1. PICK a \in 1..fits : m = Len(got) + a BY <5>4
          <6>2. g[m] = page[a] /\ a \in 1..Len(page)
            <7>1. g[Len(got) + a] = page[a] BY <2>b
            <7>2. a \in 1..Len(page) BY <1>5
            <7>3. QED BY <6>1, <7>1, <7>2
          <6>3. a < b BY <2>5, <5>1, <6>1
          <6>4. QED BY <1>5, <5>2, <6>2, <6>3
        <5>5. QED BY <2>c, <5>3, <5>4
      <4>3. QED BY <2>c, <4>1, <4>2
    <3>6. \A i \in 1..w : Qry!Matches(runs[i], fl) =>
             runs[i].key < last \/ \E m \in 1..Len(g) : g[m] = runs[i].key
      <4> SUFFICES ASSUME NEW i \in 1..w, Qry!Matches(runs[i], fl), ~(runs[i].key < last)
                   PROVE  \E m \in 1..Len(g) : g[m] = runs[i].key
        OBVIOUS
      <4>1. CASE runs[i].key < key
        <5>1. runs[i].key \in K BY <1>2, <1>b, <4>1
        <5>2. PICK m \in 1..fits : page[m] = runs[i].key BY <1>5, <5>1 DEF last
        <5>3. Len(got) + m \in 1..Len(g) /\ g[Len(got) + m] = runs[i].key BY <2>b, <5>2
        <5>4. QED BY <5>3
      <4>2. CASE ~(runs[i].key < key)
        <5>1. PICK m \in 1..Len(got) : got[m] = runs[i].key BY <4>2 DEF PageFits
        <5>2. m \in 1..Len(g) /\ g[m] = runs[i].key BY <2>a, <5>1
        <5>3. QED BY <5>2
      <4>3. QED BY <4>1, <4>2
    <3>7. QED BY <3>4, <3>5, <3>6 DEF PageFits
  <2>10. ~more => PageFits(runs, w, fl, 0, g)
    <3> SUFFICES ASSUME ~more
                 PROVE  PageFits(runs, w, fl, 0, g)
      OBVIOUS
    <3>1. fits = Len(page) /\ Cardinality(R) <= Len(page)
      <4>1. Cardinality(R) \in Nat BY <1>1, KeysOfRows
      <4>2. QED BY <1>5, <4>1 DEF more
    <3>2. \A i \in 1..w : Qry!Matches(runs[i], fl) => \E m \in 1..Len(g) : g[m] = runs[i].key
      <4> SUFFICES ASSUME NEW i \in 1..w, Qry!Matches(runs[i], fl)
                   PROVE  \E m \in 1..Len(g) : g[m] = runs[i].key
        OBVIOUS
      <4>1. CASE runs[i].key < key
        <5>1. runs[i].key \in K BY <1>2, <1>b, <4>1
        <5>2. PICK m \in 1..fits : page[m] = runs[i].key BY <1>5, <3>1, <5>1
        <5>3. Len(got) + m \in 1..Len(g) /\ g[Len(got) + m] = runs[i].key BY <2>b, <5>2
        <5>4. QED BY <5>3
      <4>2. CASE ~(runs[i].key < key)
        <5>1. PICK m \in 1..Len(got) : got[m] = runs[i].key BY <4>2 DEF PageFits
        <5>2. m \in 1..Len(g) /\ g[m] = runs[i].key BY <2>a, <5>1
        <5>3. QED BY <5>2
      <4>3. QED BY <4>1, <4>2
    <3>3. \A m \in 1..Len(g) : g[m] >= 0
      <4>1. \A m \in 1..Len(g) : g[m] \in Nat BY <2>5
      <4>2. QED BY <4>1
    <3>4. QED BY <2>9, <3>2, <3>3 DEF PageFits
  <2>11. ListFits(c6, runs) BY <2>3, <2>8, <2>9, <2>10 DEF ListFits
  <2>12. QED BY <2>2, <2>8, <2>11
<1>12. QED BY <1>10, <1>11

\* The parts of the invariant.
LEMMA QueryFacts ==
    ASSUME QueryInv
    PROVE  /\ runs \in Seq(Rows) /\ Len(runs) \in 2..MaxRuns /\ MaxRuns \in Nat /\ runs[1] \in Rows
           /\ log \in 1..MaxLog /\ MaxLog \in Nat
           /\ snapshots \in [Callers -> Snapshots] /\ reader \in [Callers -> ReaderRecs]
           /\ asks \in 0..MaxAsks /\ MaxAsks \in Nat /\ PageLimit \in Nat \ {0}
           /\ \A i \in 1..Len(runs) : runs[i] \in Rows /\ RowFits(runs[i])
<1>1. /\ MaxRuns \in Nat /\ MaxLog \in Nat /\ MaxAsks \in Nat /\ PageLimit \in Nat \ {0}
  BY ServiceConstants DEF Qry!QueryConstants
<1>2. QueryTypes BY DEF QueryInv
<1>3. \A i \in 1..Len(runs) : runs[i] \in Rows /\ RowFits(runs[i]) BY DEF QueryInv, QueryTypes
<1>4. 1 \in 1..Len(runs) BY <1>1, <1>2 DEF QueryTypes
<1>5. QED BY <1>1, <1>2, <1>3, <1>4 DEF QueryTypes

\* A question is counted.
LEMMA AsksCount ==
    ASSUME QueryInv, asks' = asks \/ Qry!Ask
    PROVE  asks' \in 0..MaxAsks
BY QueryFacts DEF Qry!Ask

\* One reader goes on, and the runs stay as they are.
LEMMA ReaderMoves ==
    ASSUME QueryInv, NEW c \in Callers, NEW d \in ReaderRecs, reader' = [reader EXCEPT ![c] = d],
           UNCHANGED <<runs, log>>, asks' = asks \/ Qry!Ask,
           snapshots' \in [Callers -> Snapshots],
           \A b \in Callers \ {c} : snapshots'[b] = snapshots[b],
           ListFits(d, runs), EventsFit(d, log), ChunksFit(d, snapshots'[c]),
           AnswerFits(d, runs[1])
    PROVE  QueryInv'
<1>1. /\ reader' \in [Callers -> ReaderRecs] /\ reader'[c] = d
      /\ \A b \in Callers \ {c} : reader'[b] = reader[b]
  BY QueryFacts
<1>2. QueryTypes' BY <1>1, QueryFacts, AsksCount DEF QueryTypes
<1>3. \A b \in Callers : /\ ListFits(reader'[b], runs) /\ EventsFit(reader'[b], log)
                         /\ ChunksFit(reader'[b], snapshots'[b]) /\ AnswerFits(reader'[b], runs[1])
  <2> SUFFICES ASSUME NEW b \in Callers
               PROVE  /\ ListFits(reader'[b], runs) /\ EventsFit(reader'[b], log)
                      /\ ChunksFit(reader'[b], snapshots'[b]) /\ AnswerFits(reader'[b], runs[1])
    OBVIOUS
  <2>1. CASE b = c BY <1>1, <2>1
  <2>2. CASE b # c BY <1>1, <2>2 DEF QueryInv
  <2>3. QED BY <2>1, <2>2
<1>4. QED BY <1>2, <1>3, QueryFacts DEF QueryInv

\* What concerns the copy, when the reader asks no result.
LEMMA CopyKept ==
    ASSUME NEW c, NEW d, NEW x, AnswerFits(c, x), d.copy = c.copy,
           d.pc \notin {"source", "record", "retry", "told"}
    PROVE  AnswerFits(d, x)
BY DEF AnswerFits

\* A reader rests.
LEMMA ReaderRests ==
    ASSUME QueryInv
    PROVE  /\ Qry!Resting \in ReaderRecs /\ ListFits(Qry!Resting, runs) /\ EventsFit(Qry!Resting, log)
           /\ \A s : ChunksFit(Qry!Resting, s)
           /\ AnswerFits(Qry!Resting, runs[1])
<1>1. Qry!NoProjection \in Projections BY DEF Qry!NoProjection, Projections, Sources
<1>2. Qry!Resting.copy \in Copies BY DEF Qry!Resting, Copies
<1>3. <<>> \in Seq(Nat) /\ <<>> \in Seq(RunStates)
  OBVIOUS
<1>4. Qry!Resting \in ReaderRecs BY <1>1, <1>2, <1>3 DEF Qry!Resting, ReaderRecs, ReaderPcs
<1>5. /\ ListFits(Qry!Resting, runs) /\ EventsFit(Qry!Resting, log)
      /\ \A s : ChunksFit(Qry!Resting, s)
  BY DEF Qry!Resting, ListFits, EventsFit, ChunksFit
<1>6. runs[1].version \in Nat BY QueryFacts DEF Rows
<1>7. AnswerFits(Qry!Resting, runs[1]) BY <1>6 DEF Qry!Resting, AnswerFits
<1>8. QED BY <1>4, <1>5, <1>7

\* A list begins or goes on.
LEMMA SummariesListed ==
    ASSUME QueryInv, NEW c \in Callers, Qry!ListRunSummaries(c) \/ Qry!ListMore(c)
    PROVE  QueryInv'
<1>1. QueryTypes /\ UNCHANGED <<runs, log, snapshots>> /\ (asks' = asks \/ Qry!Ask)
  BY DEF QueryInv, Qry!ListRunSummaries, Qry!ListMore, Qry!Question
<1>2. \E d \in ReaderRecs : /\ reader' = [reader EXCEPT ![c] = d] /\ ListFits(d, runs)
                            /\ d.pc = "listed" /\ d.copy = reader[c].copy
  <2>1. CASE Qry!ListRunSummaries(c)
    <3>1. PICK fl \in {"any", "running"} : Qry!SummaryPage(c, Len(runs), fl, MaxRuns + 1, <<>>)
      BY <2>1 DEF Qry!ListRunSummaries
    <3>2. /\ Len(runs) \in 0..Len(runs) /\ MaxRuns + 1 \in Nat /\ <<>> \in Seq(Nat)
          /\ \A i \in 1..Len(runs) : runs[i].key < MaxRuns + 1
      <4>1. /\ MaxRuns \in Nat /\ Len(runs) \in Nat
            /\ \A i \in 1..Len(runs) : runs[i] \in Rows
        BY QueryFacts
      <4>2. \A i \in 1..Len(runs) : runs[i].key < MaxRuns + 1 BY <4>1 DEF Rows
      <4>3. QED BY <4>1, <4>2
    <3>3. PageFits(runs, Len(runs), fl, MaxRuns + 1, <<>>) BY <3>2 DEF PageFits
    <3>4. QED BY <1>1, <3>1, <3>2, <3>3, PageContinues
  <2>2. CASE Qry!ListMore(c)
    <3>1. /\ reader[c].pc = "listed" /\ reader[c].more
          /\ Qry!SummaryPage(c, reader[c].watermark, reader[c].filter, reader[c].after, reader[c].got)
      BY <2>2 DEF Qry!ListMore, Qry!At
    <3>2. PageFits(runs, reader[c].watermark, reader[c].filter, reader[c].after, reader[c].got)
      BY <3>1 DEF QueryInv, ListFits
    <3>3. reader[c] \in ReaderRecs BY QueryFacts
    <3>4. /\ reader[c].filter \in {"any", "running"} /\ reader[c].after \in Nat
          /\ reader[c].got \in Seq(Nat)
      BY <3>3 DEF ReaderRecs
    <3>5. reader[c].watermark \in 0..Len(runs) BY <3>2 DEF PageFits
    <3>6. QED BY <1>1, <3>1, <3>2, <3>4, <3>5, PageContinues
  <2>3. QED BY <2>1, <2>2
<1>3. PICK d \in ReaderRecs : /\ reader' = [reader EXCEPT ![c] = d] /\ ListFits(d, runs)
                              /\ d.pc = "listed" /\ d.copy = reader[c].copy
  BY <1>2
<1>4. EventsFit(d, log) /\ ChunksFit(d, snapshots[c]) BY <1>3 DEF EventsFit, ChunksFit
<1>5. AnswerFits(d, runs[1]) BY <1>3, CopyKept DEF QueryInv
<1>6. QED BY <1>1, <1>3, <1>4, <1>5, QueryFacts, ReaderMoves

\* A page of events follows the ones received.
LEMMA EventsFollow ==
    ASSUME QueryInv, NEW c \in Callers, NEW from \in Nat, NEW got \in Seq(Nat), from < log,
           \/ got = <<>>
           \/ /\ Len(got) > 0 /\ from = reader[c].start + Len(got)
              /\ \A m \in 1..Len(got) : got[m] = reader[c].start + m,
           Qry!EventPage(c, from, got)
    PROVE  \E d \in ReaderRecs :
              /\ reader' = [reader EXCEPT ![c] = d] /\ EventsFit(d, log)
              /\ d.pc = "events" /\ d.copy = reader[c].copy
<1> DEFINE last == IF log - from > PageLimit THEN from + PageLimit ELSE log
           page == [n \in 1..(last - from) |-> from + n]
           start == IF got = <<>> THEN from ELSE reader[c].start
<1>1. /\ reader \in [Callers -> ReaderRecs] /\ log \in Nat /\ PageLimit \in Nat \ {0}
      /\ reader[c] \in ReaderRecs /\ reader[c].start \in Nat
  <2>1. /\ reader \in [Callers -> ReaderRecs] /\ log \in Nat /\ PageLimit \in Nat \ {0}
        /\ reader[c] \in ReaderRecs
    BY QueryFacts
  <2>2. QED BY <2>1 DEF ReaderRecs
<1>2. last \in Nat /\ last > from /\ last <= log BY <1>1
<1>3. \/ page = <<>>
      \/ \E fits \in 1..Len(page) :
            reader' = [reader EXCEPT ![c] = [@ EXCEPT
                         !.pc = "events", !.got = got \o SubSeq(page, 1, fits),
                         !.after = page[fits], !.start = start,
                         !.more = page[fits] < log]]
  <2>1. \A fits \in 1..Len(page) : /\ Qry!TruncatePage(page, fits).got = SubSeq(page, 1, fits)
                                   /\ Qry!TruncatePage(page, fits).last = page[fits]
    BY DEF Qry!TruncatePage
  <2>2. \/ page = <<>>
        \/ \E fits \in 1..Len(page) :
              reader' = [reader EXCEPT ![c] = [@ EXCEPT
                           !.pc = "events", !.got = got \o Qry!TruncatePage(page, fits).got,
                           !.after = Qry!TruncatePage(page, fits).last,
                           !.start = start,
                           !.more = Qry!TruncatePage(page, fits).last < log]]
    BY DEF Qry!EventPage
  <2> HIDE DEF page, start
  <2>3. ASSUME NEW fits \in 1..Len(page),
               reader' = [reader EXCEPT ![c] = [@ EXCEPT
                            !.pc = "events", !.got = got \o Qry!TruncatePage(page, fits).got,
                            !.after = Qry!TruncatePage(page, fits).last, !.start = start,
                            !.more = Qry!TruncatePage(page, fits).last < log]]
        PROVE  reader' = [reader EXCEPT ![c] = [@ EXCEPT
                            !.pc = "events", !.got = got \o SubSeq(page, 1, fits),
                            !.after = page[fits], !.start = start, !.more = page[fits] < log]]
    BY <2>1, <2>3, Zenon
  <2>4. QED BY <2>2, <2>3, Zenon
<1> HIDE DEF last
<1>4. /\ page \in Seq(Nat) /\ Len(page) = last - from /\ \A n \in 1..Len(page) : page[n] = from + n
  BY <1>2
<1> HIDE DEF page
<1>5. page # <<>> BY <1>2, <1>4
<1>6. PICK fits \in 1..Len(page) :
         reader' = [reader EXCEPT ![c] = [@ EXCEPT
                      !.pc = "events", !.got = got \o SubSeq(page, 1, fits),
                      !.after = page[fits], !.start = start,
                      !.more = page[fits] < log]]
  BY <1>3, <1>5
<1> DEFINE cut == SubSeq(page, 1, fits)
           g == got \o cut
           c1 == [reader[c] EXCEPT !.pc = "events"]
           c2 == [c1 EXCEPT !.got = g]
           c3 == [c2 EXCEPT !.after = page[fits]]
           c4 == [c3 EXCEPT !.start = start]
           more == page[fits] < log
           c5 == [c4 EXCEPT !.more = more]
<1>7. reader' = [reader EXCEPT ![c] = c5] BY <1>1, <1>6
<1>8. cut \in Seq(Nat) /\ Len(cut) = fits /\ fits \in Nat /\ \A m \in 1..fits : cut[m] = from + m
  BY <1>4
<1>9. page[fits] = from + fits /\ page[fits] \in Nat /\ page[fits] <= log
  <2>1. page[fits] = from + fits BY <1>4
  <2>2. fits <= last - from BY <1>4
  <2>3. from + fits \in Nat /\ from + fits <= log BY <1>1, <1>2, <1>8, <2>2
  <2>4. QED BY <2>1, <2>3
<1> HIDE DEF cut
<1>10. /\ g \in Seq(Nat) /\ Len(g) = Len(got) + fits /\ Len(got) \in Nat
       /\ \A m \in 1..(Len(got) + fits) : g[m] = IF m <= Len(got) THEN got[m] ELSE cut[m - Len(got)]
  BY <1>8, Joined
<1>11. start \in Nat /\ more \in BOOLEAN BY <1>1
<1>12. from = start + Len(got) /\ \A m \in 1..Len(got) : got[m] = start + m
  <2>1. CASE got = <<>> BY <2>1
  <2>2. CASE got # <<>> BY <2>2
  <2>3. QED BY <2>1, <2>2
<1> HIDE DEF g, more
<1>13. /\ c1 \in ReaderRecs /\ c1.pc = "events" /\ c1.copy = reader[c].copy
  BY <1>1 DEF ReaderRecs, ReaderPcs
<1> HIDE DEF c1
<1>14. /\ c2 \in ReaderRecs /\ c2.pc = "events" /\ c2.copy = reader[c].copy /\ c2.got = g
  BY <1>10, <1>13 DEF ReaderRecs
<1> HIDE DEF c2
<1>15. /\ c3 \in ReaderRecs /\ c3.pc = "events" /\ c3.copy = reader[c].copy /\ c3.got = g
       /\ c3.after = page[fits]
  BY <1>9, <1>14 DEF ReaderRecs
<1> HIDE DEF c3
<1>16. /\ c4 \in ReaderRecs /\ c4.pc = "events" /\ c4.copy = reader[c].copy /\ c4.got = g
       /\ c4.after = page[fits] /\ c4.start = start
  BY <1>11, <1>15 DEF ReaderRecs
<1> HIDE DEF c4, start
<1>17. /\ c5 \in ReaderRecs /\ c5.pc = "events" /\ c5.copy = reader[c].copy /\ c5.got = g
       /\ c5.after = page[fits] /\ c5.start = start
  BY <1>11, <1>16 DEF ReaderRecs
<1> HIDE DEF c5
<1>18. \A m \in 1..Len(g) : g[m] = start + m
  <2> SUFFICES ASSUME NEW m \in 1..Len(g)
               PROVE  g[m] = start + m
    OBVIOUS
  <2>1. CASE m <= Len(got)
    <3>1. m \in 1..Len(got) /\ m \in 1..(Len(got) + fits) BY <1>10, <2>1
    <3>2. QED BY <1>10, <1>12, <2>1, <3>1
  <2>2. CASE ~(m <= Len(got))
    <3>1. m - Len(got) \in 1..fits
      <4>1. m \in 1..(Len(got) + fits) BY <1>10
      <4>2. QED BY <1>8, <1>10, <2>2, <4>1
    <3>2. g[m] = from + (m - Len(got)) BY <1>8, <1>10, <2>2, <3>1
    <3>3. QED BY <1>10, <1>11, <1>12, <3>2
  <2>3. QED BY <2>1, <2>2
<1>19. EventsFit(c5, log)
  <2>1. Len(g) > 0 /\ page[fits] = start + Len(g)
    <3>1. /\ fits > 0 /\ fits \in Nat /\ Len(g) = Len(got) + fits /\ Len(got) \in Nat
          /\ page[fits] = from + fits /\ from = start + Len(got) /\ start \in Nat
      BY <1>8, <1>9, <1>10, <1>11, <1>12
    <3>2. QED BY <3>1
  <2>2. QED BY <1>9, <1>17, <1>18, <2>1 DEF EventsFit
<1>20. QED BY <1>7, <1>17, <1>19

\* Events are read, from the start, from the newest page, or after the last one.
LEMMA EventsRead ==
    ASSUME QueryInv, NEW c \in Callers, Qry!GetEventPage(c) \/ Qry!MoreEvents(c)
    PROVE  QueryInv'
<1>1. UNCHANGED <<runs, log, snapshots>> /\ (asks' = asks \/ Qry!Ask)
  BY DEF Qry!GetEventPage, Qry!MoreEvents, Qry!Question
<1>2. \E d \in ReaderRecs : /\ reader' = [reader EXCEPT ![c] = d] /\ EventsFit(d, log)
                            /\ d.pc = "events" /\ d.copy = reader[c].copy
  <2>1. CASE Qry!GetEventPage(c)
    <3>1. PICK from \in {0, IF log > PageLimit THEN log - PageLimit ELSE 0} :
             Qry!EventPage(c, from, <<>>)
      BY <2>1 DEF Qry!GetEventPage
    <3>2. from \in Nat /\ from < log /\ <<>> \in Seq(Nat) BY QueryFacts
    <3>3. QED BY <3>1, <3>2, EventsFollow
  <2>2. CASE Qry!MoreEvents(c)
    <3>1. /\ reader[c].pc = "events" /\ reader[c].after < log
          /\ Qry!EventPage(c, reader[c].after, reader[c].got)
      BY <2>2 DEF Qry!MoreEvents, Qry!At
    <3>2. EventsFit(reader[c], log) /\ reader[c] \in ReaderRecs BY QueryFacts DEF QueryInv
    <3>3. reader[c].after \in Nat /\ reader[c].got \in Seq(Nat) BY <3>2 DEF ReaderRecs
    <3>4. QED BY <3>1, <3>2, <3>3, EventsFollow DEF EventsFit
  <2>3. QED BY <2>1, <2>2
<1>3. PICK d \in ReaderRecs : /\ reader' = [reader EXCEPT ![c] = d] /\ EventsFit(d, log)
                              /\ d.pc = "events" /\ d.copy = reader[c].copy
  BY <1>2
<1>4. ListFits(d, runs) /\ ChunksFit(d, snapshots[c]) BY <1>3 DEF ListFits, ChunksFit
<1>5. AnswerFits(d, runs[1]) BY <1>3, CopyKept DEF QueryInv
<1>6. QED BY <1>1, <1>3, <1>4, <1>5, QueryFacts, ReaderMoves

\* A payload is read into a snapshot, its first chunk to the reader.
LEMMA PayloadChunked ==
    ASSUME QueryInv, NEW c \in Callers, Qry!ChunkPayload(c)
    PROVE  QueryInv'
<1> DEFINE x == runs[1].status
<1>1. /\ UNCHANGED <<runs, log>> /\ Qry!Ask
      /\ reader \in [Callers -> ReaderRecs] /\ snapshots \in [Callers -> Snapshots]
      /\ reader[c] \in ReaderRecs /\ x \in RunStates /\ MaxChunks \in Nat
  BY QueryFacts, ServiceConstants DEF Qry!ChunkPayload, Qry!Question, Rows, Qry!QueryConstants
<1>2. PICK total \in 1..MaxChunks :
         IF total = 1
         THEN /\ reader' = [reader EXCEPT ![c] = [@ EXCEPT !.pc = "whole", !.parts = <<x>>, !.total = 1]]
              /\ UNCHANGED snapshots
         ELSE /\ snapshots' = [snapshots EXCEPT ![c] = [payload |-> x, total |-> total]]
              /\ reader' = [reader EXCEPT ![c] = [@ EXCEPT !.pc = "chunks", !.parts = <<x>>, !.total = total]]
  BY DEF Qry!ChunkPayload
<1> HIDE DEF x
<1> DEFINE pc == IF total = 1 THEN "whole" ELSE "chunks"
           c1 == [reader[c] EXCEPT !.pc = pc]
           c2 == [c1 EXCEPT !.parts = <<x>>]
           d == [c2 EXCEPT !.total = total]
<1>3. reader' = [reader EXCEPT ![c] = d]
  <2>1. CASE total = 1 BY <1>2, <2>1
  <2>2. CASE total # 1 BY <1>2, <2>2
  <2>3. QED BY <2>1, <2>2
<1>4. /\ snapshots' \in [Callers -> Snapshots]
      /\ \A b \in Callers \ {c} : snapshots'[b] = snapshots[b]
      /\ total # 1 => snapshots'[c].payload = x
  <2>1. CASE total = 1 BY <1>1, <1>2, <2>1
  <2>2. CASE total # 1
    <3>1. snapshots' = [snapshots EXCEPT ![c] = [payload |-> x, total |-> total]] BY <1>2, <2>2
    <3>2. [payload |-> x, total |-> total] \in Snapshots BY <1>1 DEF Snapshots
    <3>3. QED BY <1>1, <3>1, <3>2
  <2>3. QED BY <2>1, <2>2
<1>5. pc \in ReaderPcs /\ (total = 1 => pc = "whole") /\ (total # 1 => pc = "chunks")
  BY DEF ReaderPcs
<1> HIDE DEF pc
<1>6. c1 \in ReaderRecs /\ c1.pc = pc /\ c1.copy = reader[c].copy BY <1>1, <1>5 DEF ReaderRecs
<1> HIDE DEF c1
<1>7. <<x>> \in Seq(RunStates) /\ Len(<<x>>) = 1 /\ <<x>>[1] = x /\ total \in Nat BY <1>1
<1>8. c2 \in ReaderRecs /\ c2.pc = pc /\ c2.copy = reader[c].copy /\ c2.parts = <<x>>
  BY <1>6, <1>7 DEF ReaderRecs
<1> HIDE DEF c2
<1>9. d \in ReaderRecs /\ d.pc = pc /\ d.copy = reader[c].copy /\ d.parts = <<x>> /\ d.total = total
  BY <1>7, <1>8 DEF ReaderRecs
<1> HIDE DEF d
<1>10. ListFits(d, runs) /\ EventsFit(d, log) BY <1>5, <1>9 DEF ListFits, EventsFit
<1>11. ChunksFit(d, snapshots'[c])
  <2>1. \A m \in 1..Len(<<x>>) : <<x>>[m] = <<x>>[1] BY <1>7
  <2>2. total = 1 \/ 1 < total BY <1>7
  <2>3. QED BY <1>4, <1>5, <1>7, <1>9, <2>1, <2>2 DEF ChunksFit
<1>12. AnswerFits(d, runs[1]) BY <1>5, <1>9, CopyKept DEF QueryInv
<1>13. QED BY <1>1, <1>3, <1>4, <1>9, <1>10, <1>11, <1>12, ReaderMoves

\* The next chunk is read, from the snapshot the first one came from.
LEMMA ChunkRead ==
    ASSUME QueryInv, NEW c \in Callers, Qry!ReadSnapshotChunk(c)
    PROVE  QueryInv'
<1> DEFINE s == snapshots[c]
           parts == reader[c].parts
           complete == Len(parts) + 1 >= reader[c].total
<1>1. /\ UNCHANGED <<runs, log>> /\ reader[c].pc = "chunks" /\ reader[c] \in ReaderRecs
      /\ reader \in [Callers -> ReaderRecs] /\ snapshots \in [Callers -> Snapshots]
      /\ s \in Snapshots
  BY QueryFacts DEF Qry!ReadSnapshotChunk, Qry!At
<1>2. \/ /\ s = Qry!NoSnapshot /\ reader' = [reader EXCEPT ![c] = Qry!Resting]
         /\ UNCHANGED <<snapshots, asks>>
      \/ /\ s # Qry!NoSnapshot
         /\ snapshots' = IF complete THEN [snapshots EXCEPT ![c] = Qry!NoSnapshot] ELSE snapshots
         /\ \/ /\ reader' = [reader EXCEPT ![c] = [@ EXCEPT
                                !.parts = Append(parts, s.payload),
                                !.pc = IF complete THEN "whole" ELSE "chunks"]]
               /\ UNCHANGED asks
            \/ Qry!Ask /\ UNCHANGED reader
  BY DEF Qry!ReadSnapshotChunk
<1>3. /\ parts \in Seq(RunStates) /\ reader[c].total \in Nat /\ Len(parts) \in Nat
      /\ ChunksFit(reader[c], s) /\ Qry!NoSnapshot \in Snapshots
  BY <1>1 DEF ReaderRecs, QueryInv, Qry!NoSnapshot, Snapshots
<1> HIDE DEF complete
<1>4. CASE reader' = [reader EXCEPT ![c] = Qry!Resting] /\ UNCHANGED <<snapshots, asks>>
  BY <1>1, <1>4, ReaderRests, ReaderMoves
<1>5. CASE s # Qry!NoSnapshot /\ (snapshots' = IF complete THEN [snapshots EXCEPT ![c] = Qry!NoSnapshot] ELSE snapshots)
  <2>1. /\ snapshots' \in [Callers -> Snapshots]
        /\ \A b \in Callers \ {c} : snapshots'[b] = snapshots[b]
        /\ snapshots'[c] \in {s, Qry!NoSnapshot}
    BY <1>1, <1>3, <1>5
  <2>2. CASE Qry!Ask /\ UNCHANGED reader
    <3>1. reader' = [reader EXCEPT ![c] = reader[c]] BY <1>1, <2>2
    <3>2. ChunksFit(reader[c], snapshots'[c]) BY <1>3, <2>1 DEF ChunksFit
    <3>3. /\ ListFits(reader[c], runs) /\ EventsFit(reader[c], log) /\ AnswerFits(reader[c], runs[1])
      BY DEF QueryInv
    <3>4. QED BY <1>1, <2>1, <2>2, <3>1, <3>2, <3>3, ReaderMoves
  <2>3. CASE /\ reader' = [reader EXCEPT ![c] = [@ EXCEPT
                             !.parts = Append(parts, s.payload),
                             !.pc = IF complete THEN "whole" ELSE "chunks"]]
             /\ UNCHANGED asks
    <3>1. Len(parts) > 0 /\ Len(parts) < reader[c].total /\ s.payload = parts[1]
      BY <1>1, <1>3, <1>5 DEF ChunksFit
    <3>2. \A m \in 1..Len(parts) : parts[m] = parts[1] BY <1>1, <1>3 DEF ChunksFit
    <3> DEFINE q == Append(parts, s.payload)
               pc == IF complete THEN "whole" ELSE "chunks"
               c1 == [reader[c] EXCEPT !.parts = q]
               d == [c1 EXCEPT !.pc = pc]
    <3>3. reader' = [reader EXCEPT ![c] = d] BY <2>3
    <3>4. parts[1] \in RunStates BY <1>3, <3>1
    <3> HIDE DEF parts
    <3>5. /\ q \in Seq(RunStates) /\ Len(q) = Len(parts) + 1
          /\ \A m \in 1..Len(parts) : q[m] = parts[m]
          /\ q[Len(parts) + 1] = s.payload
      BY <1>3, <3>1, <3>4
    <3> HIDE DEF q
    <3>6. \A m \in 1..Len(q) : q[m] = q[1]
      <4> SUFFICES ASSUME NEW m \in 1..Len(q)
                   PROVE  q[m] = q[1]
        OBVIOUS
      <4>1. q[1] = parts[1] BY <1>3, <3>1, <3>5
      <4>2. m \in 1..Len(parts) \/ m = Len(parts) + 1 BY <1>3, <3>5
      <4>3. QED BY <3>1, <3>2, <3>5, <4>1, <4>2
    <3>7. pc \in ReaderPcs /\ pc \in {"whole", "chunks"} /\ (pc = "whole" <=> complete)
      BY DEF ReaderPcs
    <3> HIDE DEF pc
    <3>8. /\ c1 \in ReaderRecs /\ c1.parts = q /\ c1.copy = reader[c].copy
          /\ c1.total = reader[c].total
      BY <1>1, <3>5 DEF ReaderRecs
    <3> HIDE DEF c1
    <3>9. /\ d \in ReaderRecs /\ d.parts = q /\ d.copy = reader[c].copy
          /\ d.total = reader[c].total /\ d.pc = pc
      BY <3>7, <3>8 DEF ReaderRecs
    <3> HIDE DEF d
    <3>10. ListFits(d, runs) /\ EventsFit(d, log) BY <3>7, <3>9 DEF ListFits, EventsFit
    <3>11. ChunksFit(d, snapshots'[c])
      <4>1. Len(q) > 0 /\ q[1] = parts[1] BY <1>3, <3>1, <3>5
      <4>2. complete => Len(q) = reader[c].total BY <1>3, <3>1, <3>5 DEF complete, parts
      <4>3. ~complete => Len(q) < reader[c].total BY <1>3, <3>1, <3>5 DEF complete, parts
      <4>4. snapshots'[c] = Qry!NoSnapshot \/ snapshots'[c].payload = q[1] BY <2>1, <3>1, <4>1
      <4>5. QED BY <3>6, <3>7, <3>9, <4>1, <4>2, <4>3, <4>4 DEF ChunksFit
    <3>12. AnswerFits(d, runs[1]) BY <3>7, <3>9, CopyKept DEF QueryInv
    <3>13. QED BY <1>1, <2>1, <2>3, <3>3, <3>9, <3>10, <3>11, <3>12, ReaderMoves
  <2>4. QED BY <1>2, <1>5, <2>2, <2>3
<1>6. QED BY <1>2, <1>4, <1>5

\* Snapshots are pruned.
LEMMA SnapshotsPruned ==
    ASSUME QueryInv, Qry!PruneSnapshots
    PROVE  QueryInv'
<1>1. UNCHANGED <<runs, log, reader>> /\ Qry!Ask BY DEF Qry!PruneSnapshots
<1>2. PICK gone \in SUBSET Callers :
         snapshots' = [c \in Callers |-> IF c \in gone THEN Qry!NoSnapshot ELSE snapshots[c]]
  BY DEF Qry!PruneSnapshots
<1>3. Qry!NoSnapshot \in Snapshots BY DEF Qry!NoSnapshot, Snapshots
<1>4. snapshots' \in [Callers -> Snapshots] BY <1>2, <1>3, QueryFacts
<1>5. \A c \in Callers : ChunksFit(reader[c], snapshots'[c])
  <2> SUFFICES ASSUME NEW c \in Callers
               PROVE  ChunksFit(reader[c], snapshots'[c])
    OBVIOUS
  <2>1. snapshots'[c] \in {Qry!NoSnapshot, snapshots[c]} /\ ChunksFit(reader[c], snapshots[c])
    BY <1>2 DEF QueryInv
  <2>2. QED BY <2>1 DEF ChunksFit
<1>6. QueryTypes' BY <1>1, <1>4, QueryFacts, AsksCount DEF QueryTypes
<1>7. QED BY <1>1, <1>5, <1>6 DEF QueryInv

\* The reader turns to something else.
LEMMA ReaderTurns ==
    ASSUME QueryInv, NEW c \in Callers, Qry!Rest(c)
    PROVE  QueryInv'
BY QueryFacts, ReaderRests, ReaderMoves DEF Qry!Rest

\* A row may become another one: it keeps its key, its version counts what changed, and a
\* result stays.
RowAfter(x, y) ==
    /\ y.key = x.key /\ x.version <= y.version
    /\ y.version = x.version => y.status = x.status /\ y.phase = x.phase
    /\ x.result # "none" => y.result = x.result
    /\ y.status = "running" => x.status = "running"

\* A page stays what it was when rows are added and go on.
LEMMA PageKept ==
    ASSUME NEW rs, NEW rt, Len(rs) \in Nat, Len(rt) \in Nat, Len(rs) <= Len(rt),
           \A i \in 1..Len(rs) : RowAfter(rs[i], rt[i]),
           NEW w, NEW fl \in {"any", "running"}, NEW key, NEW got, PageFits(rs, w, fl, key, got)
    PROVE  PageFits(rt, w, fl, key, got)
<1>1. w \in 0..Len(rs) /\ w \in 0..Len(rt) /\ \A i \in 1..w : i \in 1..Len(rs) BY DEF PageFits
<1>2. \A i \in 1..w : rt[i].key = rs[i].key /\ (Qry!Matches(rt[i], fl) => Qry!Matches(rs[i], fl))
  BY <1>1 DEF RowAfter, Qry!Matches
<1>3. \A i \in 1..w : Qry!Matches(rt[i], fl) =>
         rt[i].key < key \/ \E m \in 1..Len(got) : got[m] = rt[i].key
  BY <1>2 DEF PageFits
<1>4. \A m \in 1..Len(got) : got[m] >= key /\ \E i \in 1..w : rt[i].key = got[m]
  BY <1>2 DEF PageFits
<1>5. QED BY <1>1, <1>3, <1>4 DEF PageFits

\* What a reader was told stays true when the row goes on, or is no longer asserted.
LEMMA AnswerKept ==
    ASSUME NEW c \in ReaderRecs, NEW x \in Rows, NEW y \in Rows, RowFits(x), RowFits(y),
           RowAfter(x, y), AnswerFits(c, x)
    PROVE  AnswerFits(c, y)
<1>1. x.version \in Nat /\ y.version \in Nat /\ c.copy.version \in Int
  BY DEF Rows, ReaderRecs, Copies
<1>2. x.status \in Qry!Terminal => x.result # "none" /\ y.result = x.result /\ y.status \in Qry!Terminal
  BY DEF Rows, RunStates, RowFits, RowAfter, Qry!Terminal
<1>3. c.copy.version <= y.version BY <1>1 DEF AnswerFits, RowAfter
<1>4. c.copy.version = y.version => c.copy.status = y.status /\ c.copy.phase = y.phase
  BY <1>1 DEF AnswerFits, RowAfter
<1>5. c.pc = "told" => Answers(c.told, y) BY DEF AnswerFits, Answers, RowAfter
<1>6. c.pc = "source" => y.status \in Qry!Terminal BY <1>2 DEF AnswerFits
<1>7. c.pc \in {"record", "retry"} => y.status \in Qry!Terminal /\ c.told \in Qry!ProjectionPayload(y.result)
  BY <1>2 DEF AnswerFits
<1>8. QED BY <1>3, <1>4, <1>5, <1>6, <1>7 DEF AnswerFits

\* The rows go on.
RowsAfter ==
    /\ runs' \in Seq(Rows) /\ Len(runs') \in Len(runs)..MaxRuns
    /\ \A i \in 1..Len(runs') : RowFits(runs'[i])
    /\ \A i \in 1..Len(runs) : RowAfter(runs[i], runs'[i])

\* What the readers hold stays as it should be.
LEMMA RowsAdvance ==
    ASSUME QueryInv, RowsAfter
    PROVE  \A c \in Callers : ListFits(reader[c], runs') /\ AnswerFits(reader[c], runs'[1])
<1> SUFFICES ASSUME NEW c \in Callers
             PROVE  ListFits(reader[c], runs') /\ AnswerFits(reader[c], runs'[1])
  OBVIOUS
<1>1. /\ Len(runs) \in Nat /\ Len(runs') \in Nat /\ Len(runs) <= Len(runs')
      /\ 1 \in 1..Len(runs) /\ 1 \in 1..Len(runs')
  BY QueryFacts DEF RowsAfter
<1>2. /\ reader[c] \in ReaderRecs /\ runs[1] \in Rows /\ RowFits(runs[1])
      /\ runs'[1] \in Rows /\ RowFits(runs'[1]) /\ RowAfter(runs[1], runs'[1])
  BY <1>1, QueryFacts DEF RowsAfter
<1>3. AnswerFits(reader[c], runs'[1]) BY <1>2, AnswerKept DEF QueryInv
<1>4. reader[c].filter \in {"any", "running"} BY <1>2 DEF ReaderRecs
<1>5. ASSUME reader[c].pc = "listed"
      PROVE  \E key \in Nat :
                /\ PageFits(runs', reader[c].watermark, reader[c].filter, key, reader[c].got)
                /\ IF reader[c].more THEN key = reader[c].after ELSE key = 0
  <2>1. PICK key \in Nat :
                /\ PageFits(runs, reader[c].watermark, reader[c].filter, key, reader[c].got)
                /\ IF reader[c].more THEN key = reader[c].after ELSE key = 0
    BY <1>5 DEF QueryInv, ListFits
  <2>2. PageFits(runs', reader[c].watermark, reader[c].filter, key, reader[c].got)
    <3>1. \A i \in 1..Len(runs) : RowAfter(runs[i], runs'[i]) BY DEF RowsAfter
    <3>2. QED BY <1>1, <1>4, <2>1, <3>1, PageKept
  <2>3. QED BY <2>1, <2>2
<1>6. QED BY <1>3, <1>5 DEF ListFits

\* The rows and the events go on under the readers.
LEMMA RowsMove ==
    ASSUME QueryInv, RowsAfter, UNCHANGED <<snapshots, reader>>, log' \in log..MaxLog, Qry!Ask
    PROVE  QueryInv'
<1>1. log \in 1..MaxLog /\ MaxLog \in Nat BY QueryFacts
<1>2. \A c \in Callers : EventsFit(reader[c], log')
  <2> SUFFICES ASSUME NEW c \in Callers
               PROVE  EventsFit(reader[c], log')
    OBVIOUS
  <2>1. EventsFit(reader[c], log) /\ reader[c] \in ReaderRecs BY QueryFacts DEF QueryInv
  <2>2. reader[c].after \in Nat BY <2>1 DEF ReaderRecs
  <2>3. reader[c].after <= log => reader[c].after <= log' BY <1>1, <2>2
  <2>4. QED BY <2>1, <2>3 DEF EventsFit
<1>3. QueryTypes'
  <2>1. Len(runs') \in 2..MaxRuns /\ log' \in 1..MaxLog BY <1>1, QueryFacts DEF RowsAfter
  <2>2. QED BY <2>1, QueryFacts, AsksCount DEF RowsAfter, QueryTypes
<1>4. QED BY <1>2, <1>3, RowsAdvance DEF QueryInv, RowsAfter

\* One row changes.
LEMMA RowChanges ==
    ASSUME QueryInv, NEW i \in 1..Len(runs), NEW x \in Rows, RowFits(x), RowAfter(runs[i], x),
           runs' = [runs EXCEPT ![i] = x]
    PROVE  RowsAfter /\ runs'[i] = x
<1>1. runs \in Seq(Rows) /\ Len(runs) \in Nat /\ MaxRuns \in Nat /\ Len(runs) <= MaxRuns
  BY QueryFacts
<1>2. runs' \in Seq(Rows) /\ Len(runs') = Len(runs) /\ runs'[i] = x BY <1>1
<1>3. \A j \in 1..Len(runs) : j # i => runs'[j] = runs[j] BY <1>1
<1>4. \A j \in 1..Len(runs) : RowAfter(runs[j], runs[j])
  <2>1. \A j \in 1..Len(runs) : runs[j] \in Rows BY <1>1
  <2>2. \A j \in 1..Len(runs) : runs[j].version \in Nat BY <2>1 DEF Rows
  <2>3. QED BY <2>2 DEF RowAfter
<1>5. \A j \in 1..Len(runs) : RowFits(runs'[j]) /\ RowAfter(runs[j], runs'[j])
  <2> SUFFICES ASSUME NEW j \in 1..Len(runs)
               PROVE  RowFits(runs'[j]) /\ RowAfter(runs[j], runs'[j])
    OBVIOUS
  <2>1. CASE j = i BY <1>2, <2>1
  <2>2. CASE j # i BY <1>3, <1>4, <2>2, QueryFacts
  <2>3. QED BY <2>1, <2>2
<1>6. QED BY <1>1, <1>2, <1>5 DEF RowsAfter

\* A projection of a result answers for it.
LEMMA PayloadAnswers ==
    ASSUME NEW x \in Rows, RowFits(x), x.result # "none", NEW p \in Qry!ProjectionPayload(x.result)
    PROVE  p \in Projections /\ p.source = x.result /\ p # Qry!NoProjection /\ Answers(p, x)
<1> DEFINE q == x.result
<1>1. q \in {"success", "unsuccessful", "failed"} BY DEF Rows, Sources, Qry!Results
<1>2. p = Qry!Candidate(q) \/ p = Qry!Fallback(Qry!StatusOf(q), q) BY DEF Qry!ProjectionPayload
<1>3. /\ p.source = q /\ p \in Projections /\ (p.ok => q = "success")
      /\ p.outcome = "validation_failure" => q = "unsuccessful"
  <2> HIDE DEF q
  <2>1. CASE p = Qry!Candidate(q)
    BY <1>1, <2>1 DEF Qry!Candidate, Qry!NormalizedOutcome, Qry!StatusOf, Projections, Sources, Qry!Results
  <2>2. CASE p = Qry!Fallback(Qry!StatusOf(q), q)
    BY <1>1, <2>2 DEF Qry!Fallback, Qry!NormalizedOutcome, Qry!StatusOf, Projections, Sources, Qry!Results
  <2>3. QED BY <1>2, <2>1, <2>2
<1>4. p # Qry!NoProjection BY <1>3 DEF Qry!NoProjection
<1>5. QED BY <1>3, <1>4 DEF Answers

\* An answer without a result claims nothing.
LEMMA NothingClaimed ==
    ASSUME NEW x \in Rows, NEW status \in RunStates
    PROVE  Qry!Fallback(status, "none") \in Projections /\ Answers(Qry!Fallback(status, "none"), x)
BY DEF Qry!Fallback, Qry!NormalizedOutcome, RunStates, Qry!Terminal, Projections, Sources, Answers

\* A run is inserted.
LEMMA RunCreated ==
    ASSUME QueryInv, Qry!CreateRun
    PROVE  QueryInv'
<1>1. PICK key \in 1..MaxRuns : runs' = Append(runs, Qry!NewRow(key)) BY DEF Qry!CreateRun
<1>2. UNCHANGED <<log, snapshots, reader>> /\ Qry!Ask /\ Len(runs) < MaxRuns BY DEF Qry!CreateRun
<1> DEFINE x == Qry!NewRow(key)
<1>3. x \in Rows /\ RowFits(x)
  <2>1. Qry!NoProjection \in Projections BY DEF Qry!NoProjection, Projections, Sources
  <2>2. QED BY <2>1 DEF Qry!NewRow, Rows, RunStates, Sources, RowFits
<1> HIDE DEF x
<1>4. runs \in Seq(Rows) /\ Len(runs) \in Nat /\ MaxRuns \in Nat /\ runs' = Append(runs, x)
  BY <1>1, QueryFacts DEF x
<1>5. /\ runs' \in Seq(Rows) /\ Len(runs') = Len(runs) + 1 /\ runs'[Len(runs) + 1] = x
      /\ \A i \in 1..Len(runs) : runs'[i] = runs[i]
  BY <1>3, <1>4
<1>6. \A i \in 1..Len(runs') : RowFits(runs'[i])
  <2>1. \A i \in 1..Len(runs') : i \in 1..Len(runs) \/ i = Len(runs) + 1 BY <1>4, <1>5
  <2>2. QED BY <1>3, <1>5, <2>1, QueryFacts
<1>7. \A i \in 1..Len(runs) : RowAfter(runs[i], runs'[i])
  <2>1. \A i \in 1..Len(runs) : runs[i] \in Rows BY <1>4
  <2>2. \A i \in 1..Len(runs) : runs[i].version \in Nat BY <2>1 DEF Rows
  <2>3. QED BY <1>5, <2>2 DEF RowAfter
<1>8. Len(runs') \in Len(runs)..MaxRuns BY <1>2, <1>4, <1>5
<1>9. log' \in log..MaxLog BY <1>2, QueryFacts
<1>10. QED BY <1>2, <1>5, <1>6, <1>7, <1>8, <1>9, RowsMove DEF RowsAfter

\* An event is appended to the first run, and its phase may change.
LEMMA EventAppended ==
    ASSUME QueryInv, Qry!AppendEvent
    PROVE  QueryInv'
<1> DEFINE row1 == runs[1]
<1>1. UNCHANGED <<snapshots, reader>> /\ Qry!Ask /\ log' = log + 1 /\ log < MaxLog
  BY DEF Qry!AppendEvent
<1>2. PICK phase \in {runs[1].phase, runs[1].phase + 1} :
         runs' = [runs EXCEPT ![1] = [@ EXCEPT !.phase = phase, !.version = Qry!Bump(runs[1], phase)]]
  BY DEF Qry!AppendEvent
<1> DEFINE v == Qry!Bump(runs[1], phase)
           x1 == [row1 EXCEPT !.phase = phase]
           x == [x1 EXCEPT !.version = v]
<1>3. row1 \in Rows /\ RowFits(row1) /\ 1 \in 1..Len(runs) BY QueryFacts
<1>4. runs' = [runs EXCEPT ![1] = x] BY <1>2
<1>5. row1.version \in Nat /\ row1.phase \in Nat BY <1>3 DEF Rows
<1>6. phase \in Nat /\ v \in Nat /\ row1.version <= v /\ (v = row1.version => phase = row1.phase)
  BY <1>5 DEF Qry!Bump
<1> HIDE DEF v, row1
<1>7. /\ x1 \in Rows /\ x1.key = row1.key /\ x1.status = row1.status /\ x1.phase = phase
      /\ x1.result = row1.result /\ x1.projection = row1.projection
  BY <1>3, <1>6 DEF Rows
<1> HIDE DEF x1
<1>8. /\ x \in Rows /\ x.key = row1.key /\ x.status = row1.status /\ x.phase = phase
      /\ x.result = row1.result /\ x.projection = row1.projection /\ x.version = v
  BY <1>6, <1>7 DEF Rows
<1> HIDE DEF x
<1>9. RowFits(x) BY <1>3, <1>8 DEF RowFits
<1>10. RowAfter(runs[1], x) BY <1>6, <1>8 DEF RowAfter, row1
<1>11. RowsAfter BY <1>3, <1>4, <1>8, <1>9, <1>10, RowChanges
<1>12. log' \in log..MaxLog BY <1>1, QueryFacts
<1>13. QED BY <1>1, <1>11, <1>12, RowsMove

\* A run ends.
LEMMA RunEnds ==
    ASSUME QueryInv, Qry!TransitionTerminal
    PROVE  QueryInv'
<1>1. UNCHANGED <<log, snapshots, reader>> /\ Qry!Ask BY DEF Qry!TransitionTerminal
<1>2. PICK i \in 1..Len(runs), result \in Qry!Results :
         /\ runs[i].status \notin Qry!Terminal
         /\ runs' = [runs EXCEPT ![i] = [@ EXCEPT !.status = Qry!StatusOf(result), !.result = result,
                         !.projection = Qry!NoProjection, !.version = runs[i].version + 1]]
  BY DEF Qry!TransitionTerminal
<1> DEFINE old == runs[i]
           status == Qry!StatusOf(result)
           none == Qry!NoProjection
           v == old.version + 1
           x1 == [old EXCEPT !.status = status]
           x2 == [x1 EXCEPT !.result = result]
           x3 == [x2 EXCEPT !.projection = none]
           x == [x3 EXCEPT !.version = v]
<1>3. old \in Rows /\ RowFits(old) BY QueryFacts
<1>4. runs' = [runs EXCEPT ![i] = x] BY <1>2
<1>5. old.version \in Nat /\ v \in Nat /\ old.version < v BY <1>3 DEF Rows
<1>6. status \in {"completed", "failed"} /\ status \in RunStates
  BY DEF Qry!StatusOf, RunStates, Qry!Terminal
<1>7. none \in Projections BY DEF Qry!NoProjection, Projections, Sources
<1>8. result \in Sources /\ result # "none" BY DEF Qry!Results, Sources
<1>9. old.status = "running" /\ old.result = "none" BY <1>2, <1>3 DEF Rows, RunStates, RowFits
<1> HIDE DEF v, old, none
<1>10. x1 \in Rows /\ x1.key = old.key /\ x1.status = status BY <1>3, <1>6 DEF Rows
<1> HIDE DEF x1
<1>11. x2 \in Rows /\ x2.key = old.key /\ x2.status = status /\ x2.result = result
  BY <1>8, <1>10 DEF Rows
<1> HIDE DEF x2
<1>12. /\ x3 \in Rows /\ x3.key = old.key /\ x3.status = status /\ x3.result = result
       /\ x3.projection = none
  BY <1>7, <1>11 DEF Rows
<1> HIDE DEF x3
<1>13. /\ x \in Rows /\ x.key = old.key /\ x.status = status /\ x.result = result
       /\ x.projection = none /\ x.version = v
  BY <1>5, <1>12 DEF Rows
<1> HIDE DEF x
<1>14. RowFits(x) BY <1>6, <1>8, <1>13 DEF RowFits, none
<1>15. RowAfter(runs[i], x) BY <1>5, <1>6, <1>9, <1>13 DEF RowAfter, old
<1>16. RowsAfter BY <1>4, <1>13, <1>14, <1>15, RowChanges
<1>17. log' \in log..MaxLog BY <1>1, QueryFacts
<1>18. QED BY <1>1, <1>16, <1>17, RowsMove

\* A projection of the first row's result stored in it.
LEMMA ProjectionStored ==
    ASSUME QueryInv, runs[1].status \in Qry!Terminal, NEW p \in Qry!ProjectionPayload(runs[1].result),
           runs' = [runs EXCEPT ![1] = [@ EXCEPT !.projection = p, !.version = runs[1].version + 1]]
    PROVE  RowsAfter /\ Answers(p, runs'[1])
<1> DEFINE old == runs[1]
           v == old.version + 1
           x1 == [old EXCEPT !.projection = p]
           x == [x1 EXCEPT !.version = v]
<1>1. old \in Rows /\ RowFits(old) /\ 1 \in 1..Len(runs) BY QueryFacts
<1>2. runs' = [runs EXCEPT ![1] = x]
  OBVIOUS
<1>3. old.version \in Nat /\ v \in Nat /\ old.version < v BY <1>1 DEF Rows
<1>4. old.result # "none" BY <1>1 DEF RowFits, Qry!Terminal
<1>5. p \in Projections /\ Answers(p, old) BY <1>1, <1>4, PayloadAnswers
<1> HIDE DEF v
<1>6. /\ x1 \in Rows /\ x1.key = old.key /\ x1.status = old.status /\ x1.phase = old.phase
      /\ x1.result = old.result /\ x1.projection = p
  BY <1>1, <1>5 DEF Rows
<1> HIDE DEF x1
<1>7. /\ x \in Rows /\ x.key = old.key /\ x.status = old.status /\ x.phase = old.phase
      /\ x.result = old.result /\ x.projection = p /\ x.version = v
  BY <1>3, <1>6 DEF Rows
<1> HIDE DEF x
<1>8. RowFits(x) BY <1>1, <1>4, <1>7 DEF RowFits
<1>9. RowAfter(runs[1], x) BY <1>3, <1>7 DEF RowAfter
<1>10. Answers(p, x) BY <1>5, <1>7 DEF Answers
<1>11. QED BY <1>1, <1>2, <1>7, <1>8, <1>9, <1>10, RowChanges

\* A result is published.
LEMMA ResultPublished ==
    ASSUME QueryInv, Qry!PublishRunResult
    PROVE  QueryInv'
<1>1. UNCHANGED <<log, snapshots, reader>> /\ Qry!Ask /\ runs[1].status \in Qry!Terminal
  BY DEF Qry!PublishRunResult
<1>2. PICK p \in Qry!ProjectionPayload(runs[1].result) :
         runs' = [runs EXCEPT ![1] = [@ EXCEPT !.projection = p, !.version = runs[1].version + 1]]
  BY DEF Qry!PublishRunResult
<1>3. RowsAfter BY <1>1, <1>2, ProjectionStored
<1>4. log' \in log..MaxLog BY <1>1, QueryFacts
<1>5. QED BY <1>1, <1>3, <1>4, RowsMove

\* The control state is polled.
LEMMA StatusPolled ==
    ASSUME QueryInv, NEW c \in Callers,
           Qry!GetControlStatus(c) \/ Qry!PollAgain(c) \/ Qry!LifecycleObservation(c)
    PROVE  QueryInv'
<1>1. /\ UNCHANGED <<runs, log, snapshots>> /\ (asks' = asks \/ Qry!Ask)
      /\ reader \in [Callers -> ReaderRecs] /\ reader[c] \in ReaderRecs
      /\ snapshots \in [Callers -> Snapshots]
  BY QueryFacts DEF Qry!GetControlStatus, Qry!PollAgain, Qry!LifecycleObservation, Qry!Question
<1>2. CASE Qry!GetControlStatus(c) \/ Qry!PollAgain(c)
  <2>1. PICK pc \in {"observe", "unchanged"} : reader' = [reader EXCEPT ![c].pc = pc]
    BY <1>2 DEF Qry!GetControlStatus, Qry!PollAgain
  <2> DEFINE d == [reader[c] EXCEPT !.pc = pc]
  <2>2. reader' = [reader EXCEPT ![c] = d] BY <1>1, <2>1
  <2>3. d \in ReaderRecs /\ d.pc = pc /\ d.copy = reader[c].copy BY <1>1 DEF ReaderRecs, ReaderPcs
  <2> HIDE DEF d
  <2>4. ListFits(d, runs) /\ EventsFit(d, log) /\ ChunksFit(d, snapshots[c])
    BY <2>3 DEF ListFits, EventsFit, ChunksFit
  <2>5. AnswerFits(d, runs[1]) BY <2>3, CopyKept DEF QueryInv
  <2>6. QED BY <1>1, <2>2, <2>3, <2>4, <2>5, ReaderMoves
<1>3. CASE Qry!LifecycleObservation(c)
  <2> DEFINE seen == [version |-> runs[1].version, status |-> runs[1].status, phase |-> runs[1].phase]
             d1 == [reader[c] EXCEPT !.pc = "polled"]
             d == [d1 EXCEPT !.copy = seen]
  <2>1. reader' = [reader EXCEPT ![c] = d] BY <1>1, <1>3 DEF Qry!LifecycleObservation
  <2>2. runs[1] \in Rows /\ runs[1].version \in Nat BY QueryFacts DEF Rows
  <2>3. /\ seen \in Copies /\ seen.version = runs[1].version /\ seen.status = runs[1].status
        /\ seen.phase = runs[1].phase
    BY <2>2 DEF Rows, Copies
  <2> HIDE DEF seen
  <2>4. d1 \in ReaderRecs /\ d1.pc = "polled" BY <1>1 DEF ReaderRecs, ReaderPcs
  <2> HIDE DEF d1
  <2>5. d \in ReaderRecs /\ d.pc = "polled" /\ d.copy = seen BY <2>3, <2>4 DEF ReaderRecs
  <2> HIDE DEF d
  <2>6. ListFits(d, runs) /\ EventsFit(d, log) /\ ChunksFit(d, snapshots[c])
    BY <2>5 DEF ListFits, EventsFit, ChunksFit
  <2>7. AnswerFits(d, runs[1]) BY <2>2, <2>3, <2>5 DEF AnswerFits
  <2>8. QED BY <1>1, <2>1, <2>5, <2>6, <2>7, ReaderMoves
<1>4. QED BY <1>2, <1>3

\* What a reader was told.
Given(e, pc, p) == [[e EXCEPT !.pc = pc] EXCEPT !.told = p]

\* A reader goes on to an answer, or to making one.
LEMMA AnswerGiven ==
    ASSUME NEW e \in ReaderRecs, NEW x \in Rows,
           NEW pc \in {"source", "record", "retry", "told"}, NEW p \in Projections
    PROVE  /\ Given(e, pc, p) \in ReaderRecs /\ Given(e, pc, p).pc = pc
           /\ Given(e, pc, p).told = p /\ Given(e, pc, p).copy = e.copy
<1> DEFINE d == Given(e, pc, p)
           d1 == [e EXCEPT !.pc = pc]
           d2 == [d1 EXCEPT !.told = p]
<1>1. d1 \in ReaderRecs /\ d1.pc = pc /\ d1.copy = e.copy BY DEF ReaderRecs, ReaderPcs
<1> HIDE DEF d1
<1>2. d2 \in ReaderRecs /\ d2.pc = pc /\ d2.copy = e.copy /\ d2.told = p BY <1>1 DEF ReaderRecs
<1>3. d = d2 BY DEF d1, Given
<1> HIDE DEF d, d2
<1>4. d \in ReaderRecs /\ d.pc = pc /\ d.told = p /\ d.copy = e.copy BY <1>2, <1>3
<1>5. QED BY <1>4 DEF d

\* The answer of a terminal row with a stored projection, or of one that has not ended.
LEMMA ResultAsked ==
    ASSUME QueryInv, NEW c \in Callers, Qry!GetTerminalResult(c)
    PROVE  QueryInv'
<1> DEFINE x == runs[1]
           pc == IF x.status \in Qry!Terminal /\ x.projection = Qry!NoProjection THEN "source" ELSE "told"
           p == IF x.status \notin Qry!Terminal THEN Qry!Pending ELSE x.projection
           d == Given(reader[c], pc, p)
<1>1. /\ UNCHANGED <<runs, log, snapshots>> /\ Qry!Ask
      /\ reader \in [Callers -> ReaderRecs] /\ reader[c] \in ReaderRecs
      /\ snapshots \in [Callers -> Snapshots] /\ x \in Rows /\ RowFits(x)
  BY QueryFacts DEF Qry!GetTerminalResult, Qry!Question
<1>2. reader' = [reader EXCEPT ![c] = d] BY <1>1 DEF Qry!GetTerminalResult, Given
<1>3. p \in Projections
  <2>1. x.projection \in Projections BY <1>1 DEF Rows
  <2>2. Qry!Pending \in Projections BY <1>1, NothingClaimed DEF Qry!Pending, RunStates
  <2>3. QED BY <2>1, <2>2
<1>4. pc \in {"source", "told"} /\ (pc = "source" => x.status \in Qry!Terminal)
  OBVIOUS
<1>5. pc = "told" => Answers(p, x)
  <2>1. CASE x.status \notin Qry!Terminal BY <1>1, <2>1, NothingClaimed DEF Qry!Pending, RunStates
  <2>2. CASE x.status \in Qry!Terminal /\ x.projection # Qry!NoProjection
    <3>1. x.result # "none" /\ x.projection \in Qry!ProjectionPayload(x.result)
      BY <1>1, <2>2 DEF RowFits
    <3>2. Answers(x.projection, x) BY <1>1, <3>1, PayloadAnswers
    <3>3. QED BY <2>2, <3>2
  <2>3. QED BY <2>1, <2>2
<1> HIDE DEF x, pc, p
<1>6. /\ d \in ReaderRecs /\ d.pc = pc /\ d.told = p /\ d.copy = reader[c].copy
      /\ ListFits(d, runs) /\ EventsFit(d, log) /\ ChunksFit(d, snapshots[c])
  <2>1. pc \in {"source", "record", "retry", "told"} BY <1>4
  <2>2. /\ d \in ReaderRecs /\ d.pc = pc /\ d.told = p /\ d.copy = reader[c].copy
    BY <1>1, <1>3, <2>1, AnswerGiven
  <2> HIDE DEF d
  <2>3. ListFits(d, runs) /\ EventsFit(d, log) /\ ChunksFit(d, snapshots[c])
    BY <1>4, <2>2 DEF ListFits, EventsFit, ChunksFit
  <2>4. QED BY <2>2, <2>3
<1> HIDE DEF d
<1>7. AnswerFits(d, runs[1])
  <2>1. AnswerFits(reader[c], x) BY DEF QueryInv, x
  <2>2. AnswerFits(d, x) BY <1>4, <1>5, <1>6, <2>1 DEF AnswerFits
  <2>3. QED BY <2>2 DEF x
<1>8. QED BY <1>1, <1>2, <1>6, <1>7, ReaderMoves

\* The result is read, to store its projection, or a projection of it is there already.
LEMMA SourceRead ==
    ASSUME QueryInv, NEW c \in Callers, Qry!ResultSource(c)
    PROVE  QueryInv'
<1> DEFINE x == runs[1]
           there == Qry!ProjectionMatches(x.result)
           pc == IF there THEN "told" ELSE "record"
<1>1. /\ UNCHANGED <<runs, log, snapshots, asks>> /\ reader[c].pc = "source"
      /\ reader \in [Callers -> ReaderRecs] /\ reader[c] \in ReaderRecs
      /\ snapshots \in [Callers -> Snapshots] /\ x \in Rows /\ RowFits(x)
  BY QueryFacts DEF Qry!ResultSource, Qry!At
<1>2. PICK payload \in Qry!ProjectionPayload(x.result) :
         reader' = [reader EXCEPT ![c] = [@ EXCEPT !.pc = pc,
                      !.told = IF there THEN x.projection ELSE payload, !.version = x.version]]
  BY DEF Qry!ResultSource
<1> DEFINE p == IF there THEN x.projection ELSE payload
           d2 == Given(reader[c], pc, p)
           d == [d2 EXCEPT !.version = x.version]
<1>3. reader' = [reader EXCEPT ![c] = d] BY <1>1, <1>2 DEF Given
<1>4. AnswerFits(reader[c], x) BY DEF QueryInv
<1>5. x.status \in Qry!Terminal /\ x.result # "none" /\ x.version \in Int
  BY <1>1, <1>4 DEF AnswerFits, RowFits, Qry!Terminal, Rows
<1>6. payload \in Projections /\ Answers(payload, x) BY <1>1, <1>5, PayloadAnswers
<1>7. there => x.projection \in Qry!ProjectionPayload(x.result)
  <2>1. there => x.projection # Qry!NoProjection BY <1>5 DEF Qry!ProjectionMatches, Qry!NoProjection
  <2>2. QED BY <1>1, <2>1 DEF RowFits
<1>8. there => x.projection \in Projections /\ Answers(x.projection, x)
  BY <1>1, <1>5, <1>7, PayloadAnswers
<1>9. /\ p \in Projections /\ Answers(p, x) /\ p \in Qry!ProjectionPayload(x.result)
      /\ pc \in {"told", "record"}
  BY <1>2, <1>6, <1>7, <1>8
<1> HIDE DEF p, pc, x, there
<1>10. /\ d2 \in ReaderRecs /\ d2.pc = pc /\ d2.told = p /\ d2.copy = reader[c].copy
  BY <1>1, <1>9, AnswerGiven
<1> HIDE DEF d2
<1>11. d \in ReaderRecs /\ d.pc = pc /\ d.told = p /\ d.copy = reader[c].copy
  BY <1>5, <1>10 DEF ReaderRecs
<1> HIDE DEF d
<1>12. ListFits(d, runs) /\ EventsFit(d, log) /\ ChunksFit(d, snapshots[c])
  BY <1>9, <1>11 DEF ListFits, EventsFit, ChunksFit
<1>13. AnswerFits(d, runs[1])
  <2>1. AnswerFits(d, x) BY <1>4, <1>5, <1>9, <1>11 DEF AnswerFits
  <2>2. QED BY <2>1 DEF x
<1>14. QED BY <1>1, <1>3, <1>11, <1>12, <1>13, ReaderMoves

\* The projection made is stored in the row as it was read.
LEMMA ProjectionRecorded ==
    ASSUME QueryInv, NEW c \in Callers, Qry!MaterializePublicResult(c),
           runs[1].version = reader[c].version
    PROVE  QueryInv'
<1> DEFINE p == reader[c].told
           d == [reader[c] EXCEPT !.pc = "told"]
<1>1. /\ UNCHANGED <<log, snapshots, asks>> /\ reader[c].pc \in {"record", "retry"}
      /\ reader \in [Callers -> ReaderRecs] /\ reader[c] \in ReaderRecs
      /\ snapshots \in [Callers -> Snapshots]
  BY QueryFacts DEF Qry!MaterializePublicResult
<1>2. /\ runs' = [runs EXCEPT ![1] = [@ EXCEPT !.projection = p, !.version = runs[1].version + 1]]
      /\ reader' = [reader EXCEPT ![c].pc = "told"]
  BY DEF Qry!MaterializePublicResult
<1>3. runs[1].status \in Qry!Terminal /\ p \in Qry!ProjectionPayload(runs[1].result)
  BY <1>1 DEF QueryInv, AnswerFits
<1>4. RowsAfter /\ Answers(p, runs'[1]) BY <1>2, <1>3, ProjectionStored
<1>5. \A b \in Callers : ListFits(reader[b], runs') /\ AnswerFits(reader[b], runs'[1])
  BY <1>4, RowsAdvance
<1>6. reader' = [reader EXCEPT ![c] = d] BY <1>1, <1>2
<1>7. d \in ReaderRecs /\ d.pc = "told" /\ d.told = p /\ d.copy = reader[c].copy
  BY <1>1 DEF ReaderRecs, ReaderPcs
<1> HIDE DEF d, p
<1>8. ListFits(d, runs') /\ EventsFit(d, log) /\ ChunksFit(d, snapshots[c])
  BY <1>7 DEF ListFits, EventsFit, ChunksFit
<1>9. AnswerFits(d, runs'[1])
  <2>1. AnswerFits(reader[c], runs'[1]) BY <1>5
  <2>2. QED BY <1>4, <1>7, <2>1 DEF AnswerFits
<1>10. /\ reader' \in [Callers -> ReaderRecs] /\ reader'[c] = d
       /\ \A b \in Callers \ {c} : reader'[b] = reader[b]
  BY <1>1, <1>6, <1>7
<1>11. QueryTypes'
  <2>1. Len(runs') \in 2..MaxRuns BY <1>4, QueryFacts DEF RowsAfter
  <2>2. QED BY <1>1, <1>4, <1>10, <2>1, QueryFacts DEF RowsAfter, QueryTypes
<1>12. \A b \in Callers : /\ ListFits(reader'[b], runs') /\ EventsFit(reader'[b], log)
                          /\ ChunksFit(reader'[b], snapshots[b]) /\ AnswerFits(reader'[b], runs'[1])
  <2> SUFFICES ASSUME NEW b \in Callers
               PROVE  /\ ListFits(reader'[b], runs') /\ EventsFit(reader'[b], log)
                      /\ ChunksFit(reader'[b], snapshots[b]) /\ AnswerFits(reader'[b], runs'[1])
    OBVIOUS
  <2>1. CASE b = c BY <1>8, <1>9, <1>10, <2>1
  <2>2. CASE b # c
    <3>1. EventsFit(reader[b], log) /\ ChunksFit(reader[b], snapshots[b]) BY DEF QueryInv
    <3>2. QED BY <1>5, <1>10, <2>2, <3>1
  <2>3. QED BY <2>1, <2>2
<1>13. QED BY <1>1, <1>4, <1>11, <1>12 DEF QueryInv, RowsAfter

\* Another writer was first: its projection of the result, one more try, or the fallback.
LEMMA ProjectionLost ==
    ASSUME QueryInv, NEW c \in Callers, Qry!MaterializePublicResult(c),
           runs[1].version # reader[c].version
    PROVE  QueryInv'
<1> DEFINE x == runs[1]
           payload == reader[c].told
           there == Qry!ProjectionMatches(payload.source)
           last == reader[c].pc = "retry"
           pc == IF there \/ last THEN "told" ELSE "retry"
           p == IF there THEN x.projection ELSE IF last THEN Qry!Fallback(x.status, "none") ELSE payload
           d2 == Given(reader[c], pc, p)
           d == [d2 EXCEPT !.version = x.version]
<1>1. /\ UNCHANGED <<runs, log, snapshots, asks>> /\ reader[c].pc \in {"record", "retry"}
      /\ reader \in [Callers -> ReaderRecs] /\ reader[c] \in ReaderRecs
      /\ snapshots \in [Callers -> Snapshots] /\ x \in Rows /\ RowFits(x)
  BY QueryFacts DEF Qry!MaterializePublicResult
<1>2. reader' = [reader EXCEPT ![c] = d] BY <1>1 DEF Qry!MaterializePublicResult, Qry!At, Given
<1>3. AnswerFits(reader[c], x) BY DEF QueryInv
<1>4. /\ x.status \in Qry!Terminal /\ x.status \in RunStates /\ x.result # "none" /\ x.version \in Int
      /\ payload \in Qry!ProjectionPayload(x.result)
  BY <1>1, <1>3 DEF AnswerFits, RowFits, Qry!Terminal, Rows, RunStates
<1>5. payload \in Projections /\ payload.source = x.result BY <1>1, <1>4, PayloadAnswers
<1>6. there => x.projection \in Qry!ProjectionPayload(x.result)
  <2>1. there => x.projection # Qry!NoProjection
    BY <1>4, <1>5 DEF Qry!ProjectionMatches, Qry!NoProjection
  <2>2. QED BY <1>1, <2>1 DEF RowFits
<1>7. there => x.projection \in Projections /\ Answers(x.projection, x)
  BY <1>1, <1>4, <1>6, PayloadAnswers
<1>8. Qry!Fallback(x.status, "none") \in Projections /\ Answers(Qry!Fallback(x.status, "none"), x)
  BY <1>1, <1>4, NothingClaimed
<1>9. /\ p \in Projections /\ pc \in {"told", "retry"}
      /\ pc = "told" => Answers(p, x)
      /\ pc = "retry" => p \in Qry!ProjectionPayload(x.result)
  BY <1>4, <1>5, <1>7, <1>8
<1> HIDE DEF p, pc, x, there, last, payload
<1>10. /\ d2 \in ReaderRecs /\ d2.pc = pc /\ d2.told = p /\ d2.copy = reader[c].copy
  BY <1>1, <1>9, AnswerGiven
<1> HIDE DEF d2
<1>11. d \in ReaderRecs /\ d.pc = pc /\ d.told = p /\ d.copy = reader[c].copy
  BY <1>4, <1>10 DEF ReaderRecs
<1> HIDE DEF d
<1>12. ListFits(d, runs) /\ EventsFit(d, log) /\ ChunksFit(d, snapshots[c])
  BY <1>9, <1>11 DEF ListFits, EventsFit, ChunksFit
<1>13. AnswerFits(d, runs[1])
  <2>1. AnswerFits(d, x) BY <1>3, <1>4, <1>9, <1>11 DEF AnswerFits
  <2>2. QED BY <2>1 DEF x
<1>14. QED BY <1>1, <1>2, <1>11, <1>12, <1>13, ReaderMoves

\* Every step of the store and of the readers keeps the invariant.
LEMMA QueryStep ==
    ASSUME QueryInv, Qry!Next
    PROVE  QueryInv'
<1>1. CASE Qry!CreateRun \/ Qry!AppendEvent \/ Qry!TransitionTerminal \/ Qry!PublishRunResult
           \/ Qry!PruneSnapshots
  BY <1>1, RunCreated, EventAppended, RunEnds, ResultPublished, SnapshotsPruned
<1>2. ASSUME NEW c \in Callers,
             \/ Qry!ListRunSummaries(c) \/ Qry!ListMore(c) \/ Qry!GetEventPage(c) \/ Qry!MoreEvents(c)
             \/ Qry!ChunkPayload(c) \/ Qry!ReadSnapshotChunk(c)
             \/ Qry!GetControlStatus(c) \/ Qry!PollAgain(c) \/ Qry!LifecycleObservation(c)
             \/ Qry!GetTerminalResult(c) \/ Qry!ResultSource(c) \/ Qry!MaterializePublicResult(c)
             \/ Qry!Rest(c)
      PROVE  QueryInv'
  BY <1>2, SummariesListed, EventsRead, PayloadChunked, ChunkRead, StatusPolled, ResultAsked,
     SourceRead, ProjectionRecorded, ProjectionLost, ReaderTurns
<1>3. QED BY <1>1, <1>2 DEF Qry!Next

\* Two runs, one event, and readers that have asked nothing.
LEMMA QueryInit ==
    ASSUME Qry!Init
    PROVE  QueryInv
<1>1. PICK f \in [1..2 -> 1..MaxRuns] : runs = <<Qry!NewRow(f[1]), Qry!NewRow(f[2])>>
  BY DEF Qry!Init
<1>2. \A key \in 1..MaxRuns : Qry!NewRow(key) \in Rows /\ RowFits(Qry!NewRow(key))
  <2>1. Qry!NoProjection \in Projections BY DEF Qry!NoProjection, Projections, Sources
  <2>2. QED BY <2>1 DEF Qry!NewRow, Rows, RunStates, Sources, RowFits
<1>3. Qry!NewRow(f[1]) \in Rows /\ Qry!NewRow(f[2]) \in Rows BY <1>2
<1>4. runs \in Seq(Rows) /\ Len(runs) = 2 /\ runs[1] = Qry!NewRow(f[1]) /\ runs[2] = Qry!NewRow(f[2])
  BY <1>1, <1>3
<1>5. \A i \in 1..Len(runs) : RowFits(runs[i])
  <2>1. \A i \in 1..Len(runs) : i = 1 \/ i = 2 BY <1>4
  <2>2. QED BY <1>2, <1>4, <2>1
<1>6. /\ reader = [c \in Callers |-> Qry!Resting] /\ snapshots = [c \in Callers |-> Qry!NoSnapshot]
      /\ log = 1 /\ asks = 0
  BY DEF Qry!Init
<1>7. /\ Qry!Resting \in ReaderRecs /\ Qry!NoSnapshot \in Snapshots
  <2>1. Qry!NoProjection \in Projections BY DEF Qry!NoProjection, Projections, Sources
  <2>2. Qry!Resting.copy \in Copies BY DEF Qry!Resting, Copies
  <2>3. <<>> \in Seq(Nat) /\ <<>> \in Seq(RunStates)
    OBVIOUS
  <2>4. QED BY <2>1, <2>2, <2>3 DEF Qry!Resting, ReaderRecs, ReaderPcs, Qry!NoSnapshot, Snapshots
<1>8. QueryTypes
  <2>1. Len(runs) \in 2..MaxRuns /\ log \in 1..MaxLog /\ asks \in 0..MaxAsks
    BY <1>4, <1>6, ServiceConstants DEF Qry!QueryConstants
  <2>2. QED BY <1>4, <1>6, <1>7, <2>1 DEF QueryTypes
<1>9. \A n, s, rs : /\ ListFits(Qry!Resting, rs) /\ EventsFit(Qry!Resting, n)
                    /\ ChunksFit(Qry!Resting, s)
  BY DEF Qry!Resting, ListFits, EventsFit, ChunksFit
<1>10. AnswerFits(Qry!Resting, runs[1])
  <2>1. runs[1].version = 0 BY <1>4 DEF Qry!NewRow
  <2>2. QED BY <2>1 DEF Qry!Resting, AnswerFits
<1>11. QED BY <1>5, <1>6, <1>8, <1>9, <1>10 DEF QueryInv

\* A step that leaves the store and the readers alone.
LEMMA QueryStutters ==
    ASSUME QueryInv, UNCHANGED queryState
    PROVE  QueryInv'
BY DEF queryState, QueryInv, QueryTypes

\* The invariant says what was checked.
LEMMA QueryFollows ==
    ASSUME QueryInv
    PROVE  Qry!PagesExact /\ Qry!AnswersTrue
<1>1. Qry!TypeOK
  <2>1. \A i \in 1..Len(runs) : /\ runs[i].status \in {"running"} \union Qry!Terminal
                                /\ runs[i].result \in {"none"} \union Qry!Results
                                /\ runs[i].projection.source \in {"none"} \union Qry!Results
    BY QueryFacts DEF Rows, RunStates, Sources, Projections
  <2>2. QED BY <2>1, QueryFacts DEF Qry!TypeOK
<1>2. ASSUME NEW c \in Callers, reader[c].pc = "listed"
      PROVE  LET d == reader[c]  n == Len(d.got) IN
             /\ \A m \in 1..(n - 1) : d.got[m] > d.got[m + 1]
             /\ ~d.more => \A i \in 1..d.watermark :
                   Qry!Matches(runs[i], d.filter) => \E m \in 1..n : d.got[m] = runs[i].key
             /\ \A m \in 1..n : \E i \in 1..d.watermark : runs[i].key = d.got[m]
  <2> DEFINE d == reader[c]
  <2>1. PICK key \in Nat : /\ PageFits(runs, d.watermark, d.filter, key, d.got)
                           /\ IF d.more THEN key = d.after ELSE key = 0
    BY <1>2 DEF QueryInv, ListFits
  <2>2. d \in ReaderRecs BY QueryFacts
  <2>3. d.got \in Seq(Nat) /\ Len(d.got) \in Nat BY <2>2 DEF ReaderRecs
  <2>4. \A m \in 1..(Len(d.got) - 1) : d.got[m] > d.got[m + 1]
    <3>1. \A m \in 1..(Len(d.got) - 1) : m \in 1..Len(d.got) /\ m + 1 \in 1..Len(d.got) /\ m < m + 1
      BY <2>3
    <3>2. QED BY <2>1, <3>1 DEF PageFits
  <2>5. ~d.more => \A i \in 1..d.watermark :
           Qry!Matches(runs[i], d.filter) => \E m \in 1..Len(d.got) : d.got[m] = runs[i].key
    <3> SUFFICES ASSUME ~d.more, NEW i \in 1..d.watermark, Qry!Matches(runs[i], d.filter)
                 PROVE  \E m \in 1..Len(d.got) : d.got[m] = runs[i].key
      OBVIOUS
    <3>1. runs[i].key < 0 \/ \E m \in 1..Len(d.got) : d.got[m] = runs[i].key BY <2>1 DEF PageFits
    <3>2. i \in 1..Len(runs) BY <2>1, QueryFacts DEF PageFits
    <3>3. runs[i] \in Rows BY <3>2, QueryFacts
    <3>4. runs[i].key \in 1..MaxRuns /\ MaxRuns \in Nat BY <3>3, QueryFacts DEF Rows
    <3>5. ~(runs[i].key < 0) BY <3>4
    <3>6. QED BY <3>1, <3>5
  <2>6. \A m \in 1..Len(d.got) : \E i \in 1..d.watermark : runs[i].key = d.got[m]
    BY <2>1 DEF PageFits
  <2>7. QED BY <2>4, <2>5, <2>6
<1>3. ASSUME NEW c \in Callers, reader[c].pc = "events"
      PROVE  reader[c].got = [m \in 1..Len(reader[c].got) |-> reader[c].start + m]
  <2> DEFINE got == reader[c].got
  <2>1. reader[c] \in ReaderRecs BY QueryFacts
  <2>2. got \in Seq(Nat) BY <2>1 DEF ReaderRecs
  <2>3. \A m \in 1..Len(got) : got[m] = reader[c].start + m BY <1>3 DEF QueryInv, EventsFit
  <2>4. got = [m \in 1..Len(got) |-> got[m]] BY <2>2
  <2> HIDE DEF got
  <2>5. got = [m \in 1..Len(got) |-> reader[c].start + m] BY <2>3, <2>4
  <2>6. QED BY <2>5 DEF got
<1>4. ASSUME NEW c \in Callers, reader[c].pc = "whole"
      PROVE  /\ Len(reader[c].parts) = reader[c].total
             /\ \A m \in 1..Len(reader[c].parts) : reader[c].parts[m] = reader[c].parts[1]
  BY <1>4 DEF QueryInv, ChunksFit
<1>5. Qry!PagesExact BY <1>1, <1>2, <1>3, <1>4 DEF Qry!PagesExact, Qry!At
<1>6. Qry!AnswersTrue BY DEF Qry!AnswersTrue, Qry!At, QueryInv, AnswerFits, Answers
<1>7. QED BY <1>5, <1>6

\* Pages and chunks put together are exact, and polls and terminal results tell the truth
\* (run_store.py, run_query_chunks.py, job_manager.py).
THEOREM QueryAnswersStayTrue == Spec => []QueryAnswersTrue
<1>1. Init => QueryInv BY QueryInit DEF Init
<1>2. QueryInv /\ [Next]_vars => QueryInv' BY QueryStep, QueryStutters DEF Next, vars
<1>3. QueryInv => QueryAnswersTrue BY QueryFollows DEF QueryAnswersTrue
<1>4. QED BY <1>1, <1>2, <1>3, PTL DEF Spec

----
(* The supervisor (Supervisors).                                            *)

SupervisorPcs == {"idle", "tick", "queued", "planning", "implementing", "pause", "resume",
                  "cancel", "swap", "announce"}
Notes == {"none", "hard_stop", "handoff"} \union Sup!Terminal
ClientRecs == [pc: SupervisorPcs, read: Sup!Rows, write: Sup!Rows, note: Notes]

\* The child may still be at work.
LiveChild(ch) == ch \in Sup!ActiveChild \union {"cancellation_pending"}

\* What a final status says of the child.
Truthful(status, ch) ==
    /\ status = "cancelled" => ~LiveChild(ch)
    /\ status = "completed" => ch = "completed"
    /\ status = "failed" => ch = "failed"

\* A row of a child at work names it, and is neither queued nor to be queued again.
NamesChild(r) == r.child # "none" /\ r.status # "queued" /\ r.pausedFrom # "queued"

SupRowFits(r, ch) ==
    /\ r.status = "none" => r.version = 0
    /\ LiveChild(ch) => NamesChild(r) /\ r.status # "none"
    /\ r.status = "paused" => r.pausedFrom # "none"
    /\ r.status \in {"planning", "implementing"} => r.child # "none"
    /\ Truthful(r.status, ch)

\* What a caller has read, and what it is about to write.
ClientFits(x, ch) ==
    /\ x.pc # "idle" /\ LiveChild(ch) => NamesChild(x.read)
    /\ x.pc \in {"queued", "planning", "implementing"} => x.read.status = x.pc
    /\ x.pc = "pause" => x.read.status \in {"queued", "needs_input"}
    /\ x.pc = "resume" => x.read.pausedFrom \in {"queued", "needs_input"}
    /\ x.pc \in {"cancel", "swap"} => x.read.status \notin Sup!Terminal
    /\ x.pc = "swap" =>
          /\ x.write.status \in Sup!Parked \union Sup!Terminal
          /\ Truthful(x.write.status, ch)
          /\ LiveChild(ch) => NamesChild(x.write)

SupervisorInv ==
    /\ row \in Sup!Rows /\ child \in Sup!ChildStatuses /\ client \in [Callers -> ClientRecs]
    /\ prompt \in Sup!Statuses /\ notices \subseteq Notes \ {"none"} /\ calls \in 0..MaxCalls
    /\ SupRowFits(row, child)
    /\ \A c \in Callers : ClientFits(client[c], child)

\* A child moves on: one at work may end, one that ended stays as it ended.
MovesOn(ch, new) ==
    /\ new \in Sup!ChildStatuses
    /\ LiveChild(new) => LiveChild(ch)
    /\ ch \in {"completed", "failed"} => new = ch

\* What is true of the child stays true as it moves on.
LEMMA OnwardFits ==
    ASSUME NEW ch, NEW new, MovesOn(ch, new)
    PROVE  /\ \A r : SupRowFits(r, ch) => SupRowFits(r, new)
           /\ \A x : ClientFits(x, ch) => ClientFits(x, new)
           /\ \A s : Truthful(s, ch) => Truthful(s, new)
<1>1. \A s : Truthful(s, ch) => Truthful(s, new) BY DEF MovesOn, Truthful
<1>2. \A r : SupRowFits(r, ch) => SupRowFits(r, new) BY <1>1 DEF SupRowFits, MovesOn
<1>3. \A x : ClientFits(x, ch) => ClientFits(x, new) BY <1>1 DEF ClientFits, MovesOn
<1>4. QED BY <1>1, <1>2, <1>3

\* A step of one caller keeps the invariant if what it does to the row, the child and
\* its own record fits.
LEMMA ClientSteps ==
    ASSUME SupervisorInv, NEW c \in Callers, NEW r \in ClientRecs,
           client' = [client EXCEPT ![c] = r], ClientFits(r, child'),
           row' \in Sup!Rows, SupRowFits(row', child'), MovesOn(child, child'),
           prompt' \in Sup!Statuses, notices' \subseteq Notes \ {"none"}, calls' \in 0..MaxCalls
    PROVE  SupervisorInv'
<1>1. client' \in [Callers -> ClientRecs] /\ client'[c] = r
      /\ \A d \in Callers \ {c} : client'[d] = client[d]
  BY DEF SupervisorInv
<1>2. \A d \in Callers : ClientFits(client'[d], child')
  <2> TAKE d \in Callers
  <2>1. CASE d = c BY <1>1, <2>1
  <2>2. CASE d # c
    <3>1. ClientFits(client[d], child') BY OnwardFits DEF SupervisorInv
    <3>2. QED BY <1>1, <2>2, <3>1
  <2>3. QED BY <2>1, <2>2
<1>3. child' \in Sup!ChildStatuses BY DEF MovesOn
<1>4. QED BY <1>1, <1>2, <1>3 DEF SupervisorInv

\* What the invariant says of one caller.
LEMMA ClientFacts ==
    ASSUME SupervisorInv, NEW c \in Callers
    PROVE  /\ client[c] \in ClientRecs /\ client[c].pc \in SupervisorPcs
           /\ client[c].read \in Sup!Rows /\ client[c].write \in Sup!Rows /\ client[c].note \in Notes
           /\ ClientFits(client[c], child) /\ SupRowFits(row, child) /\ row \in Sup!Rows
           /\ child \in Sup!ChildStatuses /\ MovesOn(child, child)
           /\ prompt \in Sup!Statuses /\ notices \subseteq Notes \ {"none"}
           /\ calls \in 0..MaxCalls
<1>1. client[c] \in ClientRecs BY DEF SupervisorInv
<1>2. /\ client[c].pc \in SupervisorPcs /\ client[c].read \in Sup!Rows
      /\ client[c].write \in Sup!Rows /\ client[c].note \in Notes
  BY <1>1 DEF ClientRecs
<1>3. QED BY <1>1, <1>2 DEF SupervisorInv, MovesOn

\* A caller that has read a row goes on to swap it.
LEMMA SwapFits ==
    ASSUME SupervisorInv, NEW c \in Callers, NEW status \in Sup!Parked \union Sup!Terminal,
           NEW kind \in {"none", "plan", "implementation"}, NEW note \in Notes,
           Sup!Swap(c, status, kind, note), UNCHANGED <<row, prompt, notices, calls>>,
           MovesOn(child, child'), client[c].pc # "idle",
           client[c].read.status \notin Sup!Terminal, Truthful(status, child'),
           LiveChild(child') => kind # "none"
    PROVE  SupervisorInv'
<1> DEFINE w == [client[c].read EXCEPT !.status = status, !.child = kind]
           r == [client[c] EXCEPT !.pc = "swap", !.note = note, !.write = w]
<1>1. w \in Sup!Rows /\ w.status = status /\ w.child = kind
      /\ w.pausedFrom = client[c].read.pausedFrom
  BY ClientFacts DEF Sup!Rows, Sup!Statuses
<1>2. client' = [client EXCEPT ![c] = r] BY DEF Sup!Swap
<1> HIDE DEF w
<1>3. /\ r \in ClientRecs /\ r.pc = "swap" /\ r.read = client[c].read /\ r.write = w
  BY <1>1, ClientFacts DEF ClientRecs, SupervisorPcs
<1> HIDE DEF r
<1>4. LiveChild(child') => NamesChild(client[c].read) BY ClientFacts DEF MovesOn, ClientFits
<1>5. status # "queued" BY DEF Sup!Parked, Sup!Terminal
<1>6. ClientFits(r, child') BY <1>1, <1>3, <1>4, <1>5 DEF ClientFits, NamesChild
<1>7. SupRowFits(row, child') BY ClientFacts, OnwardFits
<1>8. QED BY <1>2, <1>3, <1>6, <1>7, ClientFacts, ClientSteps

\* A call is counted.
LEMMA SupervisorCalls ==
    ASSUME SupervisorInv, NEW c \in Callers, Sup!Call(c)
    PROVE  calls' \in 0..MaxCalls /\ client[c].pc = "idle"
BY ServiceConstants DEF SupervisorInv, Sup!Call, Sup!At, Sup!SupervisorConstants

\* A row is read, and the caller goes on by what it reads.
LEMMA ReadFits ==
    ASSUME SupervisorInv, NEW c \in Callers, NEW p \in SupervisorPcs \ {"swap"},
           client' = [client EXCEPT ![c].read = row, ![c].pc = p],
           UNCHANGED <<row, child, prompt, notices>>, calls' \in 0..MaxCalls,
           p \in {"queued", "planning", "implementing"} => row.status = p,
           p = "pause" => row.status \in {"queued", "needs_input"},
           p = "resume" => row.status = "paused",
           p = "cancel" => row.status \notin Sup!Terminal
    PROVE  SupervisorInv'
<1> DEFINE r == [client[c] EXCEPT !.read = row, !.pc = p]
<1>1. r \in ClientRecs /\ r.pc = p /\ r.read = row BY ClientFacts DEF ClientRecs
<1>2. client' = [client EXCEPT ![c] = r]
  OBVIOUS
<1> HIDE DEF r
<1>3. LiveChild(child) => NamesChild(row) BY ClientFacts DEF SupRowFits
<1>4. p = "resume" => row.pausedFrom \in {"queued", "needs_input"}
  BY ClientFacts DEF SupRowFits, Sup!Rows
<1>5. ClientFits(r, child) BY <1>1, <1>3, <1>4 DEF ClientFits
<1>6. QED BY <1>1, <1>2, <1>5, ClientFacts, ClientSteps

\* The caller is done, or goes on to a step that needs no more than its last.
LEMMA ReturnFits ==
    ASSUME SupervisorInv, NEW c \in Callers, Sup!Return(c),
           row' \in Sup!Rows, SupRowFits(row', child'), MovesOn(child, child'),
           prompt' \in Sup!Statuses, notices' \subseteq Notes \ {"none"}, calls' \in 0..MaxCalls
    PROVE  SupervisorInv'
<1>1. Sup!Idle \in ClientRecs /\ ClientFits(Sup!Idle, child')
  BY DEF Sup!Idle, Sup!NewRow, ClientRecs, SupervisorPcs, Sup!Rows, Sup!Statuses, Notes, ClientFits
<1>2. client' = [client EXCEPT ![c] = Sup!Idle] BY DEF Sup!Return
<1>3. QED BY <1>1, <1>2, ClientSteps

\* The child alone moves.
LEMMA ChildStep ==
    ASSUME SupervisorInv, Sup!ChildMoves
    PROVE  SupervisorInv' /\ row' = row
<1>1. MovesOn(child, child')
  BY DEF Sup!ChildMoves, MovesOn, LiveChild, Sup!ActiveChild, Sup!EndedChild, Sup!ChildStatuses
<1>2. UNCHANGED <<row, client, prompt, notices, calls>> BY DEF Sup!ChildMoves
<1>3. SupRowFits(row', child') /\ \A c \in Callers : ClientFits(client'[c], child')
  BY <1>1, <1>2, OnwardFits DEF SupervisorInv
<1>4. QED BY <1>1, <1>2, <1>3 DEF SupervisorInv, MovesOn

\* The swap of the row a caller has read, and what it announces.
LEMMA SwapStep ==
    ASSUME SupervisorInv, NEW c \in Callers, Sup!ConditionalUpdate(c) \/ Sup!Announce(c)
    PROVE  SupervisorInv' /\ Sup!EngineSwaps
<1>1. CASE Sup!ConditionalUpdate(c)
  <2>1. client[c].pc = "swap" /\ UNCHANGED <<child, prompt, notices, calls>>
    BY <1>1 DEF Sup!ConditionalUpdate, Sup!At
  <2>2. CASE ~Sup!Swaps(client[c].read)
    <3>1. Sup!Return(c) /\ row' = row BY <1>1, <2>2 DEF Sup!ConditionalUpdate
    <3>2. QED BY <2>1, <3>1, ClientFacts, ReturnFits DEF Sup!EngineSwaps
  <2>3. CASE Sup!Swaps(client[c].read)
    <3> DEFINE w == [client[c].write EXCEPT !.version = row.version + 1]
               r == [client[c] EXCEPT !.pc = "announce"]
    <3>1. row' = w /\ client' = [client EXCEPT ![c] = r]
      BY <1>1, <2>3 DEF Sup!ConditionalUpdate, Sup!Goto
    <3>2. /\ w \in Sup!Rows /\ w.version = row.version + 1 /\ w.status = client[c].write.status
          /\ w.child = client[c].write.child /\ w.pausedFrom = client[c].write.pausedFrom
      BY ClientFacts DEF Sup!Rows
    <3>3. r \in ClientRecs /\ r.pc = "announce" /\ r.read = client[c].read
      BY ClientFacts DEF ClientRecs, SupervisorPcs
    <3> HIDE DEF w, r
    <3>4. ClientFits(client[c], child) BY ClientFacts
    <3>5. /\ w.status \in Sup!Parked \union Sup!Terminal /\ Truthful(w.status, child)
          /\ LiveChild(child) => NamesChild(w)
      BY <2>1, <3>2, <3>4 DEF ClientFits, NamesChild
    <3>6. SupRowFits(w, child) BY <3>5 DEF SupRowFits, Sup!Parked, Sup!Terminal
    <3>7. ClientFits(r, child) BY <2>1, <3>3, <3>4 DEF ClientFits
    <3>8. SupervisorInv' BY <2>1, <3>1, <3>2, <3>3, <3>6, <3>7, ClientFacts, ClientSteps
    <3>9. /\ client[c].read.version = row.version /\ client[c].read.status = row.status
          /\ row.status \notin Sup!Terminal
      BY <2>1, <2>3, <3>4 DEF Sup!Swaps, ClientFits
    <3>10. Sup!EngineSwaps BY <2>1, <3>1, <3>2, <3>9 DEF Sup!EngineSwaps, Sup!At
    <3>11. QED BY <3>8, <3>10
  <2>4. QED BY <2>2, <2>3
<1>2. CASE Sup!Announce(c)
  <2>1. /\ Sup!Return(c) /\ UNCHANGED <<row, child, calls>>
        /\ prompt' = client[c].write.status /\ notices' = notices \union ({client[c].note} \ {"none"})
    BY <1>2 DEF Sup!Announce, Sup!WriteResumePrompt, Sup!CreateNotification
  <2>2. prompt' \in Sup!Statuses BY <2>1, ClientFacts DEF Sup!Rows
  <2>3. notices' \subseteq Notes \ {"none"} BY <2>1, ClientFacts
  <2>4. QED BY <2>1, <2>2, <2>3, ClientFacts, ReturnFits DEF Sup!EngineSwaps
<1>3. QED BY <1>1, <1>2

\* What the engine makes of the row it has read.
LEMMA EngineStep ==
    ASSUME SupervisorInv, NEW c \in Callers,
           \/ Sup!Tick(c) \/ Sup!GeneratePlanHandoff(c)
           \/ Sup!AdvancePlan(c) \/ Sup!AdvanceImplementation(c)
    PROVE  SupervisorInv' /\ row' = row
<1>1. UNCHANGED <<row, child, prompt, notices, calls>>
  BY DEF Sup!Tick, Sup!GeneratePlanHandoff, Sup!AdvancePlan, Sup!AdvanceImplementation, Sup!Advance
<1>2. /\ calls' \in 0..MaxCalls /\ row' \in Sup!Rows /\ SupRowFits(row', child')
      /\ MovesOn(child, child') /\ prompt' \in Sup!Statuses /\ notices' \subseteq Notes \ {"none"}
  BY <1>1, ClientFacts
<1>3. CASE Sup!Tick(c)
  <2> DEFINE p == IF row.status \in {"queued", "planning", "implementing"} THEN row.status ELSE "idle"
  <2>1. /\ p \in SupervisorPcs \ {"swap"} /\ p \notin {"pause", "resume", "cancel"}
        /\ p \in {"queued", "planning", "implementing"} => row.status = p
    BY DEF SupervisorPcs
  <2>2. client' = [client EXCEPT ![c].read = row, ![c].pc = p] BY <1>3 DEF Sup!Tick
  <2> HIDE DEF p
  <2>3. SupervisorInv' BY <1>1, <1>2, <2>1, <2>2, ReadFits
  <2>4. QED BY <1>1, <2>3
<1>4. CASE Sup!GeneratePlanHandoff(c)
  <2>1. client[c].pc = "queued" BY <1>4 DEF Sup!GeneratePlanHandoff, Sup!At
  <2>2. PICK status \in Sup!Parked, note \in Notes : Sup!Swap(c, status, "none", note)
    BY <1>4 DEF Sup!GeneratePlanHandoff, Sup!HardStop, Sup!Parked, Notes
  <2>3. ~LiveChild(child) /\ client[c].read.status \notin Sup!Terminal
    BY <2>1, ClientFacts DEF ClientFits, NamesChild, Sup!Terminal
  <2>4. Truthful(status, child) BY DEF Truthful, Sup!Parked
  <2>5. SupervisorInv' BY <1>1, <1>2, <2>1, <2>2, <2>3, <2>4, SwapFits
  <2>6. QED BY <1>1, <2>5
<1>5. ASSUME NEW s \in {"planning", "implementing"}, NEW kind, Sup!Advance(c, s, kind)
      PROVE  SupervisorInv' /\ row' = row
  <2>1. client[c].pc = s BY <1>5 DEF Sup!Advance, Sup!At
  <2>2. CASE child \in {"completed", "failed", "cancelled"}
    <3> DEFINE done == Sup!DoneStatus(kind, child)
    <3>1. done \in {"needs_input", "completed", "failed", "cancelled"}
          /\ Sup!Note(done) \in Notes /\ Truthful(done, child)
      BY <2>2 DEF Sup!DoneStatus, Sup!Note, Notes, Sup!Terminal, Truthful, LiveChild, Sup!ActiveChild
    <3>2. Sup!Swap(c, done, "none", Sup!Note(done)) BY <1>5, <2>2 DEF Sup!Advance
    <3>3. done \in Sup!Parked \union Sup!Terminal BY <3>1 DEF Sup!Parked, Sup!Terminal
    <3> HIDE DEF done
    <3>4. ~LiveChild(child) /\ client[c].read.status \notin Sup!Terminal
      BY <2>1, <2>2, ClientFacts DEF ClientFits, Sup!Terminal, LiveChild, Sup!ActiveChild
    <3>5. SupervisorInv' BY <1>1, <1>2, <2>1, <3>1, <3>2, <3>3, <3>4, SwapFits
    <3>6. QED BY <1>1, <3>5
  <2>3. CASE child \notin {"completed", "failed", "cancelled"}
    <3>1. Sup!Return(c) BY <1>5, <2>3 DEF Sup!Advance
    <3>2. QED BY <1>1, <1>2, <3>1, ReturnFits
  <2>4. QED BY <2>2, <2>3
<1>6. QED BY <1>3, <1>4, <1>5 DEF Sup!AdvancePlan, Sup!AdvanceImplementation

\* A supervisor is started, and pause, resume and cancel read its row.
LEMMA CallStep ==
    ASSUME SupervisorInv, NEW c \in Callers,
           Sup!Start(c) \/ Sup!Pause(c) \/ Sup!Resume(c) \/ Sup!Cancel(c)
    PROVE  SupervisorInv' /\ Sup!EngineSwaps
<1>1. Sup!Call(c) /\ UNCHANGED <<child, prompt, notices>>
  BY DEF Sup!Start, Sup!Pause, Sup!Resume, Sup!Cancel
<1>2. calls' \in 0..MaxCalls /\ client[c].pc = "idle" BY <1>1, SupervisorCalls
<1>3. CASE Sup!Start(c)
  <2> DEFINE r == [client[c] EXCEPT !.pc = "tick"]
             q == Sup!NewRow("queued", "none")
  <2>1. row.status = "none" /\ row' = q /\ client' = [client EXCEPT ![c] = r]
    BY <1>3 DEF Sup!Start, Sup!Goto
  <2>2. row.version = 0 /\ ~LiveChild(child) BY <2>1, ClientFacts DEF SupRowFits
  <2>3. r \in ClientRecs /\ r.pc = "tick" BY ClientFacts DEF ClientRecs, SupervisorPcs
  <2>4. ClientFits(r, child) BY <2>2, <2>3 DEF ClientFits
  <2>5. q \in Sup!Rows /\ SupRowFits(q, child) /\ q.version = 0
    BY <2>2 DEF Sup!NewRow, Sup!Rows, Sup!Statuses, SupRowFits, Truthful
  <2> HIDE DEF q, r
  <2>6. SupervisorInv' BY <1>1, <1>2, <2>1, <2>3, <2>4, <2>5, ClientFacts, ClientSteps
  <2>7. Sup!EngineSwaps BY <2>1, <2>2, <2>5 DEF Sup!EngineSwaps
  <2>8. QED BY <2>6, <2>7
<1>4. CASE Sup!Pause(c)
  <2>1. /\ row.status \in {"queued", "needs_input"} /\ row' = row
        /\ client' = [client EXCEPT ![c].read = row, ![c].pc = "pause"]
    BY <1>4 DEF Sup!Pause
  <2>2. "pause" \in SupervisorPcs \ {"swap"} BY DEF SupervisorPcs
  <2>3. SupervisorInv' BY <1>1, <1>2, <2>1, <2>2, ReadFits
  <2>4. QED BY <2>1, <2>3 DEF Sup!EngineSwaps
<1>5. CASE Sup!Resume(c)
  <2> DEFINE p == CASE row.status = "paused" -> "resume"
                    [] row.status \in {"queued", "planning", "implementing"} -> "tick"
                    [] OTHER -> "idle"
  <2>1. row' = row /\ client' = [client EXCEPT ![c].read = row, ![c].pc = p] BY <1>5 DEF Sup!Resume
  <2>2. p \in {"resume", "tick", "idle"} /\ (p = "resume" => row.status = "paused")
    OBVIOUS
  <2>3. p \in SupervisorPcs \ {"swap"} BY <2>2 DEF SupervisorPcs
  <2> HIDE DEF p
  <2>4. SupervisorInv' BY <1>1, <1>2, <2>1, <2>2, <2>3, ReadFits
  <2>5. QED BY <2>1, <2>4 DEF Sup!EngineSwaps
<1>6. CASE Sup!Cancel(c)
  <2>1. /\ row.status \notin Sup!Terminal /\ row' = row
        /\ client' = [client EXCEPT ![c].read = row, ![c].pc = "cancel"]
    BY <1>6 DEF Sup!Cancel
  <2>2. "cancel" \in SupervisorPcs \ {"swap"} BY DEF SupervisorPcs
  <2>3. SupervisorInv' BY <1>1, <1>2, <2>1, <2>2, ReadFits
  <2>4. QED BY <2>1, <2>3 DEF Sup!EngineSwaps
<1>7. QED BY <1>3, <1>4, <1>5, <1>6

\* Pause and resume write the row whatever it has become; the child is cancelled
\* before its supervisor.
LEMMA OwnerStep ==
    ASSUME SupervisorInv, NEW c \in Callers,
           Sup!PauseWrite(c) \/ Sup!ResumeWrite(c) \/ Sup!CancelChild(c)
    PROVE  SupervisorInv' /\ Sup!EngineSwaps
<1> DEFINE d == client[c].read
<1>1. /\ d \in Sup!Rows /\ ClientFits(client[c], child) /\ SupRowFits(row, child) /\ row \in Sup!Rows
  BY ClientFacts
<1>2. CASE Sup!PauseWrite(c)
  <2> DEFINE w == [row EXCEPT !.status = "paused", !.pausedFrom = d.status, !.child = d.child]
  <2>1. client[c].pc = "pause" /\ row' = w /\ Sup!Return(c) /\ UNCHANGED <<child, prompt, notices, calls>>
    BY <1>2 DEF Sup!PauseWrite, Sup!At
  <2>2. d.status \in {"queued", "needs_input"} /\ (LiveChild(child) => NamesChild(d))
    BY <1>1, <2>1 DEF ClientFits
  <2>3. /\ w \in Sup!Rows /\ w.version = row.version /\ w.status = "paused"
        /\ w.pausedFrom = d.status /\ w.child = d.child
    BY <1>1, <2>2 DEF Sup!Rows, Sup!Statuses
  <2> HIDE DEF w, d
  <2>4. SupRowFits(w, child) BY <2>2, <2>3 DEF SupRowFits, NamesChild, Truthful
  <2>5. SupervisorInv' BY <2>1, <2>3, <2>4, ClientFacts, ReturnFits
  <2>6. QED BY <2>1, <2>3, <2>5 DEF Sup!EngineSwaps
<1>3. CASE Sup!ResumeWrite(c)
  <2> DEFINE w == [row EXCEPT !.status = d.pausedFrom, !.pausedFrom = "none", !.child = d.child]
             p == IF d.pausedFrom = "queued" THEN "tick" ELSE "idle"
             r == [client[c] EXCEPT !.pc = p]
  <2>1. /\ client[c].pc = "resume" /\ row' = w /\ client' = [client EXCEPT ![c] = r]
        /\ UNCHANGED <<child, prompt, notices, calls>>
    BY <1>3 DEF Sup!ResumeWrite, Sup!At, Sup!Goto
  <2>2. d.pausedFrom \in {"queued", "needs_input"} /\ (LiveChild(child) => NamesChild(d))
    BY <1>1, <2>1 DEF ClientFits
  <2>3. /\ w \in Sup!Rows /\ w.version = row.version /\ w.status = d.pausedFrom
        /\ w.pausedFrom = "none" /\ w.child = d.child
    BY <1>1, <2>2 DEF Sup!Rows, Sup!Statuses, Sup!Parked
  <2>4. p \in {"tick", "idle"}
    OBVIOUS
  <2> HIDE DEF p
  <2>5. r \in ClientRecs /\ r.pc = p /\ r.read = d
    BY <2>4, ClientFacts DEF ClientRecs, SupervisorPcs
  <2> HIDE DEF r, w, d
  <2>6. SupRowFits(w, child) BY <2>2, <2>3 DEF SupRowFits, NamesChild, Truthful
  <2>7. ClientFits(r, child) BY <2>2, <2>4, <2>5 DEF ClientFits
  <2>8. SupervisorInv' BY <2>1, <2>3, <2>5, <2>6, <2>7, ClientFacts, ClientSteps
  <2>9. QED BY <2>1, <2>3, <2>8 DEF Sup!EngineSwaps
<1>4. CASE Sup!CancelChild(c)
  <2>1. client[c].pc = "cancel" /\ UNCHANGED <<row, prompt, notices, calls>>
    BY <1>4 DEF Sup!CancelChild, Sup!At
  <2>2. d.status \notin Sup!Terminal /\ (LiveChild(child) => NamesChild(d))
    BY <1>1, <2>1 DEF ClientFits
  <2>3. CASE d.child = "none" /\ Sup!Swap(c, "cancelled", "none", "cancelled") /\ child' = child
    <3>1. ~LiveChild(child) BY <2>2, <2>3 DEF NamesChild
    <3>2. /\ Truthful("cancelled", child) /\ "cancelled" \in Sup!Parked \union Sup!Terminal
          /\ "cancelled" \in Notes
      BY <3>1 DEF Truthful, Sup!Terminal, Notes
    <3>3. SupervisorInv' BY <2>1, <2>2, <2>3, <3>1, <3>2, ClientFacts, SwapFits
    <3>4. QED BY <2>1, <3>3 DEF Sup!EngineSwaps
  <2>4. CASE /\ d.child # "none" /\ child' \in Sup!CancelOutcomes
             /\ IF Sup!Verified(child') THEN Sup!Swap(c, "cancelled", "none", "cancelled")
                ELSE Sup!Swap(c, "needs_input", d.child, "none")
    <3>1. MovesOn(child, child') BY <2>4, <1>1, ClientFacts
         DEF Sup!CancelOutcomes, MovesOn, LiveChild, Sup!ActiveChild, Sup!ChildStatuses, Sup!EndedChild
    <3>2. CASE child' = "cancelled"
      <4>1. Sup!Swap(c, "cancelled", "none", "cancelled") BY <2>4, <3>2 DEF Sup!Verified
      <4>2. /\ Truthful("cancelled", child') /\ "cancelled" \in Sup!Parked \union Sup!Terminal
            /\ "cancelled" \in Notes /\ ~LiveChild(child')
        BY <3>2 DEF Truthful, Sup!Terminal, Notes, LiveChild, Sup!ActiveChild
      <4>3. SupervisorInv' BY <2>1, <2>2, <3>1, <4>1, <4>2, SwapFits
      <4>4. QED BY <2>1, <4>3 DEF Sup!EngineSwaps
    <3>3. CASE child' # "cancelled"
      <4>1. Sup!Swap(c, "needs_input", d.child, "none") BY <2>4, <3>3 DEF Sup!Verified
      <4>2. /\ Truthful("needs_input", child') /\ "needs_input" \in Sup!Parked \union Sup!Terminal
            /\ "none" \in Notes /\ d.child \in {"none", "plan", "implementation"}
        BY <1>1 DEF Truthful, Sup!Parked, Notes, Sup!Rows
      <4> DEFINE k == d.child
      <4>3. k \in {"none", "plan", "implementation"} /\ k # "none"
            /\ Sup!Swap(c, "needs_input", k, "none")
        BY <2>4, <4>1, <4>2
      <4> HIDE DEF k
      <4>4. SupervisorInv' BY <2>1, <2>2, <3>1, <4>2, <4>3, SwapFits
      <4>5. QED BY <2>1, <4>4 DEF Sup!EngineSwaps
    <3>4. QED BY <3>2, <3>3
  <2>5. QED BY <1>4, <2>3, <2>4 DEF Sup!CancelChild
<1>5. QED BY <1>2, <1>3, <1>4

\* Every step keeps the invariant and swaps as the engine may.
LEMMA SupervisorStep ==
    ASSUME SupervisorInv, Sup!Next
    PROVE  SupervisorInv' /\ Sup!EngineSwaps
<1>1. row' = row => Sup!EngineSwaps BY DEF Sup!EngineSwaps
<1>2. CASE Sup!ChildMoves BY <1>1, <1>2, ChildStep
<1>3. ASSUME NEW c \in Callers,
             \/ Sup!Start(c) \/ Sup!Tick(c) \/ Sup!GeneratePlanHandoff(c)
             \/ Sup!AdvancePlan(c) \/ Sup!AdvanceImplementation(c)
             \/ Sup!Pause(c) \/ Sup!PauseWrite(c) \/ Sup!Resume(c) \/ Sup!ResumeWrite(c)
             \/ Sup!Cancel(c) \/ Sup!CancelChild(c)
             \/ Sup!ConditionalUpdate(c) \/ Sup!Announce(c)
      PROVE  SupervisorInv' /\ Sup!EngineSwaps
  BY <1>1, <1>3, SwapStep, EngineStep, CallStep, OwnerStep
<1>4. QED BY <1>2, <1>3 DEF Sup!Next

\* Initially the row is new, or one that an older program left.
LEMMA SupervisorInit == Sup!Init => SupervisorInv
<1> SUFFICES ASSUME Sup!Init PROVE SupervisorInv
  OBVIOUS
<1>1. row \in Sup!Rows /\ child \in Sup!ChildStatuses /\ SupRowFits(row, child)
  BY DEF Sup!Init, Sup!NewRow, Sup!Rows, Sup!Statuses, Sup!Terminal, Sup!Parked, Sup!ChildStatuses,
     Sup!ActiveChild, Sup!EndedChild, SupRowFits, Truthful, LiveChild, NamesChild
<1>2. Sup!Idle \in ClientRecs /\ Sup!Idle.pc = "idle"
  BY DEF Sup!Idle, Sup!NewRow, ClientRecs, SupervisorPcs, Sup!Rows, Sup!Statuses, Notes
<1>3. \A c \in Callers : client[c] = Sup!Idle BY DEF Sup!Init
<1>4. \A c \in Callers : ClientFits(client[c], child) BY <1>2, <1>3 DEF ClientFits
<1>5. client \in [Callers -> ClientRecs] BY <1>2 DEF Sup!Init
<1>6. prompt \in Sup!Statuses /\ notices \subseteq Notes \ {"none"} /\ calls \in 0..MaxCalls
  BY ServiceConstants DEF Sup!Init, Sup!Statuses, Sup!SupervisorConstants
<1>7. QED BY <1>1, <1>4, <1>5, <1>6 DEF SupervisorInv

\* The steps of the other services leave the supervisor alone.
LEMMA SupervisorStutters ==
    ASSUME SupervisorInv, UNCHANGED supervisorState
    PROVE  SupervisorInv'
BY DEF supervisorState, SupervisorInv

\* The invariant says that outcomes are truthful.
LEMMA SupervisorFollows == SupervisorInv => Sup!OutcomeTruthful
<1> SUFFICES ASSUME SupervisorInv PROVE Sup!OutcomeTruthful
  OBVIOUS
<1>1. \A c \in Callers :
          /\ client[c].pc \in {"idle", "tick", "queued", "planning", "implementing", "pause",
                               "resume", "cancel", "swap", "announce"}
          /\ client[c].read \in Sup!Rows /\ client[c].write \in Sup!Rows
  BY ClientFacts DEF SupervisorPcs
<1>2. /\ row \in Sup!Rows /\ child \in Sup!ChildStatuses /\ prompt \in Sup!Statuses
      /\ notices \subseteq {"hard_stop", "handoff"} \union Sup!Terminal /\ calls \in 0..MaxCalls
  BY DEF SupervisorInv, Notes
<1>3. SupRowFits(row, child) BY DEF SupervisorInv
<1>4. QED BY <1>1, <1>2, <1>3 DEF Sup!OutcomeTruthful, Sup!TypeOK, SupRowFits, Truthful, LiveChild

\* The outcome of a supervisor is the truth about its child, whatever starts, pauses,
\* resumptions, cancellations and ticks race each other, and the engine's swap replaces
\* exactly the row it was computed from (supervisor_engine.py, supervisor_store.py).
THEOREM SupervisorStaysTruthful == Spec => SupervisorTruthful
<1>1. Init => SupervisorInv BY SupervisorInit DEF Init
<1>2. SupervisorInv /\ [Next]_vars => SupervisorInv'
  BY SupervisorStep, SupervisorStutters DEF Next, vars
<1>3. SupervisorInv /\ [Next]_vars => [focus = "supervisor" => Sup!EngineSwaps]_supervisorState
  BY SupervisorStep DEF Next, vars
<1>4. SupervisorInv => Sup!OutcomeTruthful BY SupervisorFollows
<1>5. QED BY <1>1, <1>2, <1>3, <1>4, PTL DEF Spec, SupervisorTruthful

----
(* The repository tools (RepoTools).                                        *)

Versions == [Paths -> Rep!Contents]
OpPcs == {"idle", "check", "snapshot", "add", "commit", "hash", "write", "finalize", "sync",
          "sweep", "unlink"}
OpRecs == [pc: OpPcs, tool: {"none", "cleanup"} \union Rep!IndexTools \union Rep!FileTools,
           files: SUBSET Paths, source: SUBSET Paths, seen: Rep!Contents, before: Versions,
           snapshot: Versions, made: BOOLEAN, touched: SUBSET Paths, staged: SUBSET Paths,
           hidden: SUBSET Paths, todo: SUBSET Paths,
           told: {"none", "refused", "ok", "failed", "failed_unrestored", "raised",
                  "commit_failed", "replay", "changed"}]

\* Until it has its snapshot a call finds the index as it began, but for what the user
\* staged meanwhile; and what is staged to be committed is of the call, an old name of
\* it, or the user's.
IndexFits ==
    /\ op.pc \in {"check", "snapshot"} => \A p \in Paths \ op.staged : index[p] = op.before[p]
    /\ op.pc \in {"add", "commit"} => \A p \in Paths \ op.staged : op.snapshot[p] = op.before[p]
    /\ op.pc \in {"snapshot", "add", "commit"} => op.tool \in Rep!IndexTools
    /\ op.tool \in Rep!IndexTools \ {"selected"} => op.files = Paths
    /\ op.pc = "commit" => op.tool \in Rep!Commits
    /\ op.pc = "hash" => op.made
    /\ op.pc \in {"snapshot", "add", "commit"} /\ op.tool \in Rep!Commits /\ policy.refuse =>
          \A p \in Paths : index[p] # head[p] =>
             p \in op.files \union op.staged \union op.hidden

\* A call on a file has one source, and for a move another destination.
OnFile(p, q) ==
    /\ op.source = {p} /\ op.files = {p, q}
    /\ (op.tool = "move") = (p # q) /\ (op.tool = "create") = (op.seen = "absent")

\* A file is written as the caller has seen it, unless the user was there since the check.
FileFits ==
    /\ op.tool \in Rep!FileTools => \E p, q \in Paths : OnFile(p, q)
    /\ op.pc \in {"write", "finalize"} => op.tool \in Rep!FileTools
    /\ op.pc = "write" => \A p \in Paths \ op.touched :
          /\ p \in op.source => tree[p] = op.seen
          /\ op.tool = "move" /\ p \in op.files \ op.source => tree[p] = "absent"

\* A sweep is of a preview that was not applied, and unlinks what that has listed.
CleanupFits ==
    /\ op.pc \in {"sweep", "unlink"} => op.tool = "cleanup" /\ cleanup.status = "previewed"
    /\ op.pc = "unlink" => \A p \in op.source \ op.touched : artifacts[p] = cleanup.listed[p]

ToolTypes ==
    /\ head \in Versions /\ index \in Versions /\ tree \in Versions /\ artifacts \in Versions
    /\ cleanup \in [status: {"none", "previewed", "applied"}, listed: Versions]
    /\ policy \in [refuse: BOOLEAN, mode: {"explicit_only", "all"}]
    /\ op \in OpRecs

ToolInv == ToolTypes /\ IndexFits /\ FileFits /\ CleanupFits

\* A step that hides, commits and undoes nothing.
CommitsNothing ==
    /\ head' = head /\ op'.hidden \subseteq op.hidden \union Rep!Partners(op.files, Rep!Renames)
    /\ op'.pc # "idle" \/ op'.told # "failed" \/ op'.pc = op.pc

\* What the invariant says of the call.
LEMMA OpFacts ==
    ASSUME ToolInv
    PROVE  /\ op \in OpRecs /\ op.pc \in OpPcs /\ op.files \subseteq Paths /\ op.source \subseteq Paths
           /\ op.before \in Versions /\ op.snapshot \in Versions /\ op.touched \subseteq Paths
           /\ op.staged \subseteq Paths /\ op.hidden \subseteq Paths /\ op.todo \subseteq Paths /\ op.seen \in Rep!Contents
           /\ head \in Versions /\ index \in Versions /\ tree \in Versions /\ artifacts \in Versions
           /\ cleanup.status \in {"none", "previewed", "applied"} /\ cleanup.listed \in Versions
           /\ cleanup \in [status: {"none", "previewed", "applied"}, listed: Versions]
           /\ policy \in [refuse: BOOLEAN, mode: {"explicit_only", "all"}]
<1>1. /\ head \in Versions /\ index \in Versions /\ tree \in Versions /\ artifacts \in Versions
      /\ cleanup \in [status: {"none", "previewed", "applied"}, listed: Versions]
      /\ policy \in [refuse: BOOLEAN, mode: {"explicit_only", "all"}] /\ op \in OpRecs
  BY DEF ToolInv, ToolTypes
<1>2. /\ op.pc \in OpPcs /\ op.files \subseteq Paths /\ op.source \subseteq Paths
      /\ op.before \in Versions /\ op.snapshot \in Versions /\ op.touched \subseteq Paths
      /\ op.staged \subseteq Paths /\ op.hidden \subseteq Paths /\ op.todo \subseteq Paths /\ op.seen \in Rep!Contents
  BY <1>1 DEF OpRecs
<1>3. QED BY <1>1, <1>2

\* Nothing is asked of the tools between two calls.
LEMMA ToolEnds ==
    ASSUME ToolInv, NEW t \in {"refused", "ok", "failed", "failed_unrestored", "raised",
                               "commit_failed", "replay", "changed"},
           Rep!Tell(t), head' \in Versions, index' \in Versions, tree' \in Versions,
           artifacts' \in Versions, policy' = policy,
           cleanup' \in [status: {"none", "previewed", "applied"}, listed: Versions]
    PROVE  ToolInv' /\ op'.pc = "idle" /\ op'.told = t /\ op'.hidden = {}
<1> DEFINE r == [Rep!NoCall EXCEPT !.told = t]
<1>1. op' = r BY DEF Rep!Tell
<1>2. r \in OpRecs /\ r.pc = "idle" /\ r.told = t /\ r.tool = "none" /\ r.hidden = {}
  <2>1. Rep!Everywhere("absent") \in Versions BY DEF Rep!Everywhere, Versions, Rep!Contents
  <2>2. QED BY <2>1 DEF OpRecs, OpPcs, Rep!NoCall, Rep!Contents
<1> HIDE DEF r
<1>3. ToolTypes' BY <1>1, <1>2, OpFacts DEF ToolTypes
<1>4. IndexFits' /\ FileFits' /\ CleanupFits'
  BY <1>1, <1>2 DEF IndexFits, FileFits, CleanupFits, Rep!IndexTools, Rep!FileTools, Rep!Commits
<1>5. QED BY <1>1, <1>2, <1>3, <1>4 DEF ToolInv

\* The user edits or stages, an artifact changes, a cleanup is previewed.
LEMMA UserStep ==
    ASSUME ToolInv,
           \/ \E p, q \in Paths : Rep!UserMoves(p, q)
           \/ \E p \in Paths : \/ Rep!UserStages(p)
                               \/ \E v \in Rep!Contents : Rep!UserEdits(p, v) \/ Rep!ArtifactChanges(p, v)
           \/ Rep!PreviewCleanup
    PROVE  ToolInv' /\ CommitsNothing
<1>1. CASE Rep!PreviewCleanup
  <2>1. /\ UNCHANGED <<head, index, tree, artifacts, policy, op>> /\ op.tool # "cleanup"
        /\ cleanup' = [status |-> "previewed", listed |-> artifacts]
    BY <1>1 DEF Rep!PreviewCleanup
  <2>2. cleanup' \in [status: {"none", "previewed", "applied"}, listed: Versions] BY <2>1, OpFacts
  <2>3. ToolTypes' BY <2>1, <2>2, OpFacts DEF ToolTypes
  <2>4. IndexFits' /\ FileFits' BY <2>1 DEF ToolInv, IndexFits, FileFits, OnFile
  <2>5. CleanupFits' BY <2>1 DEF ToolInv, CleanupFits
  <2>6. QED BY <2>1, <2>3, <2>4, <2>5 DEF ToolInv, CommitsNothing
<1>2. ASSUME NEW p \in Paths, Rep!UserStages(p)
      PROVE  ToolInv' /\ CommitsNothing
  <2> DEFINE r == IF op.pc = "idle" THEN op ELSE [op EXCEPT !.staged = @ \union {p}]
  <2>1. /\ UNCHANGED <<head, tree, artifacts, cleanup, policy>> /\ op' = r
        /\ index' = [index EXCEPT ![p] = tree[p]]
    BY <1>2 DEF Rep!UserStages, Rep!At
  <2>2. /\ r \in OpRecs /\ r.pc = op.pc /\ r.tool = op.tool /\ r.files = op.files
        /\ r.source = op.source /\ r.seen = op.seen /\ r.hidden = op.hidden /\ r.before = op.before
        /\ r.snapshot = op.snapshot /\ r.made = op.made /\ r.touched = op.touched
        /\ (op.pc # "idle" => r.staged = op.staged \union {p})
    BY OpFacts DEF OpRecs
  <2> HIDE DEF r
  <2>3. index' \in Versions /\ \A q \in Paths \ {p} : index'[q] = index[q]
    BY <2>1, OpFacts DEF Versions
  <2>4. ToolTypes' BY <2>1, <2>2, <2>3, OpFacts DEF ToolTypes
  <2>5. IndexFits' BY <2>1, <2>2, <2>3 DEF ToolInv, IndexFits
  <2>6. FileFits' /\ CleanupFits' BY <2>1, <2>2 DEF ToolInv, FileFits, CleanupFits, OnFile
  <2>7. QED BY <2>1, <2>2, <2>4, <2>5, <2>6 DEF ToolInv, CommitsNothing
<1>3. ASSUME NEW p \in Paths, NEW v \in Rep!Contents, Rep!UserEdits(p, v) \/ Rep!ArtifactChanges(p, v)
      PROVE  ToolInv' /\ CommitsNothing
  <2> DEFINE r == IF op.pc = "idle" THEN op ELSE [op EXCEPT !.touched = @ \union {p}]
  <2>1. UNCHANGED <<head, index, cleanup, policy>> /\ op' = r
    BY <1>3 DEF Rep!UserEdits, Rep!ArtifactChanges, Rep!At
  <2>2. /\ r \in OpRecs /\ r.pc = op.pc /\ r.tool = op.tool /\ r.files = op.files
        /\ r.source = op.source /\ r.seen = op.seen /\ r.hidden = op.hidden /\ r.before = op.before
        /\ r.snapshot = op.snapshot /\ r.made = op.made /\ r.staged = op.staged
        /\ (op.pc # "idle" => r.touched = op.touched \union {p})
    BY OpFacts DEF OpRecs
  <2> HIDE DEF r
  <2>3. /\ tree' \in Versions /\ artifacts' \in Versions
        /\ \A q \in Paths \ {p} : tree'[q] = tree[q] /\ artifacts'[q] = artifacts[q]
    BY <1>3, OpFacts DEF Versions, Rep!UserEdits, Rep!ArtifactChanges
  <2>4. ToolTypes' BY <2>1, <2>2, <2>3, OpFacts DEF ToolTypes
  <2>5. IndexFits' BY <2>1, <2>2, <2>3 DEF ToolInv, IndexFits
  <2>6. FileFits' BY <2>1, <2>2, <2>3 DEF ToolInv, FileFits, OnFile
  <2>7. CleanupFits'
    <3>1. op.source \subseteq Paths BY OpFacts
    <3>2. QED BY <2>1, <2>2, <2>3, <3>1 DEF ToolInv, CleanupFits
  <2>8. QED BY <2>1, <2>2, <2>4, <2>5, <2>6, <2>7 DEF ToolInv, CommitsNothing
<1>4. ASSUME NEW p \in Paths, NEW q \in Paths, Rep!UserMoves(p, q)
      PROVE  ToolInv' /\ CommitsNothing
  <2> DEFINE r == IF op.pc = "idle" THEN op
                  ELSE [op EXCEPT !.touched = @ \union {p, q}, !.staged = @ \union {p, q}]
  <2>1. /\ UNCHANGED <<head, artifacts, cleanup, policy>> /\ op' = r
        /\ tree' = [tree EXCEPT ![p] = "absent", ![q] = tree[p]]
        /\ index' = [index EXCEPT ![p] = "absent", ![q] = index[p]]
    BY <1>4 DEF Rep!UserMoves, Rep!At
  <2>2. /\ r \in OpRecs /\ r.pc = op.pc /\ r.tool = op.tool /\ r.files = op.files
        /\ r.source = op.source /\ r.seen = op.seen /\ r.before = op.before
        /\ r.snapshot = op.snapshot /\ r.made = op.made /\ r.hidden = op.hidden
        /\ (op.pc # "idle" => /\ r.touched = op.touched \union {p, q}
                              /\ r.staged = op.staged \union {p, q})
    BY OpFacts DEF OpRecs
  <2> HIDE DEF r
  <2>3. /\ index' \in Versions /\ tree' \in Versions
        /\ \A z \in Paths \ {p, q} : index'[z] = index[z] /\ tree'[z] = tree[z]
    BY <2>1, OpFacts DEF Versions, Rep!Contents
  <2>4. ToolTypes' BY <2>1, <2>2, <2>3, OpFacts DEF ToolTypes
  <2>5. IndexFits'
    <3>0. IndexFits BY DEF ToolInv
    <3>1. op.pc # "idle" =>
             /\ \A z \in Paths \ op'.staged : z \in Paths \ op.staged /\ index'[z] = index[z]
             /\ op.staged \subseteq op'.staged
      BY <2>1, <2>2, <2>3
    <3>2. op'.pc \in {"check", "snapshot"} => \A z \in Paths \ op'.staged : index'[z] = op'.before[z]
      BY <2>1, <2>2, <3>0, <3>1 DEF IndexFits
    <3>3. op'.pc \in {"add", "commit"} =>
             \A z \in Paths \ op'.staged : op'.snapshot[z] = op'.before[z]
      BY <2>1, <2>2, <3>0, <3>1 DEF IndexFits
    <3>4. op'.pc \in {"snapshot", "add", "commit"} /\ op'.tool \in Rep!Commits /\ policy'.refuse =>
             \A z \in Paths : index'[z] # head'[z] => z \in op'.files \union op'.staged \union op'.hidden
      <4> SUFFICES ASSUME op.pc \in {"snapshot", "add", "commit"}, op.tool \in Rep!Commits,
                          policy.refuse, NEW z \in Paths, index'[z] # head[z]
                   PROVE  z \in op.files \union op'.staged \union op.hidden
        BY <2>1, <2>2
      <4>1. CASE z \in {p, q} BY <2>1, <2>2, <4>1
      <4>2. CASE z \notin {p, q}
        <5>1. index[z] # head[z] BY <2>3, <4>2
        <5>2. z \in op.files \union op.staged \union op.hidden BY <3>0, <5>1 DEF IndexFits
        <5>3. QED BY <3>1, <5>2
      <4>3. QED BY <4>1, <4>2
    <3>5. QED BY <2>1, <2>2, <3>0, <3>2, <3>3, <3>4 DEF IndexFits
  <2>6. FileFits'
    <3>1. op.pc # "idle" =>
             \A z \in Paths \ op'.touched : z \in Paths \ op.touched /\ tree'[z] = tree[z]
      BY <2>1, <2>2, <2>3
    <3>2. FileFits BY DEF ToolInv
    <3>3. op'.tool \in Rep!FileTools => \E y, z \in Paths : OnFile(y, z)'
      BY <2>1, <2>2, <3>2 DEF FileFits, OnFile
    <3>4. ASSUME op'.pc = "write", NEW z \in Paths \ op'.touched
          PROVE  /\ z \in op'.source => tree'[z] = op'.seen
                 /\ op'.tool = "move" /\ z \in op'.files \ op'.source => tree'[z] = "absent"
      <4>1. op.pc = "write" /\ z \in Paths \ op.touched /\ tree'[z] = tree[z]
        BY <2>1, <2>2, <3>1, <3>4
      <4>2. /\ z \in op.source => tree[z] = op.seen
            /\ op.tool = "move" /\ z \in op.files \ op.source => tree[z] = "absent"
        BY <3>2, <4>1 DEF FileFits
      <4>3. QED BY <2>1, <2>2, <4>1, <4>2
    <3>5. QED BY <2>1, <2>2, <3>2, <3>3, <3>4 DEF FileFits
  <2>7. CleanupFits'
    <3>1. op.source \subseteq Paths BY OpFacts
    <3>2. QED BY <2>1, <2>2, <3>1 DEF ToolInv, CleanupFits
  <2>8. QED BY <2>1, <2>2, <2>4, <2>5, <2>6, <2>7 DEF ToolInv, CommitsNothing
<1>5. QED BY <1>1, <1>2, <1>3, <1>4

\* Partners are paths, and those of the renames that git pairs are among all.
LEMMA PartnersOf ==
    ASSUME NEW files, NEW R \in Rep!Pairings
    PROVE  /\ Rep!Partners(files, R) \subseteq Paths
           /\ Rep!Partners(files, R) \subseteq Rep!Partners(files, Rep!Renames)
<1>1. R \subseteq Rep!Renames BY DEF Rep!Pairings
<1>2. QED BY <1>1 DEF Rep!Partners

\* A call begins.
LEMMA ToolBegins ==
    ASSUME ToolInv, Rep!StartIndexTool \/ Rep!StartFileTool \/ Rep!StartCleanup
    PROVE  ToolInv' /\ CommitsNothing
<1>1. ASSUME NEW tool \in {"cleanup"} \union Rep!IndexTools \union Rep!FileTools,
             NEW fs \in SUBSET Paths, NEW src \in SUBSET Paths, NEW seen \in Rep!Contents,
             Rep!Begin(tool, fs, src, seen),
             tool \in Rep!IndexTools \ {"selected"} => fs = Paths,
             tool \in Rep!FileTools => \E p, q \in Paths :
                 /\ src = {p} /\ fs = {p, q}
                 /\ (tool = "move") = (p # q) /\ (tool = "create") = (seen = "absent")
      PROVE  ToolInv' /\ CommitsNothing
  <2> DEFINE r == [Rep!NoCall EXCEPT !.pc = "check", !.tool = tool, !.files = fs, !.source = src,
                                     !.seen = seen, !.before = index]
  <2>1. op' = r /\ UNCHANGED <<head, index, tree, artifacts, cleanup, policy>> BY <1>1 DEF Rep!Begin
  <2>2. /\ r \in OpRecs /\ r.pc = "check" /\ r.tool = tool /\ r.files = fs /\ r.source = src
        /\ r.seen = seen /\ r.before = index /\ r.hidden = {}
    <3>1. Rep!Everywhere("absent") \in Versions /\ index \in Versions
      BY OpFacts DEF Rep!Everywhere, Versions, Rep!Contents
    <3>2. QED BY <3>1 DEF OpRecs, OpPcs, Rep!NoCall, Rep!Contents
  <2> HIDE DEF r
  <2>3. ToolTypes' BY <2>1, <2>2, OpFacts DEF ToolTypes
  <2>4. IndexFits' BY <2>1, <2>2, <1>1 DEF IndexFits
  <2>5. FileFits' BY <2>1, <2>2, <1>1 DEF FileFits, OnFile
  <2>6. CleanupFits' BY <2>1, <2>2 DEF CleanupFits
  <2>7. QED BY <2>1, <2>2, <2>3, <2>4, <2>5, <2>6 DEF ToolInv, CommitsNothing
<1>2. CASE Rep!StartIndexTool
  <2>1. PICK tool \in Rep!IndexTools, fs \in SUBSET Paths :
           /\ IF tool = "selected" THEN fs # {} ELSE fs = Paths
           /\ Rep!Begin(tool, fs, {}, "absent")
    BY <1>2 DEF Rep!StartIndexTool
  <2>2. tool \notin Rep!FileTools /\ "absent" \in Rep!Contents
    BY DEF Rep!IndexTools, Rep!Commits, Rep!FileTools, Rep!Contents
  <2>3. QED BY <1>1, <2>1, <2>2
<1>3. CASE Rep!StartFileTool
  <2>1. PICK tool \in Rep!FileTools, p, q \in Paths, seen \in Rep!Contents :
           /\ (tool = "move") = (p # q) /\ (tool = "create") = (seen = "absent")
           /\ Rep!Begin(tool, {p, q}, {p}, seen)
    BY <1>3 DEF Rep!StartFileTool
  <2>2. tool \notin Rep!IndexTools /\ {p, q} \in SUBSET Paths /\ {p} \in SUBSET Paths
    BY DEF Rep!IndexTools, Rep!Commits, Rep!FileTools
  <2> DEFINE fs == {p, q}
             src == {p}
  <2>3. /\ fs \in SUBSET Paths /\ src \in SUBSET Paths /\ Rep!Begin(tool, fs, src, seen)
        /\ \E a, b \in Paths : /\ src = {a} /\ fs = {a, b}
                               /\ (tool = "move") = (a # b) /\ (tool = "create") = (seen = "absent")
    BY <2>1, <2>2
  <2> HIDE DEF fs, src
  <2>4. QED BY <1>1, <2>2, <2>3
<1>4. CASE Rep!StartCleanup
  <2>1. /\ "cleanup" \notin Rep!IndexTools \union Rep!FileTools /\ "absent" \in Rep!Contents
        /\ Paths \in SUBSET Paths /\ Rep!Begin("cleanup", Paths, {}, "absent")
    BY <1>4 DEF Rep!IndexTools, Rep!Commits, Rep!FileTools, Rep!Contents, Rep!StartCleanup
  <2>2. QED BY <1>1, <2>1
<1>5. QED BY <1>2, <1>3, <1>4

\* The call goes on, with nothing changed but its own record.
LEMMA ToolGoes ==
    ASSUME ToolInv, NEW r \in OpRecs, op' = r, r.pc # "idle",
           UNCHANGED <<cleanup, policy>>, head' \in Versions, index' \in Versions,
           tree' \in Versions, artifacts' \in Versions,
           r.tool = op.tool, r.files = op.files, r.seen = op.seen,
           op.tool \in Rep!FileTools => r.source = op.source,
           IndexFits', r.pc \in {"write", "finalize"} => r.tool \in Rep!FileTools,
           r.pc = "write" => \A p \in Paths \ r.touched :
              /\ p \in r.source => tree'[p] = r.seen
              /\ r.tool = "move" /\ p \in r.files \ r.source => tree'[p] = "absent",
           CleanupFits'
    PROVE  ToolInv'
<1>1. ToolTypes' BY OpFacts DEF ToolTypes
<1>2. FileFits' BY DEF ToolInv, FileFits, OnFile
<1>3. QED BY <1>1, <1>2 DEF ToolInv

\* A commit of selected files or of everything, staging and unstaging.
LEMMA IndexStep ==
    ASSUME ToolInv, Rep!CheckIndexTool \/ Rep!SnapshotIndex \/ Rep!GitAdd \/ Rep!RevParse
    PROVE  ToolInv' /\ CommitsNothing
<1>1. UNCHANGED <<head, tree, artifacts, cleanup, policy>>
  BY DEF Rep!CheckIndexTool, Rep!SnapshotIndex, Rep!GitAdd, Rep!RevParse
<1>2. CASE Rep!CheckIndexTool
  <2>1. op.pc = "check" /\ op.tool \in Rep!IndexTools /\ index' = index
    BY <1>2 DEF Rep!CheckIndexTool, Rep!At
  <2>2. PICK R \in Rep!Pairings :
           IF Rep!Refused(R) THEN Rep!Tell("refused")
           ELSE op' = [op EXCEPT !.pc = "snapshot", !.hidden = Rep!Partners(op.files, R)]
    BY <1>2 DEF Rep!CheckIndexTool
  <2>3. CASE Rep!Refused(R)
    <3>1. Rep!Tell("refused") BY <2>2, <2>3
    <3>2. ToolInv' /\ op'.told = "refused" /\ op'.hidden = {} BY <1>1, <2>1, <3>1, OpFacts, ToolEnds
    <3>3. QED BY <1>1, <3>2 DEF CommitsNothing
  <2>4. CASE ~Rep!Refused(R)
    <3> DEFINE h == Rep!Partners(op.files, R)
               r == [op EXCEPT !.pc = "snapshot", !.hidden = h]
    <3>1. op' = r BY <2>2, <2>4
    <3>2. /\ h \subseteq Paths /\ h \subseteq Rep!Partners(op.files, Rep!Renames)
          /\ \A p \in op.files, d \in R : d[2] = p /\ d[1] \in Paths => d[1] \in h
      <4>1. \A p \in op.files, d \in R : d[2] = p /\ d[1] \in Paths => d[1] \in h
        BY DEF Rep!Partners
      <4>2. QED BY <4>1, PartnersOf
    <3> HIDE DEF h
    <3>3. /\ r \in OpRecs /\ r.pc = "snapshot" /\ r.tool = op.tool /\ r.files = op.files
          /\ r.source = op.source /\ r.seen = op.seen /\ r.before = op.before
          /\ r.staged = op.staged /\ r.hidden = h
      BY <3>2, OpFacts DEF OpRecs, OpPcs
    <3> HIDE DEF r
    <3>4. op.tool \in Rep!Commits /\ policy.refuse =>
             \A p \in Paths : index[p] # head[p] => p \in op.files \union op.staged \union h
      <4>1. CASE op.tool = "selected" /\ policy.refuse
        <5>1. \A p \in Paths : index[p] # head[p] /\ (\A d \in R : d[1] # p) => p \in op.files
          BY <2>4, <4>1 DEF Rep!Refused, Rep!UnrelatedStaged, Rep!ListedStaged, Rep!Staged
        <5>2. ASSUME NEW p \in Paths, NEW d \in R, d[1] = p
              PROVE  p \in h \union op.files
          <6>1. /\ R \subseteq Paths \X Paths /\ \A e \in R : e[1] = e[1]
                /\ \A e \in R : index[e[2]] # head[e[2]] /\ head[e[1]] # "absent"
                /\ \A e \in R : head[e[2]] = "absent" /\ e[2] \in Paths
            BY DEF Rep!Pairings, Rep!Renames
          <6>2. \A e \in R : e[1] # d[2] BY <6>1
          <6>3. d[2] \in op.files BY <5>1, <6>1, <6>2
          <6>4. QED BY <3>2, <5>2, <6>3
        <5>3. QED BY <5>1, <5>2
      <4>2. CASE op.tool # "selected" BY <2>1, <4>2 DEF ToolInv, IndexFits
      <4>3. QED BY <4>1, <4>2
    <3>5. IndexFits' BY <1>1, <2>1, <3>1, <3>3, <3>4 DEF ToolInv, IndexFits
    <3>6. CleanupFits' BY <3>1, <3>3 DEF CleanupFits
    <3>7. ToolInv' BY <1>1, <2>1, <3>1, <3>3, <3>5, <3>6, OpFacts, ToolGoes
    <3>8. QED BY <1>1, <3>1, <3>2, <3>3, <3>7 DEF CommitsNothing
  <2>5. QED BY <2>3, <2>4
<1>3. CASE Rep!SnapshotIndex
  <2> DEFINE r == [op EXCEPT !.pc = "add", !.snapshot = index]
  <2>1. op.pc = "snapshot" /\ index' = index /\ op' = r BY <1>3 DEF Rep!SnapshotIndex, Rep!At
  <2>2. /\ r \in OpRecs /\ r.pc = "add" /\ r.tool = op.tool /\ r.files = op.files
        /\ r.source = op.source /\ r.seen = op.seen /\ r.hidden = op.hidden /\ r.before = op.before
        /\ r.snapshot = index /\ r.staged = op.staged
    BY OpFacts DEF OpRecs, OpPcs
  <2> HIDE DEF r
  <2>3. IndexFits' BY <1>1, <2>1, <2>2 DEF ToolInv, IndexFits
  <2>4. CleanupFits' BY <2>1, <2>2 DEF CleanupFits
  <2>5. ToolInv' BY <1>1, <2>1, <2>2, <2>3, <2>4, OpFacts, ToolGoes
  <2>6. QED BY <1>1, <2>1, <2>2, <2>5 DEF CommitsNothing
<1>4. CASE Rep!GitAdd
  <2>1. /\ op.pc = "add"
        /\ index' = [p \in Paths |-> IF op.tool = "unstage" THEN head[p]
                                     ELSE IF p \in op.files THEN tree[p] ELSE index[p]]
    BY <1>4 DEF Rep!GitAdd, Rep!At
  <2>2. index' \in Versions BY <2>1, OpFacts DEF Versions
  <2>3. CASE op.tool \in Rep!Commits
    <3> DEFINE r == [op EXCEPT !.pc = "commit"]
    <3>1. op' = r BY <1>4, <2>3 DEF Rep!GitAdd, Rep!Goto
    <3>2. /\ r \in OpRecs /\ r.pc = "commit" /\ r.tool = op.tool /\ r.files = op.files
          /\ r.source = op.source /\ r.seen = op.seen /\ r.hidden = op.hidden /\ r.before = op.before
          /\ r.snapshot = op.snapshot /\ r.staged = op.staged
      BY OpFacts DEF OpRecs, OpPcs
    <3> HIDE DEF r
    <3>3. \A p \in Paths : p \in op.files \/ index'[p] = index[p] BY <2>1, <2>3 DEF Rep!Commits
    <3>4. IndexFits' BY <1>1, <2>1, <2>3, <3>1, <3>2, <3>3 DEF ToolInv, IndexFits
    <3>5. CleanupFits' BY <3>1, <3>2 DEF CleanupFits
    <3>6. ToolInv' BY <1>1, <2>2, <3>1, <3>2, <3>4, <3>5, OpFacts, ToolGoes
    <3>7. QED BY <1>1, <3>1, <3>2, <3>6 DEF CommitsNothing
  <2>4. CASE op.tool \notin Rep!Commits
    <3>1. Rep!Tell("ok") BY <1>4, <2>4 DEF Rep!GitAdd
    <3>2. QED BY <1>1, <2>2, <3>1, OpFacts, ToolEnds DEF CommitsNothing
  <2>5. QED BY <2>3, <2>4
<1>5. CASE Rep!RevParse
  <2>1. index' = index /\ Rep!Tell("ok") BY <1>5 DEF Rep!RevParse
  <2>2. QED BY <1>1, <2>1, OpFacts, ToolEnds DEF CommitsNothing
<1>6. QED BY <1>2, <1>3, <1>4, <1>5

\* A commit, or a git command that fails or times out.
LEMMA GitStep ==
    ASSUME ToolInv, Rep!GitCommit \/ Rep!GitFails \/ Rep!GitTimesOut
    PROVE  ToolInv' /\ Rep!CommitStep
<1>0. Rep!TypeOK BY OpFacts DEF Rep!TypeOK, Versions
<1>1. CASE Rep!GitCommit
  <2> DEFINE r == [op EXCEPT !.pc = "hash", !.made = TRUE]
  <2>1. /\ op.pc = "commit" /\ head' = index /\ op' = r
        /\ UNCHANGED <<index, tree, artifacts, cleanup, policy>>
    BY <1>1 DEF Rep!GitCommit, Rep!At
  <2>2. /\ r \in OpRecs /\ r.pc = "hash" /\ r.tool = op.tool /\ r.files = op.files
        /\ r.source = op.source /\ r.seen = op.seen /\ r.hidden = op.hidden /\ r.made
    BY OpFacts DEF OpRecs, OpPcs
  <2> HIDE DEF r
  <2>3. IndexFits' BY <2>1, <2>2 DEF ToolInv, IndexFits
  <2>4. CleanupFits' BY <2>1, <2>2 DEF CleanupFits
  <2>5. ToolInv' BY <2>1, <2>2, <2>3, <2>4, OpFacts, ToolGoes
  <2>6. \A p \in Paths : head'[p] # head[p] =>
           p \in op.files \union op.hidden \union op.staged \/ ~policy.refuse
    BY <2>1 DEF ToolInv, IndexFits
  <2>7. QED BY <1>0, <2>1, <2>2, <2>5, <2>6 DEF Rep!CommitStep
<1>2. CASE Rep!GitFails
  <2>1. op.pc \in {"add", "commit", "hash"} /\ UNCHANGED <<head, tree, artifacts, cleanup, policy>>
    BY <1>2 DEF Rep!GitFails
  <2>2. CASE Rep!Tell("failed") /\ index' = op.snapshot
    <3>1. ToolInv' /\ op'.pc = "idle" /\ op'.hidden = {} BY <2>1, <2>2, OpFacts, ToolEnds
    <3>2. ~op.made => \A p \in Paths \ op.staged : index'[p] = op.before[p]
      BY <2>1, <2>2 DEF ToolInv, IndexFits
    <3>3. QED BY <1>0, <2>1, <3>1, <3>2 DEF Rep!CommitStep
  <2>3. CASE Rep!Tell("failed_unrestored") /\ index' = index
    <3>1. ToolInv' /\ op'.told = "failed_unrestored" /\ op'.hidden = {}
      BY <2>1, <2>3, OpFacts, ToolEnds
    <3>2. QED BY <1>0, <2>1, <3>1 DEF Rep!CommitStep
  <2>4. QED BY <1>2, <2>2, <2>3 DEF Rep!GitFails, Rep!RestoredIndex
<1>3. CASE Rep!GitTimesOut
  <2>1. Rep!Tell("raised") /\ UNCHANGED <<head, index, tree, artifacts, cleanup, policy>>
    BY <1>3 DEF Rep!GitTimesOut
  <2>2. ToolInv' /\ op'.told = "raised" /\ op'.hidden = {} BY <2>1, OpFacts, ToolEnds
  <2>3. QED BY <1>0, <2>1, <2>2 DEF Rep!CommitStep
<1>4. QED BY <1>1, <1>2, <1>3

\* The source and the destination of a call on a file.
LEMMA SourceIs ==
    ASSUME ToolInv, NEW p \in Paths, NEW q \in Paths, OnFile(p, q)
    PROVE  /\ Rep!Source = p
           /\ op.tool = "move" => Rep!Destination = q /\ p # q
<1>1. Rep!Source = p BY DEF Rep!Source, OnFile
<1>2. ASSUME op.tool = "move" PROVE Rep!Destination = q /\ p # q
  <2>1. p # q /\ q \in op.files /\ q \notin op.source /\ \A z \in op.files : z \notin op.source => z = q
    BY <1>2 DEF OnFile
  <2>2. QED BY <2>1 DEF Rep!Destination
<1>3. QED BY <1>1, <1>2

\* A file is created, deleted or moved, and the change committed.
LEMMA FileStep ==
    ASSUME ToolInv,
           \/ Rep!ValidateFile \/ Rep!WriteFile \/ Rep!FinalizeExplicitChanges \/ Rep!SyncIndex
    PROVE  ToolInv' /\ Rep!CommitStep
<1>0. Rep!TypeOK BY OpFacts DEF Rep!TypeOK, Versions
<1>1. CASE Rep!ValidateFile
  <2>1. /\ op.pc = "check" /\ op.tool \in Rep!FileTools
        /\ UNCHANGED <<head, index, tree, artifacts, cleanup, policy>>
    BY <1>1 DEF Rep!ValidateFile, Rep!At
  <2>2. CASE Rep!ValidTarget
    <3> DEFINE r == [op EXCEPT !.pc = "write", !.touched = {}]
    <3>1. op' = r BY <1>1, <2>2 DEF Rep!ValidateFile
    <3>2. /\ r \in OpRecs /\ r.pc = "write" /\ r.tool = op.tool /\ r.files = op.files
          /\ r.source = op.source /\ r.seen = op.seen /\ r.hidden = op.hidden
      BY OpFacts DEF OpRecs, OpPcs
    <3> HIDE DEF r
    <3>3. PICK p \in Paths, q \in Paths : OnFile(p, q) BY <2>1 DEF ToolInv, FileFits
    <3>4. tree[p] = op.seen /\ (op.tool = "move" => tree[q] = "absent")
      BY <2>2, <3>3, SourceIs DEF Rep!ValidTarget
    <3>5. \A z \in Paths : /\ z \in op.source => tree[z] = op.seen
                           /\ op.tool = "move" /\ z \in op.files \ op.source => tree[z] = "absent"
      BY <3>3, <3>4 DEF OnFile
    <3>6. IndexFits' BY <2>1, <3>1, <3>2 DEF ToolInv, IndexFits
    <3>7. CleanupFits' BY <3>1, <3>2 DEF CleanupFits
    <3>8. ToolInv' BY <2>1, <3>1, <3>2, <3>5, <3>6, <3>7, OpFacts, ToolGoes
    <3>9. QED BY <1>0, <2>1, <3>1, <3>2, <3>8 DEF Rep!CommitStep
  <2>3. CASE ~Rep!ValidTarget
    <3>1. Rep!Tell("refused") BY <1>1, <2>3 DEF Rep!ValidateFile
    <3>2. ToolInv' /\ op'.told = "refused" /\ op'.hidden = {} BY <2>1, <3>1, OpFacts, ToolEnds
    <3>3. QED BY <1>0, <2>1, <3>2 DEF Rep!CommitStep
  <2>4. QED BY <2>2, <2>3
<1>2. CASE Rep!WriteFile
  <2> DEFINE r == [op EXCEPT !.pc = "finalize"]
  <2>1. /\ op.pc = "write" /\ op' = r /\ UNCHANGED <<head, index, artifacts, cleanup, policy>>
    BY <1>2 DEF Rep!WriteFile, Rep!At, Rep!Goto
  <2>2. /\ r \in OpRecs /\ r.pc = "finalize" /\ r.tool = op.tool /\ r.files = op.files
        /\ r.source = op.source /\ r.seen = op.seen /\ r.hidden = op.hidden
    BY OpFacts DEF OpRecs, OpPcs
  <2> HIDE DEF r
  <2>3. op.tool \in Rep!FileTools BY <2>1 DEF ToolInv, FileFits
  <2>4. tree' \in Versions
    <3>1. CASE op.tool = "create" BY <1>2, <3>1, OpFacts DEF Rep!WriteFile, Versions, Rep!Contents
    <3>2. CASE op.tool = "delete" BY <1>2, <3>2, OpFacts DEF Rep!WriteFile, Versions, Rep!Contents
    <3>3. CASE op.tool = "move"
      <4>1. PICK p \in Paths, q \in Paths : OnFile(p, q) BY <2>3 DEF ToolInv, FileFits
      <4>2. Rep!Source = p BY <4>1, SourceIs
      <4>3. tree' = [tree EXCEPT ![Rep!Source] = "absent", ![Rep!Destination] = tree[Rep!Source]]
        BY <1>2, <3>3 DEF Rep!WriteFile
      <4>4. tree[Rep!Source] \in Rep!Contents BY <4>2, OpFacts DEF Versions
      <4>5. QED BY <4>3, <4>4, OpFacts DEF Versions, Rep!Contents
    <3>4. QED BY <2>3, <3>1, <3>2, <3>3 DEF Rep!FileTools
  <2>5. IndexFits' BY <2>1, <2>2 DEF ToolInv, IndexFits
  <2>6. CleanupFits' BY <2>1, <2>2 DEF CleanupFits
  <2>7. ToolInv' BY <2>1, <2>2, <2>3, <2>4, <2>5, <2>6, OpFacts, ToolGoes
  <2>8. QED BY <1>0, <2>1, <2>2, <2>7 DEF Rep!CommitStep
<1>3. CASE Rep!FinalizeExplicitChanges
  <2>1. UNCHANGED <<index, tree, artifacts, cleanup, policy>> /\ op.pc = "finalize"
    BY <1>3 DEF Rep!FinalizeExplicitChanges, Rep!At
  <2>2. CASE Rep!Tell("commit_failed") /\ head' = head
    <3>1. ToolInv' /\ op'.told = "commit_failed" /\ op'.hidden = {} BY <2>1, <2>2, OpFacts, ToolEnds
    <3>2. QED BY <1>0, <2>2, <3>1 DEF Rep!CommitStep
  <2>3. ASSUME NEW R \in Rep!Pairings,
               head' = [p \in Paths |-> IF p \in Rep!FinalizePaths(R) THEN tree[p] ELSE head[p]],
               IF head' = head THEN Rep!Tell("ok")
               ELSE op' = [op EXCEPT !.pc = "sync", !.todo = Rep!FinalizePaths(R),
                                     !.hidden = Rep!Partners(op.files, R)]
        PROVE  ToolInv' /\ Rep!CommitStep
    <3>1. head' \in Versions BY <2>3, OpFacts DEF Versions
    <3>2. CASE head' = head
      <4>1. ToolInv' /\ op'.told = "ok" /\ op'.hidden = {}
        BY <2>1, <2>3, <3>1, <3>2, OpFacts, ToolEnds
      <4>2. QED BY <1>0, <3>2, <4>1 DEF Rep!CommitStep
    <3>3. CASE head' # head
      <4> DEFINE h == Rep!Partners(op.files, R)
                 w == Rep!FinalizePaths(R)
                 r == [op EXCEPT !.pc = "sync", !.todo = w, !.hidden = h]
      <4>1. op' = r BY <2>3, <3>3
      <4>2. /\ h \subseteq Paths /\ h \subseteq Rep!Partners(op.files, Rep!Renames)
            /\ w \subseteq op.files \union h
        BY PartnersOf DEF Rep!FinalizePaths
      <4>3. w \subseteq Paths BY <4>2, OpFacts
      <4>4. \A p \in Paths : head'[p] # head[p] => p \in w BY <2>3
      <4> HIDE DEF h, w
      <4>5. /\ r \in OpRecs /\ r.pc = "sync" /\ r.tool = op.tool /\ r.files = op.files
            /\ r.source = op.source /\ r.seen = op.seen /\ r.hidden = h
        BY <4>2, <4>3, OpFacts DEF OpRecs, OpPcs
      <4> HIDE DEF r
      <4>6. IndexFits' BY <2>1, <4>1, <4>5 DEF ToolInv, IndexFits
      <4>7. CleanupFits' BY <4>1, <4>5 DEF CleanupFits
      <4>8. ToolInv' BY <2>1, <3>1, <4>1, <4>5, <4>6, <4>7, OpFacts, ToolGoes
      <4>9. QED BY <1>0, <4>1, <4>2, <4>4, <4>5, <4>8 DEF Rep!CommitStep
    <3>4. QED BY <3>2, <3>3
  <2>4. QED BY <1>3, <2>2, <2>3 DEF Rep!FinalizeExplicitChanges
<1>4. CASE Rep!SyncIndex
  <2>1. /\ UNCHANGED <<head, tree, artifacts, cleanup, policy>>
        /\ Rep!Tell("ok") \/ Rep!Tell("commit_failed")
        /\ \/ index' = [p \in Paths |-> IF p \in op.todo THEN tree[p] ELSE index[p]]
           \/ index' = index
    BY <1>4 DEF Rep!SyncIndex
  <2>2. index' \in Versions BY <2>1, OpFacts DEF Versions
  <2>3. ToolInv' /\ op'.told # "failed" /\ op'.hidden = {} BY <2>1, <2>2, OpFacts, ToolEnds
  <2>4. QED BY <1>0, <2>1, <2>3 DEF Rep!CommitStep
<1>5. QED BY <1>1, <1>2, <1>3, <1>4

\* A cleanup removes what its preview has listed, one artifact after the other.
LEMMA CleanupStep ==
    ASSUME ToolInv,
           \/ Rep!ApplyCleanup \/ Rep!SweepArtifact \/ Rep!UnlinkArtifact \/ Rep!CleanupApplied
    PROVE  ToolInv' /\ CommitsNothing
<1>1. UNCHANGED <<head, index, tree, policy>>
  BY DEF Rep!ApplyCleanup, Rep!SweepArtifact, Rep!UnlinkArtifact, Rep!CleanupApplied
<1>2. ASSUME NEW t \in {"refused", "replay", "changed", "ok"}, Rep!Tell(t), artifacts' = artifacts,
             cleanup' \in [status: {"none", "previewed", "applied"}, listed: Versions]
      PROVE  ToolInv' /\ CommitsNothing
  <2>1. ToolInv' /\ op'.told = t /\ op'.hidden = {} BY <1>1, <1>2, OpFacts, ToolEnds
  <2>2. QED BY <1>1, <2>1 DEF CommitsNothing
<1>3. ASSUME NEW r \in OpRecs, op' = r, op.tool = "cleanup", r.tool = op.tool, r.files = op.files,
             r.seen = op.seen, r.hidden = op.hidden, cleanup.status = "previewed", cleanup' = cleanup,
             artifacts' \in Versions,
             r.pc = "sweep" \/ /\ r.pc = "unlink"
                               /\ \A p \in r.source \ r.touched : artifacts'[p] = cleanup.listed[p]
      PROVE  ToolInv' /\ CommitsNothing
  <2>1. "cleanup" \notin Rep!IndexTools \union Rep!FileTools
    BY DEF Rep!IndexTools, Rep!Commits, Rep!FileTools
  <2>2. IndexFits' /\ CleanupFits' BY <1>1, <1>3, <2>1 DEF IndexFits, CleanupFits
  <2>3. ToolInv' BY <1>1, <1>3, <2>1, <2>2, OpFacts, ToolGoes
  <2>4. QED BY <1>1, <1>3, <2>3 DEF CommitsNothing
<1>4. CASE Rep!ApplyCleanup
  <2>1. op.tool = "cleanup" /\ UNCHANGED <<artifacts, cleanup>> BY <1>4 DEF Rep!ApplyCleanup
  <2>2. CASE cleanup.status = "previewed"
    <3> DEFINE w == {p \in Paths : cleanup.listed[p] # "absent"}
               r == [op EXCEPT !.pc = "sweep", !.touched = {}, !.todo = w]
    <3>1. op' = r BY <1>4, <2>2 DEF Rep!ApplyCleanup
    <3>2. w \subseteq Paths
      OBVIOUS
    <3> HIDE DEF w
    <3>3. /\ r \in OpRecs /\ r.pc = "sweep" /\ r.tool = op.tool /\ r.files = op.files
          /\ r.seen = op.seen /\ r.hidden = op.hidden
      BY <3>2, OpFacts DEF OpRecs, OpPcs
    <3> HIDE DEF r
    <3>4. QED BY <1>3, <2>1, <2>2, <3>1, <3>3, OpFacts
  <2>3. CASE cleanup.status # "previewed"
    <3>1. cleanup.status \in {"none", "applied"} BY <2>3, OpFacts
    <3>2. Rep!Tell("refused") \/ Rep!Tell("replay") BY <1>4, <3>1 DEF Rep!ApplyCleanup
    <3>3. QED BY <1>2, <2>1, <3>2, OpFacts
  <2>4. QED BY <2>2, <2>3
<1>5. CASE Rep!SweepArtifact
  <2>1. op.tool = "cleanup" /\ cleanup.status = "previewed" /\ UNCHANGED <<artifacts, cleanup>>
    BY <1>5 DEF Rep!SweepArtifact, Rep!At, ToolInv, CleanupFits
  <2>2. PICK p \in op.todo :
          CASE artifacts[p] = "absent" -> op' = [op EXCEPT !.todo = @ \ {p}]
            [] artifacts[p] \notin {"absent", cleanup.listed[p]} -> Rep!Tell("changed")
            [] OTHER -> op' = [op EXCEPT !.pc = "unlink", !.source = {p}, !.touched = {}]
    BY <1>5 DEF Rep!SweepArtifact
  <2>3. p \in Paths /\ op.pc = "sweep" BY <1>5, OpFacts DEF Rep!SweepArtifact, Rep!At
  <2>4. CASE artifacts[p] = "absent"
    <3> DEFINE r == [op EXCEPT !.todo = @ \ {p}]
    <3>1. op' = r BY <2>2, <2>4
    <3>2. /\ r \in OpRecs /\ r.pc = "sweep" /\ r.tool = op.tool /\ r.files = op.files
          /\ r.seen = op.seen /\ r.hidden = op.hidden
      BY <2>3, OpFacts DEF OpRecs
    <3> HIDE DEF r
    <3>3. QED BY <1>3, <2>1, <3>1, <3>2, OpFacts
  <2>5. CASE artifacts[p] \notin {"absent", cleanup.listed[p]}
    <3>1. Rep!Tell("changed") BY <2>2, <2>5
    <3>2. QED BY <1>2, <2>1, <3>1, OpFacts
  <2>6. CASE artifacts[p] # "absent" /\ artifacts[p] = cleanup.listed[p]
    <3> DEFINE r == [op EXCEPT !.pc = "unlink", !.source = {p}, !.touched = {}]
    <3>1. op' = r BY <2>2, <2>6
    <3>2. /\ r \in OpRecs /\ r.pc = "unlink" /\ r.tool = op.tool /\ r.files = op.files
          /\ r.seen = op.seen /\ r.hidden = op.hidden /\ r.source = {p}
      BY <2>3, OpFacts DEF OpRecs, OpPcs
    <3> HIDE DEF r
    <3>3. \A z \in r.source \ r.touched : artifacts'[z] = cleanup.listed[z] BY <2>1, <2>6, <3>2
    <3>4. artifacts' \in Versions BY <2>1, OpFacts
    <3>5. QED BY <1>3, <2>1, <3>1, <3>2, <3>3, <3>4
  <2>7. QED BY <2>4, <2>5, <2>6
<1>6. CASE Rep!UnlinkArtifact
  <2> DEFINE r == [op EXCEPT !.pc = "sweep", !.todo = @ \ op.source]
  <2>1. /\ op.tool = "cleanup" /\ cleanup.status = "previewed" /\ op' = r /\ cleanup' = cleanup
        /\ artifacts' = [artifacts EXCEPT ![Rep!Source] = "absent"]
    BY <1>6 DEF Rep!UnlinkArtifact, Rep!At, ToolInv, CleanupFits
  <2>2. /\ r \in OpRecs /\ r.pc = "sweep" /\ r.tool = op.tool /\ r.files = op.files
        /\ r.seen = op.seen /\ r.hidden = op.hidden
    BY OpFacts DEF OpRecs, OpPcs
  <2> HIDE DEF r
  <2>3. artifacts' \in Versions BY <2>1, OpFacts DEF Versions, Rep!Contents
  <2>4. QED BY <1>3, <2>1, <2>2, <2>3
<1>7. CASE Rep!CleanupApplied
  <2>1. /\ Rep!Tell("ok") /\ artifacts' = artifacts
        /\ cleanup' = [cleanup EXCEPT !.status = "applied"]
    BY <1>7 DEF Rep!CleanupApplied
  <2>2. cleanup' \in [status: {"none", "previewed", "applied"}, listed: Versions] BY <2>1, OpFacts
  <2>3. QED BY <1>2, <2>1, <2>2
<1>8. QED BY <1>4, <1>5, <1>6, <1>7

\* What is removed or replaced is what the caller or the preview has seen.
LEMMA RemovalFollows == ToolInv => Rep!RemovalStep
<1> SUFFICES ASSUME ToolInv PROVE Rep!RemovalStep
  OBVIOUS
<1>1. ASSUME Rep!WriteFile, NEW p \in Paths \ op.touched, tree[p] # "absent", tree'[p] # tree[p]
      PROVE  p \in op.source /\ tree[p] = op.seen
  <2>1. op.pc = "write" BY <1>1 DEF Rep!WriteFile, Rep!At
  <2>2. op.tool \in Rep!FileTools BY <2>1 DEF ToolInv, FileFits
  <2>3. PICK a \in Paths, b \in Paths : OnFile(a, b) BY <2>2 DEF ToolInv, FileFits
  <2>4. Rep!Source = a /\ (op.tool = "move" => Rep!Destination = b /\ a # b) BY <2>3, SourceIs
  <2>5. p = a \/ (op.tool = "move" /\ p = b)
    <3>1. CASE op.tool = "create" BY <1>1, <2>4, <3>1, OpFacts DEF Rep!WriteFile, Versions
    <3>2. CASE op.tool = "delete" BY <1>1, <2>4, <3>2, OpFacts DEF Rep!WriteFile, Versions
    <3>3. CASE op.tool = "move"
      <4>1. tree' = [tree EXCEPT ![Rep!Source] = "absent", ![Rep!Destination] = tree[Rep!Source]]
        BY <1>1, <3>3 DEF Rep!WriteFile
      <4>2. QED BY <1>1, <2>4, <3>3, <4>1, OpFacts DEF Versions
    <3>4. QED BY <2>2, <3>1, <3>2, <3>3 DEF Rep!FileTools
  <2>6. a \in op.source /\ (op.tool = "move" => b \in op.files \ op.source) BY <2>3 DEF OnFile
  <2>7. QED BY <1>1, <2>1, <2>5, <2>6 DEF ToolInv, FileFits
<1>2. ASSUME Rep!UnlinkArtifact
      PROVE  /\ cleanup.status = "previewed"
             /\ \A p \in op.source \ op.touched : artifacts[p] = cleanup.listed[p]
  BY <1>2 DEF Rep!UnlinkArtifact, Rep!At, ToolInv, CleanupFits
<1>3. QED BY <1>1, <1>2 DEF Rep!RemovalStep

\* Every step keeps the invariant and commits what it may.
LEMMA ToolStep ==
    ASSUME ToolInv, Rep!Next
    PROVE  ToolInv' /\ Rep!CommitStep
<1>1. CommitsNothing => Rep!CommitStep
  <2>1. Rep!TypeOK BY OpFacts DEF Rep!TypeOK, Versions
  <2>2. QED BY <2>1 DEF CommitsNothing, Rep!CommitStep
<1>2. ASSUME NEW p \in Paths,
             Rep!UserStages(p) \/ \E v \in Rep!Contents : Rep!UserEdits(p, v) \/ Rep!ArtifactChanges(p, v)
      PROVE  ToolInv' /\ Rep!CommitStep
  BY <1>1, <1>2, UserStep
<1>3. ASSUME NEW p \in Paths, NEW q \in Paths, Rep!UserMoves(p, q)
      PROVE  ToolInv' /\ Rep!CommitStep
  BY <1>1, <1>3, UserStep
<1>4. QED
  BY <1>1, <1>2, <1>3, UserStep, ToolBegins, IndexStep, GitStep, FileStep, CleanupStep DEF Rep!Next

\* Initially there is no call.
LEMMA ToolInit == Rep!Init => ToolInv
<1> SUFFICES ASSUME Rep!Init PROVE ToolInv
  OBVIOUS
<1>1. /\ Rep!Everywhere("absent") \in Versions /\ Rep!Everywhere("old") \in Versions
      /\ head \in Versions
  BY DEF Rep!Init, Rep!Everywhere, Versions, Rep!Contents
<1>2. op = Rep!NoCall /\ op \in OpRecs /\ op.pc = "idle" /\ op.tool = "none"
  BY <1>1 DEF Rep!Init, Rep!NoCall, OpRecs, OpPcs, Rep!Contents
<1>3. ToolTypes BY <1>1, <1>2 DEF Rep!Init, ToolTypes
<1>4. IndexFits /\ FileFits /\ CleanupFits
  BY <1>2 DEF IndexFits, FileFits, CleanupFits, Rep!IndexTools, Rep!Commits, Rep!FileTools
<1>5. QED BY <1>3, <1>4 DEF ToolInv

\* The steps of the other services leave the tools alone.
LEMMA ToolStutters ==
    ASSUME ToolInv, UNCHANGED toolState
    PROVE  ToolInv'
BY DEF toolState, ToolInv, ToolTypes, IndexFits, FileFits, CleanupFits, OnFile

\* Commits hold the files of the call, the old names of renames staged for them and what
\* the user staged during it, a call that failed leaves the index alone, and nothing is
\* removed that the caller or the preview had not seen (git_tools.py, repo_writer.py,
\* managed_artifacts.py).
THEOREM ToolsStayExact == Spec => ToolsExact
<1>1. Init => ToolInv BY ToolInit DEF Init
<1>2. ToolInv /\ [Next]_vars => ToolInv' BY ToolStep, ToolStutters DEF Next, vars
<1>3. ToolInv /\ [Next]_vars => [focus = "tools" => Rep!CommitStep /\ Rep!RemovalStep]_toolState
  BY ToolStep, RemovalFollows DEF Next, vars
<1>4. QED BY <1>1, <1>2, <1>3, PTL DEF Spec, ToolsExact

==============================================================================
