----------------------------- MODULE Workflows -----------------------------
(***************************************************************************)
(* A durable workflow: the workflow store's conditional updates, the       *)
(* manager that starts, cancels and reconciles the workflow, the detached  *)
(* worker process of each lease that runs its steps, and publication.      *)
(*                                                                         *)
(* Every step below is one database transaction, or one read, together     *)
(* with the process operations that precede the actor's next access.  The  *)
(* row an actor read last is kept in its record.  A conditional update     *)
(* that names a version and fails would fail at any later time too, so it  *)
(* is one step with the read that follows it.                              *)
(*                                                                         *)
(* Abstractions.                                                           *)
(*  - One workflow: no operation touches two.                              *)
(*  - Lease token and generation are written together: one number.         *)
(*  - A step row only changes together with the workflow's state_version,  *)
(*    so the steps' own versions are left out; a step reserves a child run *)
(*    once (ReservedOnce), so the step names the child run.                *)
(*  - heartbeat_at is only compared by a reconciler with the value it      *)
(*    listed: `beaten' says that a heartbeat came since then.              *)
(*  - launcher and worker are the same process; a PID is not reused.       *)
(***************************************************************************)
EXTENDS Naturals

CONSTANTS
    NumSteps,    \* the workflow has steps 1..NumSteps
    Local,       \* steps of type local_summary, which have no child run
    DependsOn,   \* depends_on of each step
    Stop,        \* steps with on_failure = stop
    NumClients,  \* bound: cancellation requests
    Outcomes,    \* how a child run may end
    Faults,      \* the failures that may happen
    MaxCrashes   \* bound: how often the server process may die

Steps == 1..NumSteps
AllFaults == {"spawn", "io", "publish", "unconfirmed", "blind", "refuse", "worker_crash"}

\* validate_graph: steps depend on earlier steps only.
ValidGraph ==
    /\ DependsOn \in [Steps -> SUBSET Steps]
    /\ \A s \in Steps : \A t \in DependsOn[s] : t < s

ASSUME StepsAssumption ==
    NumSteps \in Nat \ {0} /\ Local \subseteq Steps /\ Stop \subseteq Steps /\ ValidGraph
ASSUME BoundsAssumption == NumClients \in Nat /\ MaxCrashes \in Nat
ASSUME FaultsAssumption == Faults \subseteq AllFaults
ASSUME OutcomesAssumption ==
    Outcomes \subseteq {"completed", "failed", "needs_input", "cancelled"}

MaxLaunchAttempts == 2
Leases == 1..MaxLaunchAttempts

\* The actors: the thread that starts the workflow, the worker of each lease,
\* the startup reconciler, and the threads that cancel.
Starter == 0
Server == 3
Clients == 4..(3 + NumClients)
Threads == {Starter, Server} \cup Clients
Actors == Threads \cup Leases

Outcome == {"needs_approval", "needs_input", "completed", "failed", "cancelled"}
Terminal == Outcome \cup {"reported"}
Statuses == {"none", "queued", "running", "cancellation_pending",
             "recovery_pending"} \cup Terminal
StepEnded == {"passed", "failed", "skipped", "cancelled"}
Marks == {"none", "verified", "blind"}

VARIABLES
    wf,       \* the row of workflows
    step,     \* the status of each row of workflow_steps
    child,    \* the child run of each step (the run engine's view)
    starts,   \* history: how often each step reserved, and launched, a child
    proc,     \* the actors
    beaten,   \* a heartbeat was written since the reconciler listed the row
    crashes   \* history: how often the server died

vars == <<wf, step, child, starts, proc, beaten, crashes>>

NoRow == [status |-> "none", term |-> "none", ver |-> 0, lease |-> 0, att |-> 0,
          lpid |-> "none", wpid |-> "none", active |-> 0, pub |-> "pending"]
NewRow == [NoRow EXCEPT !.status = "queued", !.lease = 1, !.att = 1]
Idle == [pc |-> "idle", row |-> NoRow, step |-> 0, out |-> "none"]

Rows == [status : Statuses, term : {"none"} \cup Outcome, ver : Nat,
         lease : {0} \cup Leases, att : 0..MaxLaunchAttempts,
         lpid : Marks, wpid : Marks, active : {0} \cup Steps,
         pub : {"pending", "publishing", "published", "failed"}]
PCs == {"idle", "done", "spawn", "record", "again", "event", "fail", "failing",
        "boot", "claim", "loop", "beat", "replay", "child", "settle", "update",
        "finish", "commit", "skip", "skipping", "next", "take", "announce",
        "note", "launch", "launched", "recording", "summary", "summarized",
        "recover", "recovering", "exited", "publish", "begin", "report",
        "request", "stopchild", "stopworker", "retry", "confirm", "finalize",
        "down", "listed", "ready"}
Outs == {"none", "retry", "loop", "exited", "done", "ready", "refused"}
            \cup Outcome \cup {"replay", "child", "skip", "recover"}
Procs == [pc : PCs, row : Rows, step : {0} \cup Steps, out : Outs]

Init ==
    /\ wf = NoRow
    /\ step = [s \in Steps |-> "pending"]
    /\ child = [s \in Steps |-> "none"]
    /\ starts = [s \in Steps |-> [reserved |-> 0, launched |-> 0]]
    /\ proc = [a \in Actors |-> IF a = Server THEN [Idle EXCEPT !.pc = "ready"] ELSE Idle]
    /\ beaten = FALSE
    /\ crashes = 0

----
(* The workflow store. *)

Bump(row) == [row EXCEPT !.ver = @ + 1]
IsTerminal(row) == row.status \in Terminal

\* conditional_update_workflow's WHERE clause: status, version, lease.
Matches(row) == wf.status = row.status /\ wf.ver = row.ver /\ wf.lease = row.lease
MatchesOpenAny(row) ==  \* mutant: reject_terminal forgotten
    Matches(row)
MatchesOpen(row) == Matches(row) /\ ~IsTerminal(wf)

\* The WHERE clauses of a worker's updates: running, under its own lease, at the
\* version it read.
Owned(n) ==
    wf.status = "running" /\ wf.lease = n /\ wf.ver = proc[n].row.ver

Launched(row, mark) == [Bump(row) EXCEPT !.lpid = mark]
ToRunning(row, mark) == [Bump(row) EXCEPT !.status = "running", !.wpid = mark]
ToRecovery(row) == [Bump(row) EXCEPT !.status = "recovery_pending"]
ToCancelling(row) == [Bump(row) EXCEPT !.status = "cancellation_pending"]
ToTerminal(row, status) ==
    [Bump(row) EXCEPT !.status = status, !.term = status, !.active = 0]
ToFailed(row) == [Bump(row) EXCEPT !.status = "failed", !.term = "failed"]
ToCancelled(row) ==
    [ToTerminal(row, "cancelled") EXCEPT !.lpid = "none", !.wpid = "none"]
Reserved(row) ==
    [Bump(row) EXCEPT !.status = "queued", !.lease = @ + 1, !.att = @ + 1,
                      !.lpid = "none", !.wpid = "none"]
Cleared(row) == [Bump(row) EXCEPT !.active = 0]

----
(* Actors and processes. *)

Goto(a, pc) == proc' = [proc EXCEPT ![a].pc = pc]
GotoRow(a, pc, row) == proc' = [proc EXCEPT ![a].pc = pc, ![a].row = row]
GotoStep(n, pc, s, out) ==
    proc' = [proc EXCEPT ![n] = [pc |-> pc, row |-> wf, step |-> s, out |-> out]]
Rest(a) == IF a \in Leases THEN "exited" ELSE IF a = Server THEN "ready" ELSE "done"
Finished(a) == [Idle EXCEPT !.pc = Rest(a)]
End(a) == proc' = [proc EXCEPT ![a] = Finished(a)]
Loop(n) == proc' = [proc EXCEPT ![n] = [Idle EXCEPT !.pc = "loop"]]
\* publish_workflow, after which the actor goes on at `back'.
Publish(a, back) == proc' = [proc EXCEPT ![a] = [Idle EXCEPT !.pc = "publish", !.out = back]]

At(a, pc) == proc[a].pc = pc
Ready == At(Server, "ready")
Alive(n) == n \in Leases /\ proc[n].pc \notin {"idle", "exited"}
ReadMarks == {"verified"} \cup (IF "blind" \in Faults THEN {"blind"} ELSE {})
Io == "io" \in Faults

\* _identity_state of a PID recorded with or without an identity.
IdentityState(n, mark) ==
    IF ~Alive(n) \/ mark = "none" THEN "absent"
    ELSE IF mark = "verified" THEN "active" ELSE "uncertain"

\* _terminate_if_verified; the process may survive the attempt.
KillOutcomes == IF "unconfirmed" \in Faults THEN BOOLEAN ELSE {TRUE}

----
(* WorkflowManager.start_workflow, and the launch that reconcile_startup has in
   common with it. *)

\* create_workflow and the first event; the event is outside the try block.
CreateWorkflow ==
    /\ At(Starter, "idle") /\ Ready /\ wf.status = "none"
    /\ wf' = NewRow
    /\ GotoRow(Starter, "spawn", NewRow) \/ (Io /\ End(Starter))
    /\ UNCHANGED <<step, child, starts, beaten, crashes>>

SpawnWorker(a) ==
    /\ At(a, "spawn")
    /\ \/ proc' = [proc EXCEPT ![a].pc = "record",
                               ![proc[a].row.lease] = [Idle EXCEPT !.pc = "boot"]]
       \/ "spawn" \in Faults /\ Goto(a, "fail")
    /\ UNCHANGED <<wf, step, child, starts, beaten, crashes>>

Held(row, n) == row.lease = n /\ row.status \in {"queued", "running"}

\* A launch that lost its lease terminates the process it started.
Abandon(a, n) ==
    \E mark \in ReadMarks, killed \in KillOutcomes :
        proc' = [proc EXCEPT
            ![n] = IF mark = "verified" /\ killed /\ Alive(n) THEN Finished(n) ELSE @,
            ![a] = IF a = Server THEN Finished(a) ELSE [@ EXCEPT !.pc = "fail"]]

\* record_worker_launch at the version of the launch intent, then once more at
\* the current version.
RecordLaunch(a) ==
    /\ proc[a].pc \in {"record", "again"}
    /\ LET n == proc[a].row.lease
           won == Held(wf, n) /\ wf.ver = proc[a].row.ver
       IN  /\ \E mark \in ReadMarks : wf' = IF won THEN Launched(wf, mark) ELSE wf
           /\ IF ~Held(wf, n) THEN Abandon(a, n)
              ELSE IF won \/ At(a, "again") THEN Goto(a, "event")
              ELSE GotoRow(a, "again", wf)
    /\ UNCHANGED <<step, child, starts, beaten, crashes>>

LaunchEvent(a) ==
    /\ At(a, "event")
    /\ End(a) \/ (Io /\ Goto(a, "fail"))
    /\ UNCHANGED <<wf, step, child, starts, beaten, crashes>>

\* The except blocks: read the row, then fail it under that status and version;
\* the reconciler only if it still owns the generation.
FailRead(a) ==
    /\ At(a, "fail")
    /\ IF a = Server /\ wf.lease # proc[a].row.lease THEN End(a)
       ELSE GotoRow(a, "failing", wf)
    /\ UNCHANGED <<wf, step, child, starts, beaten, crashes>>

FailWrite(a) ==
    /\ At(a, "failing")
    /\ IF MatchesOpen(proc[a].row)
       THEN wf' = ToFailed(wf) /\ Publish(a, Rest(a))
       ELSE End(a) /\ UNCHANGED wf
    /\ UNCHANGED <<step, child, starts, beaten, crashes>>

----
(* publish_workflow, called by every actor; published artifacts that do not
   match the row are published again. *)

Back(a) == proc' = [proc EXCEPT ![a] = [Idle EXCEPT !.pc = proc[a].out]]

\* _publication_artifacts_match: the report files may be lost or altered.
ArtifactsMatch == IF "publish" \in Faults THEN BOOLEAN ELSE {TRUE}
PublishRead(a) ==
    /\ At(a, "publish")
    /\ \E match \in ArtifactsMatch :
         LET published == wf.status = "reported" /\ wf.pub = "published" /\ match
         IN  IF IsTerminal(wf) /\ ~published THEN GotoRow(a, "begin", wf) ELSE Back(a)
    /\ UNCHANGED <<wf, step, child, starts, beaten, crashes>>

PublishBegin(a) ==
    /\ At(a, "begin")
    /\ LET row == [Bump(wf) EXCEPT !.pub = "publishing"]
       IN  IF wf.status = proc[a].row.status /\ wf.ver = proc[a].row.ver
           THEN wf' = row /\ GotoRow(a, "report", row)
           ELSE Back(a) /\ UNCHANGED wf
    /\ UNCHANGED <<step, child, starts, beaten, crashes>>

\* The report files, then mark_publication_complete, or mark_publication_failed.
ReportOutcomes(row) ==
    {[Bump(row) EXCEPT !.status = "reported", !.pub = "published"]}
        \cup IF "publish" \in Faults THEN {[Bump(row) EXCEPT !.pub = "failed"]} ELSE {}
PublishReport(a) ==
    /\ At(a, "report")
    /\ LET won == wf.status = proc[a].row.status /\ wf.ver = proc[a].row.ver
                  /\ wf.pub = "publishing"
       IN  wf' \in IF won THEN ReportOutcomes(wf) ELSE {wf}
    /\ Back(a)
    /\ UNCHANGED <<step, child, starts, beaten, crashes>>

----
(* WorkflowWorker: claiming the workflow and the main loop. *)

WorkerBoot(n) ==
    /\ At(n, "boot")
    /\ CASE wf.status \in Terminal -> Publish(n, "exited")
         [] wf.status = "queued" -> GotoRow(n, "claim", wf)
         [] wf.status = "running" -> Loop(n)
         [] OTHER -> End(n)
    /\ UNCHANGED <<wf, step, child, starts, beaten, crashes>>

ClaimWorker(n) ==
    /\ At(n, "claim")
    /\ IF wf.status = "queued" /\ wf.lease = n /\ wf.ver = proc[n].row.ver
       THEN Loop(n) /\ \E mark \in ReadMarks : wf' = ToRunning(wf, mark)
       ELSE End(n) /\ UNCHANGED wf
    /\ UNCHANGED <<step, child, starts, beaten, crashes>>

First(S) == CHOOSE s \in S : \A t \in S : s <= t
Replayable == {s \in Local : step[s] = "running"}

\* The row read at the top of the loop decides what follows the heartbeat.
LoopRead(n) ==
    /\ At(n, "loop")
    /\ CASE wf.status \in Terminal -> Publish(n, "exited")
         [] wf.status \in {"cancellation_pending", "recovery_pending"} -> End(n)
         [] OTHER ->
              IF Replayable # {} THEN GotoStep(n, "beat", First(Replayable), "replay")
              ELSE IF wf.active = 0 THEN GotoStep(n, "beat", 0, "skip")
              ELSE IF step[wf.active] = "running"
                   THEN GotoStep(n, "beat", wf.active, "child")
                   ELSE GotoStep(n, "beat", wf.active, "recover")
    /\ UNCHANGED <<wf, step, child, starts, beaten, crashes>>

Heartbeat(n) ==
    /\ At(n, "beat")
    /\ IF wf.status = "running" /\ wf.lease = n
       THEN Goto(n, proc[n].out) /\ beaten' = TRUE
       ELSE End(n) /\ UNCHANGED beaten
    /\ UNCHANGED <<wf, step, child, starts, crashes>>

\* _replay_local_summaries: an interrupted local summary is pending again.
Replay(n) ==
    /\ At(n, "replay")
    /\ IF Owned(n) /\ step[proc[n].step] = "running"
       THEN wf' = Bump(wf) /\ step' = [step EXCEPT ![proc[n].step] = "pending"]
       ELSE UNCHANGED <<wf, step>>
    /\ Loop(n)
    /\ UNCHANGED <<child, starts, beaten, crashes>>

\* _reconcile_active_child.  A child run that does not exist has the status
\* not_found, which is not terminal: the worker goes on polling.
PollChild(n) ==
    /\ At(n, "child")
    /\ LET c == child[proc[n].step]
       IN  \/ c \in {"none", "active"} /\ Loop(n)
           \/ c \in Outcome /\ proc' = [proc EXCEPT ![n].pc = "settle", ![n].out = c]
           \/ Io /\ Goto(n, "recover")
    /\ UNCHANGED <<wf, step, child, starts, beaten, crashes>>

MarkRecoveryRead(n) ==
    /\ At(n, "recover") /\ GotoRow(n, "recovering", wf)
    /\ UNCHANGED <<wf, step, child, starts, beaten, crashes>>
MarkRecovery(n) ==
    /\ At(n, "recovering")
    /\ wf' = IF Owned(n) THEN ToRecovery(wf) ELSE wf
    /\ End(n)
    /\ UNCHANGED <<step, child, starts, beaten, crashes>>

\* _finish_step and _fail_step: read the row, then update both rows.
SettleRead(n) ==
    /\ At(n, "settle")
    /\ IF proc[n].out # "completed" /\ step[proc[n].step] # "running" THEN End(n)
       ELSE GotoRow(n, "update", wf)
    /\ UNCHANGED <<wf, step, child, starts, beaten, crashes>>

\* What the workflow becomes when the step failed this way, if anything.
FailureTarget(s, out) ==
    IF out \in {"needs_input", "needs_approval"} THEN out
    ELSE IF s \in Stop THEN "failed" ELSE "none"
SettleStep(n) ==
    /\ At(n, "update")
    /\ LET s == proc[n].step
           out == proc[n].out
           target == FailureTarget(s, out)
       IN  IF Owned(n) /\ step[s] = "running" /\ wf.active = s
           THEN /\ wf' = Cleared(wf)
                /\ step' = [step EXCEPT ![s] = IF out = "completed" THEN "passed" ELSE "failed"]
                /\ IF out = "completed" \/ target = "none" THEN Loop(n)
                   ELSE proc' = [proc EXCEPT ![n] = [Idle EXCEPT !.pc = "finish", !.out = target]]
           ELSE End(n) /\ UNCHANGED <<wf, step>>
    /\ UNCHANGED <<child, starts, beaten, crashes>>

\* _transition_terminal; when it loses, the loop goes on.
FinishRead(n) ==
    /\ At(n, "finish") /\ GotoRow(n, "commit", wf)
    /\ UNCHANGED <<wf, step, child, starts, beaten, crashes>>
FinishWorkflow(n) ==
    /\ At(n, "commit")
    /\ IF Owned(n)
       THEN wf' = ToTerminal(wf, proc[n].out) /\ Publish(n, "loop")
       ELSE Loop(n) /\ UNCHANGED wf
    /\ UNCHANGED <<step, child, starts, beaten, crashes>>

----
(* WorkflowWorker: skipping, choosing and starting a step. *)

BlockedEarly(s) ==  \* mutant: a dependency that has not ended blocks too
    step[s] = "pending" /\ \E t \in DependsOn[s] : step[t] # "passed"
Blocked(s) ==
    /\ step[s] = "pending"
    /\ \A t \in DependsOn[s] : step[t] \in StepEnded
    /\ \E t \in DependsOn[s] : step[t] # "passed"
Startable(s) == step[s] = "pending" /\ \A t \in DependsOn[s] : step[t] = "passed"
AllEnded == \A s \in Steps : step[s] \in StepEnded

\* _skip_blocked_steps: read, then update the first blocked step.
SkipRead(n) ==
    /\ At(n, "skip")
    /\ LET blocked == {s \in Steps : Blocked(s)}
       IN  IF blocked # {} THEN GotoStep(n, "skipping", First(blocked), "none")
           ELSE Goto(n, "next")
    /\ UNCHANGED <<wf, step, child, starts, beaten, crashes>>
SkipStep(n) ==
    /\ At(n, "skipping")
    /\ IF Owned(n) /\ step[proc[n].step] = "pending"
       THEN wf' = Bump(wf) /\ step' = [step EXCEPT ![proc[n].step] = "skipped"]
       ELSE UNCHANGED <<wf, step>>
    /\ Loop(n)
    /\ UNCHANGED <<child, starts, beaten, crashes>>

\* _next_pending_step, _all_steps_terminal and the read that begins _start_step.
NextStep(n) ==
    /\ At(n, "next")
    /\ LET ready == {s \in Steps : Startable(s)}
       IN  IF ready # {} THEN GotoStep(n, "take", First(ready), "none")
           ELSE IF AllEnded
           THEN proc' = [proc EXCEPT ![n] = [Idle EXCEPT !.pc = "finish", !.out = "completed"]]
           ELSE Loop(n)
    /\ UNCHANGED <<wf, step, child, starts, beaten, crashes>>

\* claim_step: the child run id is reserved before the child is launched.
ClaimStep(n) ==
    /\ At(n, "take")
    /\ LET s == proc[n].step
       IN  IF Owned(n) /\ wf.active = 0 /\ step[s] = "pending"
           THEN /\ wf' = [Bump(wf) EXCEPT !.active = IF s \in Local THEN 0 ELSE s]
                /\ step' = [step EXCEPT ![s] = "running"]
                /\ starts' = IF s \in Local THEN starts
                             ELSE [starts EXCEPT ![s].reserved = @ + 1]
                /\ Goto(n, "announce")
           ELSE End(n) /\ UNCHANGED <<wf, step, starts>>
    /\ UNCHANGED <<child, beaten, crashes>>

\* _event, whose failure ends the worker here.
AnnounceRead(n) ==
    /\ At(n, "announce")
    /\ IF wf.lease = n THEN GotoRow(n, "note", wf) ELSE End(n)
    /\ UNCHANGED <<wf, step, child, starts, beaten, crashes>>
Announce(n) ==
    /\ At(n, "note")
    /\ IF Matches(proc[n].row)
       THEN Goto(n, IF proc[n].step \in Local THEN "summary" ELSE "launch")
       ELSE End(n)
    /\ UNCHANGED <<wf, step, child, starts, beaten, crashes>>

\* _start_child_run under the reserved id, accepted or refused.
LaunchChild(n) ==
    /\ At(n, "launch")
    /\ LET s == proc[n].step
       IN  \/ /\ child' = [child EXCEPT ![s] = "active"]
              /\ starts' = [starts EXCEPT ![s].launched = @ + 1]
              /\ Goto(n, "launched")
           \/ /\ "refuse" \in Faults
              /\ \E out \in {"refused", "needs_approval"} :
                   proc' = [proc EXCEPT ![n].pc = "settle", ![n].out = out]
              /\ UNCHANGED <<child, starts>>
    /\ UNCHANGED <<wf, step, beaten, crashes>>

\* The launch result, or the summary, is recorded with both rows.
ResultRead(n) ==
    /\ At(n, "launched") \/ At(n, "summary")
    /\ GotoRow(n, IF At(n, "launched") THEN "recording" ELSE "summarized", wf)
    /\ UNCHANGED <<wf, step, child, starts, beaten, crashes>>
RecordResult(n) ==
    /\ At(n, "recording") \/ At(n, "summarized")
    /\ LET s == proc[n].step
       IN  IF Owned(n) /\ step[s] = "running"
           THEN /\ wf' = Bump(wf)
                /\ step' = IF At(n, "summarized") THEN [step EXCEPT ![s] = "passed"] ELSE step
                /\ Loop(n)
           ELSE End(n) /\ UNCHANGED <<wf, step>>
    /\ UNCHANGED <<child, starts, beaten, crashes>>

----
(* Cancellation: cancel_workflow, and _reconcile_cancellation, which the startup
   reconciler uses too. *)

CancelRead(k) ==
    /\ At(k, "idle") /\ Ready /\ wf.status # "none"
    /\ IF IsTerminal(wf) THEN End(k)
       ELSE GotoRow(k, IF wf.status = "cancellation_pending" THEN "stopchild"
                       ELSE "request", wf)
    /\ UNCHANGED <<wf, step, child, starts, beaten, crashes>>

\* request_cancellation; when it loses, the row as it is now is worked on.
RequestCancel(k) ==
    /\ At(k, "request")
    /\ LET row == IF MatchesOpen(proc[k].row) THEN ToCancelling(wf) ELSE wf
       IN  wf' = row /\ GotoRow(k, "stopchild", row)
    /\ UNCHANGED <<step, child, starts, beaten, crashes>>

\* JobManager.cancel_run of the active child, and its status afterwards.
Cancellation(c) ==
    IF c # "active" THEN {c}
    ELSE {"cancelled"} \cup IF "unconfirmed" \in Faults THEN {c} ELSE {}
ChildReason(c) == IF c \in Outcome THEN "none" ELSE "retry"
StopChild(a) ==
    /\ At(a, "stopchild")
    /\ LET s == proc[a].row.active
       IN  IF s = 0 THEN Goto(a, "stopworker") /\ UNCHANGED child
           ELSE \E c \in Cancellation(child[s]) :
                  /\ child' = [child EXCEPT ![s] = c]
                  /\ proc' = [proc EXCEPT ![a].pc = "stopworker",
                                 ![a].out = ChildReason(c)]
    /\ UNCHANGED <<wf, step, starts, beaten, crashes>>

\* Terminate the recorded process if its identity is verified.
StopWorker(a) ==
    /\ At(a, "stopworker")
    /\ LET row == proc[a].row
           n == row.lease
           W == IdentityState(n, row.wpid)
           L == IdentityState(n, row.lpid)
           attempt == "active" \in {W, L}
           unsure == W = "uncertain" \/ (W = "absent" /\ L = "uncertain")
       IN  \E killed \in KillOutcomes :
             LET reason == proc[a].out = "retry" \/ unsure \/ (attempt /\ ~killed)
             IN  proc' = [x \in Actors |->
                    IF x = a THEN [proc[a] EXCEPT !.pc = IF reason THEN "retry" ELSE "confirm"]
                    ELSE IF x = n /\ attempt /\ killed THEN Finished(n) ELSE proc[x]]
    /\ UNCHANGED <<wf, step, child, starts, beaten, crashes>>

MarkRetry(a) ==
    /\ At(a, "retry")
    /\ wf' = IF Matches(proc[a].row) /\ wf.status = "cancellation_pending"
             THEN Bump(wf) ELSE wf
    /\ End(a)
    /\ UNCHANGED <<step, child, starts, beaten, crashes>>

ConfirmRead(a) ==
    /\ At(a, "confirm") /\ GotoRow(a, "finalize", wf)
    /\ UNCHANGED <<wf, step, child, starts, beaten, crashes>>

\* finalize_cancellation: the workflow and its open steps in one transaction.
OpenSteps == {s \in Steps : step[s] \in {"pending", "running"}}
FinalizeCancel(a) ==
    /\ At(a, "finalize")
    /\ IF Matches(proc[a].row) /\ wf.status = "cancellation_pending"
       THEN /\ wf' = ToCancelled(wf)
            /\ step' = [s \in Steps |-> IF s \in OpenSteps THEN "cancelled" ELSE step[s]]
            /\ Publish(a, Rest(a))
       ELSE End(a) /\ UNCHANGED <<wf, step>>
    /\ UNCHANGED <<child, starts, beaten, crashes>>

----
(* Crashes, restart and reconcile_startup. *)

\* The server process dies with all its threads.
ServerCrash ==
    /\ crashes < MaxCrashes
    /\ ~At(Server, "down")
    /\ crashes' = crashes + 1
    /\ proc' = [a \in Actors |->
                  IF a \in Leases THEN proc[a]
                  ELSE IF a = Server THEN [Idle EXCEPT !.pc = "down"]
                  ELSE IF At(a, "idle") THEN proc[a] ELSE Finished(a)]
    /\ UNCHANGED <<wf, step, child, starts, beaten>>

WorkerCrash(n) ==
    /\ "worker_crash" \in Faults
    /\ Alive(n)
    /\ End(n)
    /\ UNCHANGED <<wf, step, child, starts, beaten, crashes>>

ChildExit(s) ==
    /\ child[s] = "active"
    /\ \E out \in Outcomes : child' = [child EXCEPT ![s] = out]
    /\ UNCHANGED <<wf, step, starts, proc, beaten, crashes>>

\* iter_recoverable_workflows; the steps are read with the row, so what
\* _child_ownership_problem says of them is decided here.
RunningSteps == {s \in Steps : step[s] = "running"}
OwnershipProblem ==
    \/ \E s, t \in RunningSteps : s # t
    \/ RunningSteps = {} /\ wf.active # 0
    \/ \E s \in RunningSteps : wf.active # IF s \in Local THEN 0 ELSE s
ServerRestart ==
    /\ At(Server, "down")
    /\ beaten' = FALSE
    /\ CASE wf.status \in {"none", "recovery_pending"} -> End(Server)
         [] wf.status \in Terminal -> Publish(Server, "ready")
         [] wf.status = "cancellation_pending" -> GotoRow(Server, "stopchild", wf)
         [] OTHER -> proc' = [proc EXCEPT ![Server] =
                        [pc |-> "listed", row |-> wf, step |-> 0,
                         out |-> IF OwnershipProblem THEN "recover" ELSE "none"]]
    /\ UNCHANGED <<wf, step, child, starts, crashes>>

Listed == proc[Server].row
WorkerState == IdentityState(Listed.lease, Listed.wpid)
LauncherState == IdentityState(Listed.lease, Listed.lpid)
InHand == At(Server, "listed")
Sound == InHand /\ proc[Server].out = "none"
MatchesListed == MatchesOpen(Listed) /\ ~beaten

\* A verified worker is adopted, a verified launcher left alone.
ReconcileAdopt ==
    /\ Sound /\ "active" \in {WorkerState, LauncherState}
    /\ wf' = IF WorkerState = "active" /\ wf.status = "running" /\ MatchesListed
             THEN Bump(wf) ELSE wf
    /\ End(Server)
    /\ UNCHANGED <<step, child, starts, beaten, crashes>>

\* Inconsistent ownership, or a live process without an identity.
ReconcileHold ==
    /\ InHand
    /\ \/ ~Sound
       \/ /\ "active" \notin {WorkerState, LauncherState}
          /\ "uncertain" \in {WorkerState, LauncherState}
    /\ wf' = IF MatchesOpen(Listed) THEN ToRecovery(wf) ELSE wf
    /\ End(Server)
    /\ UNCHANGED <<step, child, starts, beaten, crashes>>

NobodyLaunches ==  \* mutant: only the launcher is examined
    Sound /\ LauncherState = "absent"
NobodyQueued ==  \* mutant: a running workflow with a dead worker is forgotten
    Sound /\ WorkerState = "absent" /\ LauncherState = "absent" /\ Listed.status = "queued"
NobodyRuns == Sound /\ WorkerState = "absent" /\ LauncherState = "absent"

ReconcileExhausted ==
    /\ NobodyRuns /\ Listed.att >= MaxLaunchAttempts
    /\ IF MatchesListed THEN wf' = ToFailed(wf) /\ Publish(Server, "ready")
       ELSE End(Server) /\ UNCHANGED wf
    /\ UNCHANGED <<step, child, starts, beaten, crashes>>

\* reserve_next_launch: a new lease, unless the row or its heartbeat changed.
ReconcileReserve ==
    /\ NobodyRuns /\ Listed.att < MaxLaunchAttempts
    /\ IF MatchesListed
       THEN wf' = Reserved(wf) /\ GotoRow(Server, "spawn", Reserved(wf))
       ELSE End(Server) /\ UNCHANGED wf
    /\ UNCHANGED <<step, child, starts, beaten, crashes>>

----
LaunchStep(a) ==
    SpawnWorker(a) \/ RecordLaunch(a) \/ LaunchEvent(a) \/ FailRead(a) \/ FailWrite(a)
PublishStep(a) == PublishRead(a) \/ PublishBegin(a) \/ PublishReport(a)
CancelStep(a) ==
    StopChild(a) \/ StopWorker(a) \/ MarkRetry(a) \/ ConfirmRead(a) \/ FinalizeCancel(a)
WorkerStep(n) ==
    \/ WorkerBoot(n) \/ ClaimWorker(n) \/ LoopRead(n) \/ Heartbeat(n) \/ Replay(n)
    \/ PollChild(n) \/ MarkRecoveryRead(n) \/ MarkRecovery(n) \/ SettleRead(n)
    \/ SettleStep(n) \/ FinishRead(n) \/ FinishWorkflow(n) \/ SkipRead(n)
    \/ SkipStep(n) \/ NextStep(n) \/ ClaimStep(n) \/ AnnounceRead(n) \/ Announce(n)
    \/ LaunchChild(n) \/ ResultRead(n) \/ RecordResult(n)
ReconcileStep ==
    \/ ServerRestart \/ ReconcileAdopt \/ ReconcileHold \/ ReconcileExhausted
    \/ ReconcileReserve

Next ==
    \/ CreateWorkflow \/ ReconcileStep \/ ServerCrash
    \/ \E a \in {Starter, Server} : LaunchStep(a)
    \/ \E a \in Actors : PublishStep(a)
    \/ \E k \in Clients : CancelRead(k) \/ RequestCancel(k)
    \/ \E a \in Clients \cup {Server} : CancelStep(a)
    \/ \E n \in Leases : WorkerStep(n) \/ WorkerCrash(n)
    \/ \E s \in Steps : ChildExit(s)

Spec == Init /\ [][Next]_vars

----
(* Properties. *)

\* Every variable has its type; no lease beyond the bounded launch attempts.
TypeOK ==
    /\ wf \in Rows
    /\ step \in [Steps -> {"pending", "running"} \cup StepEnded]
    /\ child \in [Steps -> {"none", "active"} \cup Outcome]
    /\ starts \in [Steps -> [reserved : Nat, launched : Nat]]
    /\ proc \in [Actors -> Procs]
    /\ beaten \in BOOLEAN
    /\ crashes \in 0..MaxCrashes

\* A worker past the heartbeat that checks its lease.
Engaged(n) ==
    proc[n].pc \in {"replay", "child", "recover", "recovering", "settle", "update",
                    "finish", "commit", "skip", "skipping", "next", "take", "announce",
                    "note", "launch", "launched", "recording", "summary", "summarized"}

\* Two workers never work on the steps at the same time, although a relaunch
\* decides on a row it read earlier.
SingleWorker == \A m, n \in Leases : Engaged(m) /\ Engaged(n) => m = n

\* A child run is launched at most once for a step, whichever worker does it and
\* however often workers die and are relaunched: its id is reserved first.
LaunchedOnce ==
    \A s \in Steps : starts[s].launched <= starts[s].reserved /\ starts[s].reserved <= 1

\* The ownership that reconcile_startup checks before it relaunches is never
\* broken by the workers, whenever one of them stops.
OwnershipSound == wf.status \notin Terminal => ~OwnershipProblem

\* A workflow reported as cancelled has no child run at work and no worker that
\* could still start one.
CancelledMeansStopped ==
    wf.term = "cancelled" =>
        /\ \A s \in Steps : child[s] # "active"
        /\ \A n \in Leases : ~At(n, "launch")

\* The outcome of a workflow is decided once.
OutcomeIsFinal ==
    [][wf.term # "none" => wf'.term = wf.term]_vars

\* The steps follow the plan.
Plan == INSTANCE StepPlan WITH plan <- step, Repeatable <- Local
ImplementsPlan == Plan!Spec

\* What the rows say of a workflow is true, whichever of its workers, cancellers
\* and reconcilers died or decided on an old row (worker.py, manager.py, store.py).
WorkflowSound ==
    TypeOK /\ SingleWorker /\ LaunchedOnce /\ OwnershipSound /\ CancelledMeansStopped

----
(* Liveness. *)

Fairness ==
    /\ WF_vars(ReconcileStep)
    /\ \A a \in {Starter, Server} : WF_vars(LaunchStep(a))
    /\ \A a \in Actors : WF_vars(PublishStep(a))
    /\ \A k \in Clients : WF_vars(RequestCancel(k))
    /\ \A a \in Clients \cup {Server} : WF_vars(CancelStep(a))
    /\ \A n \in Leases : WF_vars(WorkerStep(n))
    /\ \A s \in Steps : WF_vars(ChildExit(s))

FairSpec == Spec /\ Fairness

\* A restart resolves what it lists: a queued or running workflow without a
\* process gets a new lease or leaves these states.
RestartResolves ==
    \A n \in Leases :
        (InHand /\ wf = Listed /\ ~beaten /\ wf.lease = n /\ ~Alive(n))
        ~> (wf.lease # n \/ wf.status \notin {"queued", "running"})

\* A worker that lives brings its workflow to an end, unless it inherits a reserved
\* child run that was never launched: then it polls for ever.
WorkerFinishes ==
    []<>(\A n \in Leases :
            \/ wf.status # "running" \/ ~Alive(n)
            \/ At(n, "child") /\ child[proc[n].step] = "none")
=============================================================================
