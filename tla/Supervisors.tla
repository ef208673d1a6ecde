------------------------------ MODULE Supervisors ------------------------------
(***************************************************************************)
(* One supervisor of src/soma/supervisor_engine.py, its row in the         *)
(* supervisor store and the durable child run an older version of the      *)
(* program may have left it with.  Several clients call start, resume,     *)
(* pause and cancel at once, each in its own request thread; the engine    *)
(* writes the row with a compare-and-swap on version and status, pause and *)
(* resume write it unconditionally.  The engine never launches a child.    *)
(***************************************************************************)
EXTENDS Integers

CONSTANTS Clients,          \* concurrent callers
          MaxCalls          \* bound on the calls they make

\* What the constants must be.
SupervisorConstants == MaxCalls \in Nat

VARIABLES
    row,        \* the supervisor row
    child,      \* status of the child run, "missing" when its row is gone
    client,     \* what each caller is doing and the row it has read
    prompt,     \* the status resume_prompt.txt tells of
    notices,    \* dedupe keys of the notifications
    calls       \* calls made so far

supervisorVars == <<row, child, client, prompt, notices, calls>>

Terminal == {"completed", "failed", "cancelled"}
Parked == {"needs_input", "needs_external_coder"}
Statuses == {"none", "queued", "planning", "implementing", "paused"} \cup Terminal \cup Parked
ActiveChild == {"queued", "running"}
EndedChild == {"completed", "failed", "cancelled", "timed_out"}
ChildStatuses == {"none", "missing", "cancellation_pending"} \cup ActiveChild \cup EndedChild

Rows == [status: Statuses, version: Nat, child: {"none", "plan", "implementation"},
         pausedFrom: {"none", "queued", "needs_input"}]
NewRow(status, kind) ==
    [status |-> status, version |-> 0, child |-> kind, pausedFrom |-> "none"]
Idle == [pc |-> "idle", read |-> NewRow("none", "none"), write |-> NewRow("none", "none"),
         note |-> "none"]

\* A database may hold supervisors of the time when children were launched.
Init ==
    /\ \/ row = NewRow("none", "none") /\ child = "none"
       \/ row = NewRow("planning", "plan") /\ child \in {"queued", "running", "missing"}
       \/ row = NewRow("implementing", "implementation") /\ child \in {"queued", "running", "missing"}
    /\ client = [c \in Clients |-> Idle]
    /\ prompt = "none"
    /\ notices = {}
    /\ calls = 0

At(c, pc) == client[c].pc = pc
Goto(c, pc) == client' = [client EXCEPT ![c].pc = pc]
Return(c) == client' = [client EXCEPT ![c] = Idle]

Call(c) == At(c, "idle") /\ calls < MaxCalls /\ calls' = calls + 1

----
(* The child run, whose own life DurableRun models.                        *)
ChildMoves ==
    /\ \/ child = "queued" /\ child' \in {"running", "cancelled"}
       \/ child = "running" /\ child' \in EndedChild
       \/ child = "cancellation_pending" /\ child' = "cancelled"
    /\ UNCHANGED <<row, client, prompt, notices, calls>>

\* cancel_run: a live child is stopped for sure, or only asked to stop; of an
\* ended or missing one its status is returned.
CancelOutcomes ==
    IF child \in ActiveChild \cup {"cancellation_pending"}
    THEN {"cancelled", "cancellation_pending"} ELSE {child}

----
(* The store.                                                              *)

\* mutant: the swap compares the status only.
SwapsStatus(read) == row.status = read.status

\* conditional_update_supervisor: version and status must be as read.
Swaps(read) == row.version = read.version /\ row.status = read.status

\* The swap succeeds and the version grows; or it fails and the current row is
\* returned to the caller.
ConditionalUpdate(c) ==
    /\ At(c, "swap")
    /\ IF Swaps(client[c].read)
       THEN /\ row' = [client[c].write EXCEPT !.version = row.version + 1]
            /\ Goto(c, "announce")
       ELSE /\ Return(c)
            /\ UNCHANGED row
    /\ UNCHANGED <<child, prompt, notices, calls>>

\* After its swap the caller writes the resume prompt for the row it wrote and
\* adds a notification, once per dedupe key.
WriteResumePrompt(status) == prompt' = status
CreateNotification(key) == notices' = notices \cup ({key} \ {"none"})
Announce(c) ==
    /\ At(c, "announce")
    /\ WriteResumePrompt(client[c].write.status)
    /\ CreateNotification(client[c].note)
    /\ Return(c)
    /\ UNCHANGED <<row, child, calls>>

\* The caller goes on to swap the row it read for another.
Swap(c, status, kind, note) ==
    client' = [client EXCEPT ![c].pc = "swap", ![c].note = note,
                             ![c].write = [client[c].read EXCEPT !.status = status,
                                                                 !.child = kind]]

----
(* The operations of the service.                                          *)

\* start_supervised_recovery_task creates the row and ticks it.
Start(c) ==
    /\ row.status = "none" /\ Call(c)
    /\ row' = NewRow("queued", "none")
    /\ Goto(c, "tick")
    /\ UNCHANGED <<child, prompt, notices>>

\* tick reads the row; a paused supervisor is an unsupported status.
Tick(c) ==
    /\ At(c, "tick")
    /\ client' = [client EXCEPT ![c].read = row,
                    ![c].pc = IF row.status \in {"queued", "planning", "implementing"}
                              THEN row.status ELSE "idle"]
    /\ UNCHANGED <<row, child, prompt, notices, calls>>

\* Policy may stop the plan; the handoff generator may refuse; else the
\* handoff is written and the supervisor parked.
HardStop(c) == Swap(c, "needs_input", "none", "hard_stop")
GeneratePlanHandoff(c) ==
    /\ At(c, "queued")
    /\ \/ HardStop(c)
       \/ Swap(c, "needs_input", "none", "handoff")
       \/ Swap(c, "needs_external_coder", "none", "handoff")
    /\ UNCHANGED <<row, child, prompt, notices, calls>>

\* What a child that ended makes of its supervisor.
DoneStatus(kind, s) ==
    CASE s = "failed" -> "failed"
      [] s = "cancelled" -> "cancelled"
      [] s = "completed" -> IF kind = "plan" THEN "needs_input" ELSE "completed"

Note(status) == IF status = "needs_input" THEN "none" ELSE status

\* A live child: nothing to do.  A status the engine does not know, timed_out,
\* cancellation_pending or the not_found of a missing run, raises.
Advance(c, status, kind) ==
    /\ At(c, status)
    /\ IF child \in {"completed", "failed", "cancelled"}
       THEN Swap(c, DoneStatus(kind, child), "none", Note(DoneStatus(kind, child)))
       ELSE Return(c)
    /\ UNCHANGED <<row, child, prompt, notices, calls>>

AdvancePlan(c) == Advance(c, "planning", "plan")
AdvanceImplementation(c) == Advance(c, "implementing", "implementation")

\* pause reads the row, then writes it whatever it has become.
Pause(c) ==
    /\ row.status \in {"queued", "needs_input"} /\ Call(c)
    /\ client' = [client EXCEPT ![c].pc = "pause", ![c].read = row]
    /\ UNCHANGED <<row, child, prompt, notices>>
PauseWrite(c) ==
    /\ At(c, "pause")
    /\ row' = [row EXCEPT !.status = "paused", !.pausedFrom = client[c].read.status,
                          !.child = client[c].read.child]
    /\ Return(c)
    /\ UNCHANGED <<child, prompt, notices, calls>>

\* resume reads the row: a paused one is put back, then a live one ticked.
Resume(c) ==
    /\ row.status # "none" /\ Call(c)
    /\ client' = [client EXCEPT ![c].read = row,
                    ![c].pc = CASE row.status = "paused" -> "resume"
                                [] row.status \in {"queued", "planning", "implementing"} -> "tick"
                                [] OTHER -> "idle"]
    /\ UNCHANGED <<row, child, prompt, notices>>
ResumeWrite(c) ==
    /\ At(c, "resume")
    /\ row' = [row EXCEPT !.status = client[c].read.pausedFrom, !.pausedFrom = "none",
                          !.child = client[c].read.child]
    /\ Goto(c, IF client[c].read.pausedFrom = "queued" THEN "tick" ELSE "idle")
    /\ UNCHANGED <<child, prompt, notices, calls>>

\* cancel reads the row and first cancels the child it names.
Cancel(c) ==
    /\ row.status \notin Terminal \cup {"none"} /\ Call(c)
    /\ client' = [client EXCEPT ![c].pc = "cancel", ![c].read = row]
    /\ UNCHANGED <<row, child, prompt, notices>>

Verified(status) == status = "cancelled"

\* Only a child known to be cancelled lets the supervisor be cancelled.
CancelChild(c) ==
    /\ At(c, "cancel")
    /\ \/ /\ client[c].read.child = "none"
          /\ Swap(c, "cancelled", "none", "cancelled")
          /\ UNCHANGED child
       \/ /\ client[c].read.child # "none"
          /\ \E s \in CancelOutcomes :
                /\ child' = s
                /\ IF Verified(s)
                   THEN Swap(c, "cancelled", "none", "cancelled")
                   ELSE Swap(c, "needs_input", client[c].read.child, "none")
    /\ UNCHANGED <<row, prompt, notices, calls>>

Next ==
    \/ ChildMoves
    \/ \E c \in Clients :
          \/ Start(c) \/ Tick(c) \/ GeneratePlanHandoff(c)
          \/ AdvancePlan(c) \/ AdvanceImplementation(c)
          \/ Pause(c) \/ PauseWrite(c) \/ Resume(c) \/ ResumeWrite(c)
          \/ Cancel(c) \/ CancelChild(c)
          \/ ConditionalUpdate(c) \/ Announce(c)

Spec == Init /\ [][Next]_supervisorVars

----
TypeOK ==
    /\ row \in Rows /\ child \in ChildStatuses
    /\ \A c \in Clients :
          /\ client[c].pc \in {"idle", "tick", "queued", "planning", "implementing", "pause",
                               "resume", "cancel", "swap", "announce"}
          /\ client[c].read \in Rows /\ client[c].write \in Rows
    /\ prompt \in Statuses
    /\ notices \subseteq {"hard_stop", "handoff"} \cup Terminal
    /\ calls \in 0..MaxCalls

\* The outcome of a supervisor is the truth about its child: cancelled means
\* that no child of it can still be at work, completed and failed that the child
\* ended so; whatever the calls raced with (supervisor_engine.py:264-334,
\* 458-575).
OutcomeTruthful ==
    /\ TypeOK
    /\ row.status = "cancelled" => child \notin ActiveChild \cup {"cancellation_pending"}
    /\ row.status = "completed" => child = "completed"
    /\ row.status = "failed" => child = "failed"
    /\ row.status \in {"planning", "implementing"} => row.child # "none"

\* Only the unconditional writes of pause and resume take a supervisor out of a
\* terminal status; the engine's swaps never do, and each of them replaces
\* exactly the row it was computed from (supervisor_store.py:235-298).
EngineSwaps ==
    row' # row =>
       \/ /\ row'.version = row.version + 1
          /\ row.status \notin Terminal
          /\ \E c \in Clients : At(c, "swap") /\ client[c].read.version = row.version
                                  /\ client[c].read.status = row.status
       \/ /\ row'.version = row.version
          /\ \/ row.status = "none"
             \/ \E c \in Clients : client[c].pc \in {"pause", "resume"}

==============================================================================
