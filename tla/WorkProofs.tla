------------------------------ MODULE WorkProofs ------------------------------
(***************************************************************************)
(* Proofs about the composition MCWork, for any number of start calls,     *)
(* handlers, patches, tool calls, faults and crashes.                      *)
(*                                                                         *)
(* Of the tasks: a request has at most one stored task, a task's run is    *)
(* created by the call that stored the task and by no other, and a thread  *)
(* that is about to write a row it read earlier either finds the version   *)
(* changed or the very row it read.  What it observed of the run is then   *)
(* still true, because the run only moves forward.                         *)
(*                                                                         *)
(* Of the patches: no half of a patch is hidden (PatchesWhole), and a      *)
(* patch's status, files and commits are what they say (PatchesTruthful).  *)
(***************************************************************************)
EXTENDS MCWork, FiniteSetTheorems, WellFoundedInduction, TLAPS

----
(* Tasks (TaskPlane).                                                       *)

\* A task is stored with everything that belongs to it, and its outcome, its
\* progress and its supersession each have their cause.
RowOK(t) ==
    /\ ~Tsk!Stored(t) => task[t] = Tsk!NoTask /\ scope[t] = "none" /\ run[t] = "absent"
    /\ Tsk!Scoped(t) <=> attempt[t] # "none"
    /\ task[t].state = "accepted" => task[t].version = 0
    /\ Tsk!IsTerminal(task[t]) /\ task[t].reason # "superseded" =>
           /\ task[t].reason = "none" /\ task[t].published
           /\ run[t] \in Tsk!Engine!Outcomes /\ Tsk!map_backend_status[run[t]] = task[t].state
    /\ task[t].reason = "superseded" =>
           task[t].state = "failed" /\ Tsk!Scoped(t) /\ attempt[t] = "quarantined"
    /\ task[t].state \notin {"absent", "accepted", "queued"}
           /\ task[t].reason \in {"none", "backend_recovery"} => run[t] \notin {"absent", "waiting"}

RowsOK == \A t \in Tsk!Calls : RowOK(t)

\* A request has one task.
OneTask ==
    \A c, d \in Tsk!Calls : Tsk!Stored(c) /\ Tsk!Stored(d) /\ RequestOf[c] = RequestOf[d] => c = d

\* The threads that work on a stored task.
Working == {"launchable", "launch", "attach", "mark", "observe", "write", "cancel_query", "cancel"}

\* A thread works on a stored task, whose outcome (if it has one) is that of a
\* run that is still stored.
WorksOn(p) ==
    p.pc \in Working =>
        /\ Tsk!Stored(p.task)
        /\ Tsk!IsTerminal(task[p.task]) /\ task[p.task].reason # "superseded" => p.task \notin lost

\* What a thread read is the row or an older one, what it observed of the run
\* still holds of it, and the two fit together.
Read(p) ==
    p.pc = "write" =>
        /\ p.seen.version <= task[p.task].version
        /\ p.seen.version = task[p.task].version => p.seen = task[p.task]
        /\ p.seen.state # "absent"
        /\ p.obs # "absent" => p.task \notin lost
        /\ p.obs \in Tsk!Engine!Outcomes => run[p.task] = p.obs
        /\ p.obs \notin {"absent", "waiting"} => run[p.task] \notin {"absent", "waiting"}
        /\ Tsk!IsTerminal(p.seen) => Tsk!Target(p.seen, p.obs) = p.seen
        /\ p.obs = "waiting" =>
              \/ p.seen.state \in {"accepted", "queued"}
              \/ p.seen.reason \in {"launch_incomplete", "run_record_missing"}

\* A start call works for its own request, on its own task until it has handed
\* that over to the engine.
CallOK(c, p) ==
    /\ p.pc \in {"new", "reserve", "reserve_scoped"} => ~Tsk!Stored(c)
    /\ p.pc \in {"reserve", "reserve_scoped", "launchable", "launch", "attach", "mark"} => p.task = c
    /\ p.pc \in Working => RequestOf[p.task] = RequestOf[c]
    /\ p.pc \in {"launchable", "launch"} => run[c] = "absent"

ThreadsOK ==
    /\ \A a \in Tsk!Actors : WorksOn(call[a]) /\ Read(call[a])
    /\ \A c \in Tsk!Calls : CallOK(c, call[c])
    /\ server # "up" => \A a \in Tsk!Actors : call[a].pc \in {"new", "idle", "done"}

\* The startup settles every attempt, and every task it has not reconciled yet is
\* still to be reconciled.
StartupOK ==
    /\ server \in {"tasks", "up"} =>
         \A t \in Tsk!Calls :
            Tsk!Scoped(t) /\ Tsk!RunStored(t) /\ call[t].pc \notin {"launch", "attach"} =>
                attempt[t] \in {"attached", "quarantined"}
    /\ server = "tasks" =>
         /\ \A t \in todo : Tsk!Stored(t) /\ ~Tsk!IsTerminal(task[t])
         /\ \A t \in Tsk!Calls : task[t].state = "accepted" /\ Tsk!AttemptHolds(t) => t \in todo

IInv == Tsk!TypeOK /\ RowsOK /\ OneTask /\ ThreadsOK /\ StartupOK /\ Tsk!NoForgottenTask
----
(***************************************************************************)
(* The operators of the model.                                             *)
(***************************************************************************)

\* What the backend's states are mapped to.
LEMMA MapFacts ==
    ASSUME NEW s \in Tsk!Engine!Lives, s # "absent"
    PROVE  /\ Tsk!map_backend_status[s] \in Tsk!TaskStates \ {"accepted", "uncertain"}
           /\ Tsk!map_backend_status[s] \in Tsk!TerminalStates <=> s \in Tsk!Engine!Outcomes
           /\ Tsk!map_backend_status[s] = "queued" <=> s = "waiting"
<1>1. Tsk!map_backend_status[s] =
        (CASE s = "waiting"   -> "queued"
           [] s = "executing" -> "running"
           [] s = "stopping"  -> "cancellation_pending"
           [] s = "held"      -> "recovery_pending"
           [] s = "timed_out" -> "failed"
           [] OTHER           -> s)
  BY DEF Tsk!map_backend_status
<1>2. QED BY <1>1 DEF Tsk!Engine!Lives, Tsk!Engine!Outcomes, Tsk!TaskStates, Tsk!TerminalStates

\* Writing a field of a task row keeps its type.
LEMMA RowFields ==
    ASSUME NEW row \in Tsk!TaskRow
    PROVE  /\ \A x \in Tsk!TaskStates : [row EXCEPT !.state = x] \in Tsk!TaskRow
           /\ \A x \in Tsk!Reasons : [row EXCEPT !.reason = x] \in Tsk!TaskRow
           /\ \A x \in Nat : [row EXCEPT !.version = x] \in Tsk!TaskRow
           /\ \A x \in BOOLEAN : [row EXCEPT !.published = x] \in Tsk!TaskRow
<1>1. \A x \in Tsk!TaskStates : [row EXCEPT !.state = x] \in Tsk!TaskRow BY DEF Tsk!TaskRow
<1>2. \A x \in Tsk!Reasons : [row EXCEPT !.reason = x] \in Tsk!TaskRow BY DEF Tsk!TaskRow
<1>3. \A x \in Nat : [row EXCEPT !.version = x] \in Tsk!TaskRow BY DEF Tsk!TaskRow
<1>4. \A x \in BOOLEAN : [row EXCEPT !.published = x] \in Tsk!TaskRow BY DEF Tsk!TaskRow
<1>5. QED BY <1>1, <1>2, <1>3, <1>4

\* A projection replaces state and reason; a terminal one is published.
LEMMA ProjectedFacts ==
    ASSUME NEW row \in Tsk!TaskRow, NEW s \in Tsk!TaskStates, NEW r \in Tsk!Reasons
    PROVE  /\ Tsk!Projected(row, s, r) \in Tsk!TaskRow
           /\ Tsk!Projected(row, s, r).state = s /\ Tsk!Projected(row, s, r).reason = r
           /\ Tsk!Projected(row, s, r).version = row.version
           /\ s \in Tsk!TerminalStates => Tsk!Projected(row, s, r).published
           /\ row.state = s /\ row.reason = r /\ row.published => Tsk!Projected(row, s, r) = row
<1> DEFINE pub == row.published \/ s \in Tsk!TerminalStates
<1>1. pub \in BOOLEAN OBVIOUS
<1>2. Tsk!Projected(row, s, r) = [row EXCEPT !.state = s, !.reason = r, !.published = pub]
  BY DEF Tsk!Projected, Tsk!TaskRow
<1>3. row.state = s /\ row.reason = r /\ row.published =>
        [row EXCEPT !.state = s, !.reason = r, !.published = TRUE] = row
  BY DEF Tsk!TaskRow
<1>4. row.published \/ s \in Tsk!TerminalStates => pub = TRUE
  OBVIOUS
<1> HIDE DEF pub
<1>5. [row EXCEPT !.state = s, !.reason = r, !.published = pub] \in Tsk!TaskRow
  BY <1>1, RowFields, Zenon
<1>6. /\ [row EXCEPT !.state = s, !.reason = r, !.published = pub].state = s
      /\ [row EXCEPT !.state = s, !.reason = r, !.published = pub].reason = r
      /\ [row EXCEPT !.state = s, !.reason = r, !.published = pub].version = row.version
      /\ [row EXCEPT !.state = s, !.reason = r, !.published = pub].published = pub
  BY DEF Tsk!TaskRow
<1>7. QED BY <1>2, <1>3, <1>4, <1>5, <1>6

\* What a reconcile makes of a row: the row itself, or one of the next version
\* that tells what was observed of the run.
LEMMA TargetFacts ==
    ASSUME NEW row \in Tsk!TaskRow, NEW obs \in Tsk!Engine!Lives
    PROVE  /\ Tsk!Target(row, obs) \in Tsk!TaskRow
           /\ Tsk!Target(row, obs) = row \/ Tsk!Target(row, obs).version = row.version + 1
           /\ Tsk!Target(row, obs).state \notin {"absent", "accepted"}
           /\ obs = "absent" =>
                 /\ Tsk!Target(row, obs).state \in {"recovery_pending", "uncertain"}
                 /\ Tsk!Target(row, obs).reason \in {"launch_incomplete", "run_record_missing"}
           /\ obs # "absent" =>
                 /\ Tsk!Target(row, obs).state = Tsk!map_backend_status[obs]
                 /\ Tsk!Target(row, obs).reason \in {"none", "backend_recovery"}
                 /\ obs \in Tsk!Engine!Outcomes =>
                       Tsk!Target(row, obs).reason = "none" /\ Tsk!Target(row, obs).published
                 /\ /\ obs \in Tsk!Engine!Outcomes /\ row.state = Tsk!map_backend_status[obs]
                    /\ row.reason = "none" /\ row.published
                    => Tsk!Target(row, obs) = row
<1> DEFINE state == Tsk!map_backend_status[obs]
           reason == IF state = "recovery_pending" THEN "backend_recovery" ELSE "none"
           next ==
             IF obs = "absent"
             THEN IF row.state \in {"accepted", "queued"}
                  THEN Tsk!Projected(row, "recovery_pending", "launch_incomplete")
                  ELSE Tsk!Projected(row, "uncertain", "run_record_missing")
             ELSE Tsk!Projected(row, state, reason)
<1>1. Tsk!Target(row, obs) = IF next = row THEN row ELSE [next EXCEPT !.version = @ + 1]
  BY DEF Tsk!Target
<1>2. /\ next \in Tsk!TaskRow /\ next.version = row.version
      /\ next.state \notin {"absent", "accepted"}
      /\ obs = "absent" => /\ next.state \in {"recovery_pending", "uncertain"}
                           /\ next.reason \in {"launch_incomplete", "run_record_missing"}
      /\ obs # "absent" =>
           /\ next.state = Tsk!map_backend_status[obs]
           /\ next.reason \in {"none", "backend_recovery"}
           /\ obs \in Tsk!Engine!Outcomes => next.reason = "none" /\ next.published
           /\ obs \in Tsk!Engine!Outcomes /\ row.state = Tsk!map_backend_status[obs]
                 /\ row.reason = "none" /\ row.published => next = row
  <2>1. CASE obs = "absent"
    <3>1. /\ "recovery_pending" \in Tsk!TaskStates /\ "uncertain" \in Tsk!TaskStates
          /\ "launch_incomplete" \in Tsk!Reasons /\ "run_record_missing" \in Tsk!Reasons
      BY DEF Tsk!TaskStates, Tsk!Reasons, Tsk!Unresolved
    <3>2. QED BY <2>1, <3>1, ProjectedFacts
  <2>2. CASE obs # "absent"
    <3>1. /\ state \in Tsk!TaskStates /\ state \notin {"absent", "accepted"}
          /\ reason \in Tsk!Reasons /\ reason \in {"none", "backend_recovery"}
          /\ obs \in Tsk!Engine!Outcomes => state \in Tsk!TerminalStates /\ reason = "none"
      BY <2>2, MapFacts DEF Tsk!TaskStates, Tsk!TerminalStates, Tsk!Reasons, Tsk!Unresolved
    <3>2. next = Tsk!Projected(row, state, reason) /\ state = Tsk!map_backend_status[obs] BY <2>2
    <3> HIDE DEF state, reason, next
    <3>3. QED BY <2>2, <3>1, <3>2, ProjectedFacts
  <2>3. QED BY <2>1, <2>2
<1> HIDE DEF next
<1>3. /\ [next EXCEPT !.version = @ + 1] \in Tsk!TaskRow
      /\ [next EXCEPT !.version = @ + 1].version = row.version + 1
      /\ [next EXCEPT !.version = @ + 1].state = next.state
      /\ [next EXCEPT !.version = @ + 1].reason = next.reason
      /\ [next EXCEPT !.version = @ + 1].published = next.published
  BY <1>2 DEF Tsk!TaskRow
<1>4. QED BY <1>1, <1>2, <1>3
----
(***************************************************************************)
(* Tsk!Threads.                                                                *)
(***************************************************************************)

Pcs == Tsk!Active \cup {"new", "idle", "done", "cancel_query", "cancel"}

\* Writing a field of a thread keeps its type.
LEMMA ThreadFields ==
    ASSUME NEW p \in Tsk!Threads
    PROVE  /\ \A x \in Pcs : [p EXCEPT !.pc = x] \in Tsk!Threads
           /\ \A x \in Tsk!Calls : [p EXCEPT !.task = x] \in Tsk!Threads
           /\ \A x \in Tsk!TaskRow : [p EXCEPT !.seen = x] \in Tsk!Threads
           /\ \A x \in Tsk!Engine!Lives : [p EXCEPT !.obs = x] \in Tsk!Threads
<1>1. \A x \in Pcs : [p EXCEPT !.pc = x] \in Tsk!Threads BY DEF Tsk!Threads, Pcs
<1>2. \A x \in Tsk!Calls : [p EXCEPT !.task = x] \in Tsk!Threads BY DEF Tsk!Threads
<1>3. \A x \in Tsk!TaskRow : [p EXCEPT !.seen = x] \in Tsk!Threads BY DEF Tsk!Threads
<1>4. \A x \in Tsk!Engine!Lives : [p EXCEPT !.obs = x] \in Tsk!Threads BY DEF Tsk!Threads
<1>5. QED BY <1>1, <1>2, <1>3, <1>4

\* The thread that has nothing to do.
LEMMA IdleFacts ==
    /\ Tsk!NoTask \in Tsk!TaskRow /\ Tsk!Idle \in Tsk!Threads
    /\ \A x \in Pcs : [Tsk!Idle EXCEPT !.pc = x] \in Tsk!Threads /\ [Tsk!Idle EXCEPT !.pc = x].pc = x
<1>1. Tsk!NoTask \in Tsk!TaskRow BY DEF Tsk!NoTask, Tsk!TaskRow, Tsk!Reasons
<1>2. Tsk!Idle \in Tsk!Threads BY <1>1 DEF Tsk!Idle, Tsk!Threads, Tsk!Engine!Lives
<1>3. \A x \in Pcs : [Tsk!Idle EXCEPT !.pc = x].pc = x BY DEF Tsk!Idle
<1>4. QED BY <1>1, <1>2, <1>3, ThreadFields

\* A thread that goes to another point of its handler.
LEMMA GotoMoves ==
    ASSUME call \in [Tsk!Actors -> Tsk!Threads], NEW a \in Tsk!Actors, NEW pc \in Pcs,
           Tsk!Goto(a, pc)
    PROVE  \E p \in Tsk!Threads : /\ call' = [call EXCEPT ![a] = p]
                                  /\ p.pc = pc /\ p.task = call[a].task
<1> DEFINE p == [call[a] EXCEPT !.pc = pc]
<1>1. p \in Tsk!Threads BY ThreadFields
<1>2. call' = [call EXCEPT ![a] = p] BY DEF Tsk!Goto
<1>3. p.pc = pc /\ p.task = call[a].task BY DEF Tsk!Threads
<1>4. QED BY <1>1, <1>2, <1>3

\* A thread that takes up a task.
LEMMA GotoWithMoves ==
    ASSUME call \in [Tsk!Actors -> Tsk!Threads], NEW a \in Tsk!Actors, NEW pc \in Pcs,
           NEW t \in Tsk!Calls,
           Tsk!GotoWith(a, pc, t)
    PROVE  \E p \in Tsk!Threads : /\ call' = [call EXCEPT ![a] = p]
                                  /\ p.pc = pc /\ p.task = t
<1> DEFINE p == [call[a] EXCEPT !.pc = pc, !.task = t]
<1>1. p \in Tsk!Threads BY ThreadFields, Zenon
<1>2. call' = [call EXCEPT ![a] = p] BY DEF Tsk!GotoWith
<1>3. p.pc = pc /\ p.task = t BY DEF Tsk!Threads
<1>4. QED BY <1>1, <1>2, <1>3

\* Calls and handlers are different threads.
LEMMA ActorFacts ==
    ASSUME Tsk!TaskConstants
    PROVE  Tsk!Calls \cap Tsk!Handlers = {} /\ Tsk!Calls \subseteq Tsk!Actors /\ Tsk!Handlers \subseteq Tsk!Actors
BY DEF Tsk!TaskConstants, Tsk!Calls, Tsk!Handlers, Tsk!Actors

tableVars == <<task, scope, attempt, run, lost>>

\* Nothing that is said of a thread changes while the tables stay as they are.
LEMMA SameTables ==
    ASSUME UNCHANGED tableVars, NEW p \in Tsk!Threads
    PROVE  /\ WorksOn(p)' <=> WorksOn(p)
           /\ Read(p)' <=> Read(p)
           /\ \A c \in Tsk!Calls : CallOK(c, p)' <=> CallOK(c, p)
<1>1. WorksOn(p)' <=> WorksOn(p) BY DEF tableVars, WorksOn, Tsk!Stored
<1>2. Read(p)' <=> Read(p) BY DEF tableVars, Read
<1>3. \A c \in Tsk!Calls : CallOK(c, p)' <=> CallOK(c, p) BY DEF tableVars, CallOK, Tsk!Stored
<1>4. QED BY <1>1, <1>2, <1>3

\* The rows, the requests and the attempts depend on the tables only.
LEMMA SameRows ==
    ASSUME UNCHANGED tableVars
    PROVE  /\ RowsOK => RowsOK'
           /\ OneTask => OneTask'
<1>1. RowsOK => RowsOK' BY DEF tableVars, RowsOK, RowOK, Tsk!Stored, Tsk!Scoped, Tsk!IsTerminal
<1>2. OneTask => OneTask' BY DEF tableVars, OneTask, Tsk!Stored
<1>3. QED BY <1>1, <1>2

\* One thread moves, and what must hold of it holds; of the others everything holds
\* that the new tables leave valid.
LEMMA ThreadMove ==
    ASSUME Tsk!TaskConstants, Tsk!TypeOK, ThreadsOK, server' = "up",
           NEW a \in Tsk!Actors, NEW p \in Tsk!Threads, call' = [call EXCEPT ![a] = p],
           WorksOn(p)', Read(p)', a \in Tsk!Calls => CallOK(a, p)',
           \A b \in Tsk!Actors \ {a} : \A q \in Tsk!Threads :
               q = call[b] => /\ WorksOn(q)' /\ Read(q)'
                              /\ b \in Tsk!Calls => CallOK(b, q)'
    PROVE  ThreadsOK'
<1>1. /\ call \in [Tsk!Actors -> Tsk!Threads] /\ call' \in [Tsk!Actors -> Tsk!Threads]
      /\ call'[a] = p /\ \A b \in Tsk!Actors \ {a} : call'[b] = call[b]
  BY DEF Tsk!TypeOK
<1>2. ASSUME NEW b \in Tsk!Actors
      PROVE  WorksOn(call[b])' /\ Read(call[b])' /\ (b \in Tsk!Calls => CallOK(b, call[b])')
  <2>1. PICK q \in Tsk!Threads : q = call'[b] BY <1>1
  <2>2. WorksOn(q)' /\ Read(q)' /\ (b \in Tsk!Calls => CallOK(b, q)') BY <1>1, <2>1
  <2>3. WorksOn(call[b])' BY <2>1, <2>2 DEF WorksOn
  <2>4. Read(call[b])' BY <2>1, <2>2 DEF Read
  <2>5. b \in Tsk!Calls => CallOK(b, call[b])' BY <2>1, <2>2 DEF CallOK
  <2>6. QED BY <2>3, <2>4, <2>5
<1>3. QED BY <1>2, ActorFacts DEF ThreadsOK

\* A thread of the serving server moves and the tables stay as they are.
LEMMA QuietMove ==
    ASSUME Tsk!TaskConstants, IInv, server = "up",
           NEW a \in Tsk!Actors, NEW p \in Tsk!Threads, call' = [call EXCEPT ![a] = p],
           UNCHANGED <<enforcement, tableVars, adjudicated, server, todo, upsets>>,
           p.pc \notin {"new", "idle", "done"} => p.task \in Tsk!Calls,
           WorksOn(p), Read(p), a \in Tsk!Calls => CallOK(a, p),
           a \in Tsk!Calls /\ p.pc \notin Tsk!Active =>
               ~(task[a].state = "accepted" /\ Tsk!AttemptHolds(a)),
           a \in Tsk!Calls /\ call[a].pc \in {"launch", "attach"} => p.pc \in {"launch", "attach"}
    PROVE  IInv'
<1> USE DEF IInv
<1>1. /\ call \in [Tsk!Actors -> Tsk!Threads] /\ call' \in [Tsk!Actors -> Tsk!Threads]
      /\ call'[a] = p /\ \A b \in Tsk!Actors \ {a} : call'[b] = call[b]
  BY DEF Tsk!TypeOK
<1>2. Tsk!TypeOK' BY <1>1 DEF Tsk!TypeOK, tableVars
<1>3. UNCHANGED tableVars
  OBVIOUS
<1>4. RowsOK' /\ OneTask' BY <1>3, SameRows
<1>5. ThreadsOK'
  <2>1. WorksOn(p)' /\ Read(p)' /\ (a \in Tsk!Calls => CallOK(a, p)') BY <1>3, SameTables
  <2>2. ASSUME NEW b \in Tsk!Actors \ {a}, NEW q \in Tsk!Threads, q = call[b]
        PROVE  /\ WorksOn(q)' /\ Read(q)'
               /\ b \in Tsk!Calls => CallOK(b, q)'
    <3>1. WorksOn(q) /\ Read(q) /\ (b \in Tsk!Calls => CallOK(b, q)) BY <2>2 DEF ThreadsOK
    <3>2. QED BY <3>1, <1>3, SameTables
  <2>3. QED BY <2>1, <2>2, ThreadMove
<1>6. StartupOK'
  <2>1. ASSUME NEW t \in Tsk!Calls, Tsk!Scoped(t), Tsk!RunStored(t),
               call'[t].pc \notin {"launch", "attach"}
        PROVE  attempt[t] \in {"attached", "quarantined"}
    <3>1. call[t].pc \notin {"launch", "attach"} BY <1>1, <2>1, ActorFacts
    <3>2. QED BY <2>1, <3>1 DEF StartupOK
  <2>2. QED BY <2>1 DEF StartupOK, tableVars, Tsk!Scoped, Tsk!RunStored
<1>7. Tsk!NoForgottenTask'
  <2>1. ASSUME NEW t \in Tsk!Calls, task[t].state = "accepted", Tsk!AttemptHolds(t)
        PROVE  call'[t].pc \in Tsk!Active
    BY <1>1, <2>1, ActorFacts DEF Tsk!NoForgottenTask
  <2>2. QED BY <2>1 DEF Tsk!NoForgottenTask, tableVars, Tsk!AttemptHolds, Tsk!Scoped
<1>8. QED BY <1>2, <1>4, <1>5, <1>6, <1>7
----
(***************************************************************************)
(* The steps of the threads that change no table.                          *)
(***************************************************************************)

\* The points of a handler the actions go to.
LEMMA PcFacts ==
    /\ "new" \in Pcs /\ "idle" \in Pcs /\ "done" \in Pcs /\ "cancel_query" \in Pcs
    /\ "cancel" \in Pcs /\ "reserve_scoped" \in Pcs /\ "reserve" \in Pcs /\ "launchable" \in Pcs
    /\ "launch" \in Pcs /\ "attach" \in Pcs /\ "mark" \in Pcs /\ "observe" \in Pcs /\ "write" \in Pcs
BY DEF Pcs, Tsk!Active

\* A handler or a call returns: nothing is said of a thread that has returned.
LEMMA Returned ==
    ASSUME NEW p \in Tsk!Threads, p.pc \in {"idle", "done"}
    PROVE  /\ WorksOn(p) /\ Read(p) /\ \A c \in Tsk!Calls : CallOK(c, p)
           /\ WorksOn(p)' /\ Read(p)' /\ \A c \in Tsk!Calls : CallOK(c, p)'
BY DEF WorksOn, Read, CallOK, Working

\* A call returns without having left its own task behind as accepted.
LEMMA NothingLeft ==
    ASSUME Tsk!TaskConstants, IInv, NEW c \in Tsk!Calls,
           ~Tsk!Stored(c) \/ (call[c].pc \in Working /\ ~Tsk!AttemptHolds(call[c].task))
    PROVE  ~(task[c].state = "accepted" /\ Tsk!AttemptHolds(c))
<1>1. CASE ~Tsk!Stored(c) BY <1>1 DEF Tsk!Stored
<1>2. CASE Tsk!Stored(c) /\ call[c].pc \in Working /\ ~Tsk!AttemptHolds(call[c].task)
  <2>1. Tsk!Stored(call[c].task) /\ RequestOf[call[c].task] = RequestOf[c] /\ call[c].task \in Tsk!Calls
    <3>1. WorksOn(call[c]) /\ CallOK(c, call[c]) BY ActorFacts DEF IInv, ThreadsOK
    <3>2. call[c].task \in Tsk!Calls BY <1>2, ActorFacts DEF IInv, Tsk!TypeOK, Working
    <3>3. QED BY <1>2, <3>1, <3>2 DEF WorksOn, CallOK
  <2>2. call[c].task = c BY <1>2, <2>1 DEF IInv, OneTask
  <2>3. QED BY <1>2, <2>2
<1>3. QED BY <1>1, <1>2

\* reconcile_task reads the row and the backend: what it read is the row, and the
\* two fit together.
LEMMA ObserveReads ==
    ASSUME Tsk!TaskConstants, IInv, NEW t \in Tsk!Calls, Tsk!Stored(t), Tsk!AttemptHolds(t),
           Tsk!IsTerminal(task[t]) /\ task[t].reason # "superseded" => t \notin lost,
           NEW p \in Tsk!Threads, p.task = t, p.seen = task[t], p.obs = Tsk!Observation(t)
    PROVE  Read(p)
<1>1. RowOK(t) /\ task[t] \in Tsk!TaskRow /\ run[t] \in Tsk!Engine!Lives
  BY DEF IInv, RowsOK, Tsk!TypeOK
<1>2. task[t].reason # "superseded" BY <1>1 DEF RowOK, Tsk!AttemptHolds
<1>3. /\ p.obs # "absent" => t \notin lost /\ p.obs = run[t]
      /\ t \notin lost => p.obs = run[t]
  BY DEF Tsk!Observation, Tsk!RunStored
<1>4. ASSUME Tsk!IsTerminal(p.seen)
      PROVE  Tsk!Target(p.seen, p.obs) = p.seen
  <2>1. /\ p.seen.reason = "none" /\ p.seen.published /\ run[t] \in Tsk!Engine!Outcomes
        /\ Tsk!map_backend_status[run[t]] = p.seen.state
    BY <1>1, <1>2, <1>4 DEF RowOK
  <2>2. p.obs = run[t] /\ p.obs # "absent" BY <1>2, <1>3, <1>4, <2>1 DEF Tsk!Engine!Outcomes
  <2>3. QED BY <1>1, <2>1, <2>2, TargetFacts
<1>5. ASSUME p.obs = "waiting"
      PROVE  \/ p.seen.state \in {"accepted", "queued"}
             \/ p.seen.reason \in {"launch_incomplete", "run_record_missing"}
  BY <1>1, <1>2, <1>3, <1>5 DEF RowOK, Tsk!Stored, Tsk!TaskRow, Tsk!Reasons, Tsk!Unresolved
<1>6. task[t].version \in Nat BY <1>1 DEF Tsk!TaskRow
<1>7. QED BY <1>3, <1>4, <1>5, <1>6 DEF Read, Tsk!Stored, Tsk!Engine!Outcomes

\* Observe keeps the invariant.
LEMMA ObserveInv ==
    ASSUME Tsk!TaskConstants, IInv, NEW a \in Tsk!Actors, Tsk!Observe(a)
    PROVE  IInv'
<1> DEFINE t == call[a].task
<1>1. /\ call[a].pc = "observe" /\ server = "up"
      /\ UNCHANGED <<enforcement, tableVars, adjudicated, server, todo, upsets>>
  BY DEF Tsk!Observe, Tsk!At, Tsk!scopeVars, Tsk!engineVars, Tsk!serverVars, tableVars
<1>2. call \in [Tsk!Actors -> Tsk!Threads] /\ call[a] \in Tsk!Threads /\ t \in Tsk!Calls
  BY <1>1 DEF IInv, Tsk!TypeOK
<1>3. /\ Tsk!Stored(t) /\ (Tsk!IsTerminal(task[t]) /\ task[t].reason # "superseded" => t \notin lost)
      /\ a \in Tsk!Calls => RequestOf[t] = RequestOf[a]
  BY <1>1 DEF IInv, ThreadsOK, WorksOn, CallOK, Working
<1>4. CASE Tsk!AttemptHolds(t)
  <2>1. PICK p \in Tsk!Threads : /\ call' = [call EXCEPT ![a] = p]
                                 /\ p.pc = "write" /\ p.task = t /\ p.seen = task[t]
                                 /\ p.obs = Tsk!Observation(t)
    <3> DEFINE p == [call[a] EXCEPT !.pc = "write", !.seen = task[t], !.obs = Tsk!Observation(t)]
    <3>1. task[t] \in Tsk!TaskRow /\ Tsk!Observation(t) \in Tsk!Engine!Lives
      BY <1>2 DEF IInv, Tsk!TypeOK, Tsk!Observation, Tsk!Engine!Lives
    <3>2. p \in Tsk!Threads BY <1>2, <3>1, ThreadFields, PcFacts, Zenon
    <3>3. call' = [call EXCEPT ![a] = p] BY <1>4 DEF Tsk!Observe
    <3>4. p.pc = "write" /\ p.task = t /\ p.seen = task[t] /\ p.obs = Tsk!Observation(t)
      BY <1>2 DEF Tsk!Threads
    <3>5. QED BY <3>2, <3>3, <3>4
  <2>2. Read(p) BY <1>2, <1>3, <1>4, <2>1, ObserveReads
  <2>3. WorksOn(p) /\ (a \in Tsk!Calls => CallOK(a, p)) BY <1>3, <2>1 DEF WorksOn, CallOK, Working
  <2>4. "write" \in Tsk!Active BY DEF Tsk!Active
  <2>5. QED BY <1>1, <1>2, <2>1, <2>2, <2>3, <2>4, QuietMove
<1>5. CASE ~Tsk!AttemptHolds(t)
  <2>1. PICK p \in Tsk!Threads : call' = [call EXCEPT ![a] = p] /\ p.pc = Tsk!AfterReconcile(a)
    BY <1>5, IdleFacts, PcFacts DEF Tsk!Observe, Tsk!AfterReconcile
  <2>2. p.pc \in {"idle", "done"} BY <2>1 DEF Tsk!AfterReconcile
  <2>3. WorksOn(p) /\ Read(p) /\ (a \in Tsk!Calls => CallOK(a, p)) BY <2>2, Returned
  <2>4. a \in Tsk!Calls => ~(task[a].state = "accepted" /\ Tsk!AttemptHolds(a))
    BY <1>1, <1>5, NothingLeft DEF Working
  <2>5. QED BY <1>1, <1>2, <2>1, <2>2, <2>3, <2>4, QuietMove
<1>6. QED BY <1>4, <1>5

\* A call takes up a stored, unfinished task of its own request: a replay.
LEMMA ReplayInv ==
    ASSUME Tsk!TaskConstants, IInv, server = "up", NEW c \in Tsk!Calls, NEW t \in Tsk!Matching(c),
           call[c].pc \in {"new", "reserve", "reserve_scoped"}, ~Tsk!IsTerminal(task[t]),
           Tsk!GotoWith(c, "observe", t),
           UNCHANGED <<enforcement, tableVars, adjudicated, server, todo, upsets>>
    PROVE  IInv'
<1>1. call \in [Tsk!Actors -> Tsk!Threads] /\ c \in Tsk!Actors /\ t \in Tsk!Calls
  BY ActorFacts DEF IInv, Tsk!TypeOK, Tsk!Matching
<1>2. Tsk!Stored(t) /\ RequestOf[t] = RequestOf[c] BY DEF Tsk!Matching
<1>3. PICK p \in Tsk!Threads : call' = [call EXCEPT ![c] = p] /\ p.pc = "observe" /\ p.task = t
  BY <1>1, GotoWithMoves, PcFacts
<1>4. WorksOn(p) /\ Read(p) /\ CallOK(c, p) /\ "observe" \in Tsk!Active
  BY <1>2, <1>3 DEF WorksOn, Read, CallOK, Working, Tsk!Active
<1>5. QED BY <1>1, <1>3, <1>4, QuietMove

\* A call returns before it has stored anything.
LEMMA RefusalInv ==
    ASSUME Tsk!TaskConstants, IInv, server = "up", NEW c \in Tsk!Calls,
           call[c].pc \in {"new", "reserve", "reserve_scoped"}, Tsk!Goto(c, "done"),
           UNCHANGED <<enforcement, tableVars, adjudicated, server, todo, upsets>>
    PROVE  IInv'
<1>1. call \in [Tsk!Actors -> Tsk!Threads] /\ c \in Tsk!Actors BY ActorFacts DEF IInv, Tsk!TypeOK
<1>2. PICK p \in Tsk!Threads : call' = [call EXCEPT ![c] = p] /\ p.pc = "done"
  BY <1>1, GotoMoves, PcFacts
<1>3. WorksOn(p) /\ Read(p) /\ CallOK(c, p) BY <1>2, Returned
<1>4. ~Tsk!Stored(c) BY DEF IInv, ThreadsOK, CallOK
<1>5. ~(task[c].state = "accepted" /\ Tsk!AttemptHolds(c)) BY <1>4, NothingLeft
<1>6. QED BY <1>1, <1>2, <1>3, <1>5, QuietMove
\* StartFind keeps the invariant.
LEMMA StartFindInv ==
    ASSUME Tsk!TaskConstants, IInv, NEW c \in Tsk!Calls, Tsk!StartFind(c)
    PROVE  IInv'
<1>1. /\ server = "up" /\ call[c].pc = "new"
      /\ UNCHANGED <<enforcement, tableVars, adjudicated, server, todo, upsets>>
  BY DEF Tsk!StartFind, Tsk!scopeVars, Tsk!engineVars, Tsk!serverVars, tableVars
<1>2. \/ Tsk!Goto(c, "done")
      \/ \E t \in Tsk!Matching(c) : ~Tsk!IsTerminal(task[t]) /\ Tsk!GotoWith(c, "observe", t)
      \/ \E pc \in {"reserve", "reserve_scoped"} : Tsk!GotoWith(c, pc, c)
  BY DEF Tsk!StartFind
<1>3. CASE Tsk!Goto(c, "done") BY <1>1, <1>3, RefusalInv
<1>4. CASE \E t \in Tsk!Matching(c) : ~Tsk!IsTerminal(task[t]) /\ Tsk!GotoWith(c, "observe", t)
  BY <1>1, <1>4, ReplayInv
<1>5. CASE \E pc \in {"reserve", "reserve_scoped"} : Tsk!GotoWith(c, pc, c)
  <2>1. call \in [Tsk!Actors -> Tsk!Threads] /\ c \in Tsk!Actors BY ActorFacts DEF IInv, Tsk!TypeOK
  <2>2. PICK p \in Tsk!Threads : /\ call' = [call EXCEPT ![c] = p]
                                 /\ p.pc \in {"reserve", "reserve_scoped"} /\ p.task = c
    BY <1>5, <2>1, GotoWithMoves, PcFacts
  <2>3. ~Tsk!Stored(c) BY <1>1 DEF IInv, ThreadsOK, CallOK
  <2>4. WorksOn(p) /\ Read(p) /\ CallOK(c, p) /\ p.pc \in Tsk!Active
    BY <2>2, <2>3 DEF WorksOn, Read, CallOK, Working, Tsk!Active
  <2>5. QED BY <1>1, <2>1, <2>2, <2>4, QuietMove
<1>6. QED BY <1>2, <1>3, <1>4, <1>5

\* Launchable keeps the invariant.
LEMMA LaunchableInv ==
    ASSUME Tsk!TaskConstants, IInv, NEW c \in Tsk!Calls, Tsk!Launchable(c)
    PROVE  IInv'
<1>1. /\ server = "up" /\ call[c].pc = "launchable"
      /\ UNCHANGED <<enforcement, tableVars, adjudicated, server, todo, upsets>>
  BY DEF Tsk!Launchable, Tsk!At, Tsk!scopeVars, Tsk!engineVars, Tsk!serverVars, tableVars
<1>2. \E pc \in {"launch", "attach"} : Tsk!Goto(c, pc) BY DEF Tsk!Launchable
<1>3. call \in [Tsk!Actors -> Tsk!Threads] /\ c \in Tsk!Actors BY ActorFacts DEF IInv, Tsk!TypeOK
<1>4. PICK p \in Tsk!Threads : /\ call' = [call EXCEPT ![c] = p]
                               /\ p.pc \in {"launch", "attach"} /\ p.task = call[c].task
  BY <1>2, <1>3, GotoMoves, PcFacts
<1>5. WorksOn(call[c]) /\ CallOK(c, call[c]) BY <1>3 DEF IInv, ThreadsOK
<1>6. WorksOn(p) /\ Read(p) /\ CallOK(c, p) /\ p.pc \in Tsk!Active /\ p.task \in Tsk!Calls
  BY <1>1, <1>4, <1>5 DEF WorksOn, Read, CallOK, Working, Tsk!Active
<1>7. QED BY <1>1, <1>3, <1>4, <1>6, QuietMove

\* Status and Cancel keep the invariant: both take up a stored, unfinished task.
LEMMA RequestInv ==
    ASSUME Tsk!TaskConstants, IInv, NEW h \in Tsk!Handlers, NEW t \in Tsk!Calls,
           Tsk!Status(h, t) \/ Tsk!Cancel(h, t)
    PROVE  IInv'
<1>1. /\ server = "up" /\ call[h].pc = "idle" /\ Tsk!Stored(t) /\ ~Tsk!IsTerminal(task[t])
      /\ UNCHANGED <<enforcement, tableVars, adjudicated, server, todo, upsets>>
  BY DEF Tsk!Status, Tsk!Cancel, Tsk!At, Tsk!scopeVars, Tsk!engineVars, Tsk!serverVars, tableVars
<1>2. \E pc \in {"observe", "cancel_query"} : Tsk!GotoWith(h, pc, t) BY DEF Tsk!Status, Tsk!Cancel
<1>3. call \in [Tsk!Actors -> Tsk!Threads] /\ h \in Tsk!Actors /\ h \notin Tsk!Calls
  BY ActorFacts DEF IInv, Tsk!TypeOK
<1>4. PICK p \in Tsk!Threads : /\ call' = [call EXCEPT ![h] = p]
                               /\ p.pc \in {"observe", "cancel_query"} /\ p.task = t
  BY <1>2, <1>3, GotoWithMoves, PcFacts
<1>5. WorksOn(p) /\ Read(p) BY <1>1, <1>4 DEF WorksOn, Read
<1>6. QED BY <1>1, <1>3, <1>4, <1>5, QuietMove

\* CancelQuery keeps the invariant.
LEMMA CancelQueryInv ==
    ASSUME Tsk!TaskConstants, IInv, NEW h \in Tsk!Handlers, Tsk!CancelQuery(h)
    PROVE  IInv'
<1>1. /\ server = "up" /\ call[h].pc = "cancel_query"
      /\ UNCHANGED <<enforcement, tableVars, adjudicated, server, todo, upsets>>
  BY DEF Tsk!CancelQuery, Tsk!At, Tsk!scopeVars, Tsk!engineVars, Tsk!serverVars, tableVars
<1>2. \E pc \in {"observe", "cancel"} : Tsk!Goto(h, pc) BY DEF Tsk!CancelQuery
<1>3. call \in [Tsk!Actors -> Tsk!Threads] /\ h \in Tsk!Actors /\ h \notin Tsk!Calls
  BY ActorFacts DEF IInv, Tsk!TypeOK
<1>4. PICK p \in Tsk!Threads : /\ call' = [call EXCEPT ![h] = p]
                               /\ p.pc \in {"observe", "cancel"} /\ p.task = call[h].task
  BY <1>2, <1>3, GotoMoves, PcFacts
<1>5. WorksOn(call[h]) /\ call[h].task \in Tsk!Calls BY <1>1, <1>3 DEF IInv, ThreadsOK, Tsk!TypeOK
<1>6. WorksOn(p) /\ Read(p) BY <1>1, <1>4, <1>5 DEF WorksOn, Read, Working
<1>7. QED BY <1>1, <1>3, <1>4, <1>5, <1>6, QuietMove

----
(***************************************************************************)
(* Rows.                                                                   *)
(***************************************************************************)

\* What a reconcile may know: the observation of the run still holds, and it fits
\* the row it is applied to.
Knows(t, obs) ==
    /\ obs \in Tsk!Engine!Lives
    /\ obs # "absent" => t \notin lost
    /\ obs \in Tsk!Engine!Outcomes => run[t] = obs
    /\ obs \notin {"absent", "waiting"} => run[t] \notin {"absent", "waiting"}
    /\ Tsk!IsTerminal(task[t]) => Tsk!Target(task[t], obs) = task[t]

\* The row is replaced by what a reconcile makes of it.
Reconciled(t, obs) ==
    /\ task' = [task EXCEPT ![t] = Tsk!Target(task[t], obs)]
    /\ UNCHANGED <<scope, attempt, run, lost>>

\* A reconciled row is sound.
LEMMA ReconciledRows ==
    ASSUME Tsk!TaskConstants, IInv, NEW t \in Tsk!Calls, Tsk!Stored(t), NEW obs, Knows(t, obs),
           Reconciled(t, obs)
    PROVE  /\ task' \in [Tsk!Calls -> Tsk!TaskRow]
           /\ RowsOK' /\ OneTask'
           /\ Tsk!Stored(t)' /\ task'[t].state # "accepted"
           /\ \A u \in Tsk!Calls \ {t} : task'[u] = task[u]
<1> DEFINE row == Tsk!Target(task[t], obs)
<1>1. task \in [Tsk!Calls -> Tsk!TaskRow] /\ task[t] \in Tsk!TaskRow /\ RowOK(t)
  BY DEF IInv, Tsk!TypeOK, RowsOK
<1>2. /\ row \in Tsk!TaskRow /\ row.state \notin {"absent", "accepted"}
      /\ row = task[t] \/ row.version = task[t].version + 1
      /\ obs = "absent" => /\ row.state \in {"recovery_pending", "uncertain"}
                           /\ row.reason \in {"launch_incomplete", "run_record_missing"}
      /\ obs # "absent" =>
           /\ row.state = Tsk!map_backend_status[obs]
           /\ row.reason \in {"none", "backend_recovery"}
           /\ obs \in Tsk!Engine!Outcomes => row.reason = "none" /\ row.published
  BY <1>1, TargetFacts DEF Knows
<1>3. task' = [task EXCEPT ![t] = row] BY DEF Reconciled
<1> HIDE DEF row
<1>4. task' \in [Tsk!Calls -> Tsk!TaskRow] /\ task'[t] = row /\ \A u \in Tsk!Calls \ {t} : task'[u] = task[u]
  BY <1>1, <1>2, <1>3
<1>5. RowOK(t)'
  <2>1. Tsk!Scoped(t)' <=> attempt'[t] # "none" BY <1>1 DEF RowOK, Tsk!Scoped, Reconciled
  <2>2. ASSUME row.state \in Tsk!TerminalStates
        PROVE  /\ row.reason = "none" /\ row.published /\ run[t] \in Tsk!Engine!Outcomes
               /\ Tsk!map_backend_status[run[t]] = row.state
    <3>1. obs # "absent" /\ obs \in Tsk!Engine!Lives BY <1>2, <2>2 DEF Tsk!TerminalStates, Knows
    <3>2. obs \in Tsk!Engine!Outcomes BY <1>2, <2>2, <3>1, MapFacts
    <3>3. QED BY <1>2, <3>1, <3>2 DEF Knows
  <2>3. ASSUME row.state # "queued", row.reason \in {"none", "backend_recovery"}
        PROVE  run[t] \notin {"absent", "waiting"}
    <3>1. obs # "absent" /\ obs \in Tsk!Engine!Lives BY <1>2, <2>3 DEF Knows
    <3>2. obs # "waiting" BY <1>2, <2>3, <3>1, MapFacts
    <3>3. QED BY <3>1, <3>2 DEF Knows
  <2>4. row.reason # "superseded" BY <1>2
  <2>5. run' = run BY DEF Reconciled
  <2>6. QED BY <1>2, <1>4, <2>1, <2>2, <2>3, <2>4, <2>5 DEF RowOK, Tsk!Stored, Tsk!IsTerminal
<1>6. ASSUME NEW u \in Tsk!Calls \ {t} PROVE RowOK(u)'
  BY <1>4 DEF IInv, RowsOK, RowOK, Tsk!Stored, Tsk!Scoped, Tsk!IsTerminal, Reconciled
<1>7. Tsk!Stored(t)' /\ task'[t].state # "accepted" BY <1>2, <1>4 DEF Tsk!Stored
<1>8. OneTask' BY <1>4 DEF IInv, OneTask, Tsk!Stored
<1>9. QED BY <1>4, <1>5, <1>6, <1>7, <1>8 DEF RowsOK

\* What holds of a thread still holds when a row has been reconciled.
LEMMA ReconciledThreads ==
    ASSUME Tsk!TaskConstants, IInv, NEW t \in Tsk!Calls, Tsk!Stored(t), NEW obs, Knows(t, obs),
           Reconciled(t, obs), NEW q \in Tsk!Threads, q.pc \in Working => q.task \in Tsk!Calls
    PROVE  /\ WorksOn(q) => WorksOn(q)'
           /\ Read(q) => Read(q)'
           /\ \A c \in Tsk!Calls : CallOK(c, q) => CallOK(c, q)'
<1> DEFINE row == Tsk!Target(task[t], obs)
<1>1. task \in [Tsk!Calls -> Tsk!TaskRow] /\ task[t] \in Tsk!TaskRow BY DEF IInv, Tsk!TypeOK
<1>2. /\ row \in Tsk!TaskRow /\ row.state \notin {"absent", "accepted"}
      /\ row = task[t] \/ row.version = task[t].version + 1
      /\ obs = "absent" => row.state \in {"recovery_pending", "uncertain"}
  BY <1>1, TargetFacts DEF Knows
<1>3. task' = [task EXCEPT ![t] = row] /\ UNCHANGED <<scope, attempt, run, lost>> BY DEF Reconciled
<1> HIDE DEF row
<1>4. task'[t] = row /\ \A u \in Tsk!Calls \ {t} : task'[u] = task[u] BY <1>1, <1>2, <1>3
<1>5. WorksOn(q) => WorksOn(q)'
  <2>1. row.state \in Tsk!TerminalStates => t \notin lost BY <1>2 DEF Tsk!TerminalStates, Knows
  <2>2. QED BY <1>2, <1>3, <1>4, <2>1 DEF WorksOn, Tsk!Stored, Tsk!IsTerminal
<1>6. Read(q) => Read(q)'
  <2>1. task[t].version \in Nat /\ q.seen.version \in Nat BY <1>1 DEF Tsk!TaskRow, Tsk!Threads
  <2>2. QED BY <1>2, <1>3, <1>4, <2>1 DEF Read, Working
<1>7. \A c \in Tsk!Calls : CallOK(c, q) => CallOK(c, q)' BY <1>3, <1>4, <1>2 DEF CallOK, Tsk!Stored
<1>8. QED BY <1>5, <1>6, <1>7
\* A thread that works on a task has one.
LEMMA TaskOf ==
    ASSUME IInv, NEW b \in Tsk!Actors, NEW q, q = call[b]
    PROVE  /\ q \in Tsk!Threads /\ (q.pc \in Working => q.task \in Tsk!Calls)
           /\ WorksOn(q) /\ Read(q)
BY DEF IInv, Tsk!TypeOK, ThreadsOK, Working

\* WriteRow keeps the invariant: the guard lets only the row through that was read.
LEMMA WriteRowInv ==
    ASSUME Tsk!TaskConstants, IInv, NEW a \in Tsk!Actors, Tsk!WriteRow(a)
    PROVE  IInv'
<1> USE DEF IInv
<1>1. PICK t : t = call[a].task
  OBVIOUS
<1>2. PICK o \in Tsk!Engine!Lives : o = call[a].obs BY DEF Tsk!TypeOK, Tsk!Threads
<1>3. /\ call[a].pc = "write" /\ server = "up"
      /\ UNCHANGED <<enforcement, scope, attempt, adjudicated, run, lost, server, todo, upsets>>
  BY DEF Tsk!WriteRow, Tsk!At, Tsk!scopeVars, Tsk!engineVars, Tsk!serverVars
<1>4. t \in Tsk!Calls /\ Tsk!Stored(t) /\ (a \in Tsk!Calls => RequestOf[t] = RequestOf[a])
  BY <1>1, <1>3, TaskOf DEF ThreadsOK, WorksOn, CallOK, Working
<1>5. /\ call[a].seen.version <= task[t].version
      /\ call[a].seen.version = task[t].version => call[a].seen = task[t]
  BY <1>1, <1>3 DEF ThreadsOK, Read
<1>6. \/ Reconciled(t, o) /\ Knows(t, o)
      \/ UNCHANGED tableVars /\ task[t].state # "accepted"
  <2>1. CASE Tsk!GuardHolds(task[t], call[a].seen)
    <3>1. call[a].seen = task[t] BY <1>5, <2>1 DEF Tsk!GuardHolds
    <3>2. Knows(t, o) BY <1>1, <1>2, <1>3, <3>1 DEF ThreadsOK, Read, Knows
    <3>3. Reconciled(t, o) BY <1>1, <1>2, <1>3, <2>1, <3>1 DEF Tsk!WriteRow, Reconciled
    <3>4. QED BY <3>2, <3>3
  <2>2. CASE ~Tsk!GuardHolds(task[t], call[a].seen)
    <3>1. task' = task BY <1>1, <2>2 DEF Tsk!WriteRow
    <3>2. task[t].state = "accepted" => task[t].version = 0 BY <1>4 DEF RowsOK, RowOK
    <3>3. call[a].seen.version \in Nat BY DEF Tsk!TypeOK, Tsk!Threads, Tsk!TaskRow
    <3>4. task[t].state # "accepted" BY <1>5, <2>2, <3>2, <3>3 DEF Tsk!GuardHolds
    <3>5. QED BY <1>3, <3>1, <3>4 DEF tableVars
  <2>3. QED BY <2>1, <2>2
<1>7. /\ task' \in [Tsk!Calls -> Tsk!TaskRow] /\ RowsOK' /\ OneTask' /\ task'[t].state # "accepted"
      /\ \A u \in Tsk!Calls \ {t} : task'[u] = task[u]
  <2>1. CASE Reconciled(t, o) /\ Knows(t, o) BY <1>4, <2>1, ReconciledRows
  <2>2. CASE UNCHANGED tableVars /\ task[t].state # "accepted"
    BY <2>2, SameRows DEF Tsk!TypeOK, tableVars
  <2>3. QED BY <1>6, <2>1, <2>2
<1>8. ASSUME NEW q \in Tsk!Threads, q.pc \in Working => q.task \in Tsk!Calls
      PROVE  /\ WorksOn(q) => WorksOn(q)'
             /\ Read(q) => Read(q)'
             /\ \A c \in Tsk!Calls : CallOK(c, q) => CallOK(c, q)'
  BY <1>4, <1>6, <1>8, ReconciledThreads, SameTables
<1>9. PICK p \in Tsk!Threads : call' = [call EXCEPT ![a] = p] /\ p.pc \in {"idle", "done"}
  BY IdleFacts, PcFacts DEF Tsk!WriteRow, Tsk!AfterReconcile
<1>10. /\ call' \in [Tsk!Actors -> Tsk!Threads]
       /\ call'[a] = p /\ \A b \in Tsk!Actors \ {a} : call'[b] = call[b]
  BY <1>9 DEF Tsk!TypeOK
<1>11. Tsk!TypeOK' BY <1>3, <1>7, <1>9, <1>10 DEF Tsk!TypeOK
<1>12. ThreadsOK'
  <2>1. WorksOn(p)' /\ Read(p)' /\ (a \in Tsk!Calls => CallOK(a, p)') BY <1>9, Returned
  <2>2. ASSUME NEW b \in Tsk!Actors \ {a}, NEW q \in Tsk!Threads, q = call[b]
        PROVE  WorksOn(q)' /\ Read(q)' /\ (b \in Tsk!Calls => CallOK(b, q)')
    <3>1. WorksOn(q) /\ Read(q) /\ (b \in Tsk!Calls => CallOK(b, q)) BY <2>2 DEF ThreadsOK
    <3>2. QED BY <2>2, <3>1, <1>8, TaskOf
  <2>3. QED BY <1>3, <1>9, <2>1, <2>2, ThreadMove
<1>13. StartupOK'
  <2>1. ASSUME NEW u \in Tsk!Calls, Tsk!Scoped(u), Tsk!RunStored(u),
               call'[u].pc \notin {"launch", "attach"}
        PROVE  attempt[u] \in {"attached", "quarantined"}
    BY <1>3, <1>10, <2>1, ActorFacts DEF StartupOK
  <2>2. QED BY <1>3, <2>1 DEF StartupOK, Tsk!Scoped, Tsk!RunStored
<1>14. Tsk!NoForgottenTask'
  <2>1. ASSUME NEW u \in Tsk!Calls, task'[u].state = "accepted", Tsk!AttemptHolds(u)
        PROVE  call'[u].pc \in Tsk!Active
    <3>1. u # t /\ task[u].state = "accepted" BY <1>7, <2>1
    <3>2. call[u].pc \in Tsk!Active BY <1>3, <2>1, <3>1 DEF Tsk!NoForgottenTask
    <3>3. u # a BY <1>4, <3>1 DEF OneTask, Tsk!Stored
    <3>4. QED BY <1>10, <3>2, <3>3, ActorFacts
  <2>2. QED BY <1>3, <2>1 DEF Tsk!NoForgottenTask, Tsk!AttemptHolds, Tsk!Scoped
<1>15. QED BY <1>7, <1>11, <1>12, <1>13, <1>14

\* The transaction of a new request: row, reservation and attempt appear together.
LEMMA InsertInv ==
    ASSUME Tsk!TaskConstants, IInv, NEW c \in Tsk!Calls, server = "up", Tsk!Matching(c) = {},
           call[c].pc \in {"reserve", "reserve_scoped"},
           task' = [task EXCEPT ![c] = Tsk!Accepted],
           \/ /\ scope' = [scope EXCEPT ![c] = "attached"]
              /\ attempt' = [attempt EXCEPT ![c] = "reserved"]
           \/ UNCHANGED <<scope, attempt>>,
           \E pc \in {"launchable", "launch"} : Tsk!Goto(c, pc),
           UNCHANGED <<enforcement, adjudicated, run, lost, server, todo, upsets>>
    PROVE  IInv'
<1> USE DEF IInv
<1>1. c \in Tsk!Actors /\ call \in [Tsk!Actors -> Tsk!Threads] /\ task \in [Tsk!Calls -> Tsk!TaskRow]
  BY ActorFacts DEF Tsk!TypeOK
<1>2. ~Tsk!Stored(c) /\ call[c].task = c /\ RowOK(c) BY DEF ThreadsOK, CallOK, RowsOK
<1>3. task[c] = Tsk!NoTask /\ scope[c] = "none" /\ attempt[c] = "none" /\ run[c] = "absent"
  BY <1>2 DEF RowOK, Tsk!Scoped
<1>4. /\ Tsk!Accepted \in Tsk!TaskRow /\ Tsk!Accepted.state = "accepted" /\ Tsk!Accepted.reason = "none"
      /\ Tsk!Accepted.version = 0
  BY DEF Tsk!Accepted, Tsk!NoTask, Tsk!TaskRow, Tsk!TaskStates, Tsk!Reasons
<1>5. /\ task' \in [Tsk!Calls -> Tsk!TaskRow] /\ task'[c] = Tsk!Accepted
      /\ \A u \in Tsk!Calls \ {c} : task'[u] = task[u]
  BY <1>1, <1>4
<1>6. /\ scope' \in [Tsk!Calls -> {"none", "attached", "quarantined"}]
      /\ attempt' \in [Tsk!Calls -> {"none", "reserved", "attached", "recovery_pending", "quarantined"}]
      /\ scope'[c] # "none" <=> attempt'[c] # "none"
      /\ \A u \in Tsk!Calls \ {c} : scope'[u] = scope[u] /\ attempt'[u] = attempt[u]
  BY <1>3 DEF Tsk!TypeOK
<1>7. PICK p \in Tsk!Threads : /\ call' = [call EXCEPT ![c] = p]
                               /\ p.pc \in {"launchable", "launch"} /\ p.task = c
  BY <1>1, <1>2, GotoMoves, PcFacts
<1>8. /\ call' \in [Tsk!Actors -> Tsk!Threads]
      /\ call'[c] = p /\ \A b \in Tsk!Actors \ {c} : call'[b] = call[b]
  BY <1>1, <1>7
<1>9. Tsk!TypeOK' BY <1>5, <1>6, <1>7, <1>8 DEF Tsk!TypeOK
<1>10. RowsOK'
  <2>1. RowOK(c)'
    BY <1>4, <1>5, <1>6 DEF RowOK, Tsk!Stored, Tsk!Scoped, Tsk!IsTerminal, Tsk!TerminalStates
  <2>2. ASSUME NEW u \in Tsk!Calls \ {c} PROVE RowOK(u)'
    BY <1>5, <1>6 DEF RowsOK, RowOK, Tsk!Stored, Tsk!Scoped, Tsk!IsTerminal
  <2>3. QED BY <2>1, <2>2 DEF RowsOK
<1>11. OneTask'
  <2>1. \A d \in Tsk!Calls : Tsk!Stored(d) => RequestOf[d] # RequestOf[c] BY DEF Tsk!Matching
  <2>2. QED BY <1>5, <2>1 DEF OneTask, Tsk!Stored
<1>12. ThreadsOK'
  <2>1. WorksOn(p)' /\ Read(p)' /\ CallOK(c, p)' BY <1>3, <1>4, <1>5, <1>7
       DEF WorksOn, Read, CallOK, Working, Tsk!Stored, Tsk!IsTerminal, Tsk!TerminalStates
  <2>2. ASSUME NEW b \in Tsk!Actors \ {c}, NEW q \in Tsk!Threads, q = call[b]
        PROVE  WorksOn(q)' /\ Read(q)' /\ (b \in Tsk!Calls => CallOK(b, q)')
    <3>1. /\ WorksOn(q) /\ Read(q) /\ (b \in Tsk!Calls => CallOK(b, q))
          /\ q.pc \in Working => q.task \in Tsk!Calls
      BY <2>2, TaskOf DEF ThreadsOK
    <3>2. q.pc \in Working => q.task # c /\ task'[q.task] = task[q.task]
      BY <1>2, <1>5, <3>1 DEF WorksOn
    <3>3. WorksOn(q)' BY <3>1, <3>2 DEF WorksOn, Tsk!Stored
    <3>4. Read(q)' BY <3>1, <3>2 DEF Read, Working
    <3>5. b \in Tsk!Calls => CallOK(b, q)' BY <1>5, <3>1 DEF CallOK, Tsk!Stored
    <3>6. QED BY <3>3, <3>4, <3>5
  <2>3. QED BY <1>1, <1>7, <2>1, <2>2, ThreadMove
<1>13. StartupOK'
  <2>1. ASSUME NEW u \in Tsk!Calls, scope'[u] # "none", Tsk!RunStored(u),
               call'[u].pc \notin {"launch", "attach"}
        PROVE  attempt'[u] \in {"attached", "quarantined"}
    <3>1. u # c BY <1>3, <2>1 DEF Tsk!RunStored
    <3>2. QED BY <1>6, <1>8, <2>1, <3>1, ActorFacts DEF StartupOK, Tsk!Scoped
  <2>2. QED BY <2>1 DEF StartupOK, Tsk!Scoped, Tsk!RunStored
<1>14. Tsk!NoForgottenTask'
  <2>1. ASSUME NEW u \in Tsk!Calls, u # c, task'[u].state = "accepted", Tsk!AttemptHolds(u)'
        PROVE  call'[u].pc \in Tsk!Active
    BY <1>5, <1>6, <1>8, <2>1, ActorFacts DEF Tsk!NoForgottenTask, Tsk!AttemptHolds, Tsk!Scoped
  <2>2. call'[c].pc \in Tsk!Active BY <1>7, <1>8 DEF Tsk!Active
  <2>3. QED BY <2>1, <2>2 DEF Tsk!NoForgottenTask
<1>15. QED BY <1>9, <1>10, <1>11, <1>12, <1>13, <1>14

\* Reserve keeps the invariant.
LEMMA ReserveInv ==
    ASSUME Tsk!TaskConstants, IInv, NEW c \in Tsk!Calls, NEW scoped \in BOOLEAN,
           Tsk!Reserve(c, scoped)
    PROVE  IInv'
<1>1. /\ server = "up" /\ call[c].pc \in {"reserve", "reserve_scoped"}
      /\ UNCHANGED <<enforcement, adjudicated, run, lost, server, todo, upsets>>
  BY DEF Tsk!Reserve, Tsk!At, Tsk!engineVars, Tsk!serverVars
<1>2. \/ /\ UNCHANGED <<task, scope, attempt>>
         /\ \/ Tsk!Goto(c, "done")
            \/ \E t \in Tsk!Matching(c) : ~Tsk!IsTerminal(task[t]) /\ Tsk!GotoWith(c, "observe", t)
      \/ /\ Tsk!Matching(c) = {} /\ task' = [task EXCEPT ![c] = Tsk!Accepted]
         /\ \/ /\ scope' = [scope EXCEPT ![c] = "attached"]
               /\ attempt' = [attempt EXCEPT ![c] = "reserved"]
            \/ UNCHANGED <<scope, attempt>>
         /\ \E pc \in {"launchable", "launch"} : Tsk!Goto(c, pc)
  BY DEF Tsk!Reserve, Tsk!Winners
<1>3. CASE UNCHANGED <<task, scope, attempt>> /\ Tsk!Goto(c, "done")
  BY <1>1, <1>3, RefusalInv DEF tableVars
<1>4. ASSUME NEW t \in Tsk!Matching(c),
             UNCHANGED <<task, scope, attempt>>, ~Tsk!IsTerminal(task[t]),
             Tsk!GotoWith(c, "observe", t)
      PROVE  IInv'
  BY <1>1, <1>4, ReplayInv DEF tableVars
<1>5. CASE /\ Tsk!Matching(c) = {} /\ task' = [task EXCEPT ![c] = Tsk!Accepted]
           /\ \/ /\ scope' = [scope EXCEPT ![c] = "attached"]
                 /\ attempt' = [attempt EXCEPT ![c] = "reserved"]
              \/ UNCHANGED <<scope, attempt>>
           /\ \E pc \in {"launchable", "launch"} : Tsk!Goto(c, pc)
  BY <1>1, <1>5, InsertInv
<1>6. QED BY <1>2, <1>3, <1>4, <1>5
----
(***************************************************************************)
(* Runs and attempts.                                                      *)
(***************************************************************************)

\* An open run moves on, and never back to waiting; or nothing happens to it.
Moves(t) ==
    /\ \/ /\ run[t] \in Tsk!Engine!Open
          /\ \E s \in Tsk!Engine!Lives \ {"absent", "waiting"} : run' = [run EXCEPT ![t] = s]
       \/ run' = run
    /\ UNCHANGED <<task, scope, attempt, lost>>

\* A run that moves on leaves the rows true.
LEMMA MovedRows ==
    ASSUME IInv, NEW t \in Tsk!Calls, Moves(t)
    PROVE  /\ run' \in [Tsk!Calls -> Tsk!Engine!Lives] /\ RowsOK' /\ OneTask'
           /\ \A u \in Tsk!Calls : run'[u] = "absent" <=> run[u] = "absent"
<1>1. run \in [Tsk!Calls -> Tsk!Engine!Lives] /\ run' \in [Tsk!Calls -> Tsk!Engine!Lives]
  BY DEF IInv, Tsk!TypeOK, Moves
<1>2. \A u \in Tsk!Calls : /\ run'[u] = "absent" <=> run[u] = "absent"
                           /\ run[u] \in Tsk!Engine!Outcomes => run'[u] = run[u]
                           /\ run[u] \notin {"absent", "waiting"} => run'[u] \notin {"absent", "waiting"}
  BY <1>1 DEF Moves, Tsk!Engine!Open, Tsk!Engine!Outcomes
<1>3. RowsOK' BY <1>2 DEF IInv, RowsOK, RowOK, Tsk!Stored, Tsk!Scoped, Tsk!IsTerminal, Moves
<1>4. OneTask' BY DEF IInv, OneTask, Tsk!Stored, Moves
<1>5. QED BY <1>1, <1>2, <1>3, <1>4

\* What was observed of a run still holds of it when it has moved on.
LEMMA MovedThreads ==
    ASSUME IInv, NEW t \in Tsk!Calls, Moves(t), NEW q \in Tsk!Threads,
           q.pc \in Working => q.task \in Tsk!Calls
    PROVE  /\ WorksOn(q) => WorksOn(q)'
           /\ Read(q) => Read(q)'
           /\ \A c \in Tsk!Calls : CallOK(c, q) => CallOK(c, q)'
<1>1. run \in [Tsk!Calls -> Tsk!Engine!Lives] BY DEF IInv, Tsk!TypeOK
<1>2. \A u \in Tsk!Calls : /\ run'[u] = "absent" <=> run[u] = "absent"
                           /\ run[u] \in Tsk!Engine!Outcomes => run'[u] = run[u]
                           /\ run[u] \notin {"absent", "waiting"} => run'[u] \notin {"absent", "waiting"}
  BY <1>1 DEF Moves, Tsk!Engine!Open, Tsk!Engine!Outcomes
<1>3. WorksOn(q) => WorksOn(q)' BY DEF WorksOn, Tsk!Stored, Moves
<1>4. Read(q) => Read(q)' BY <1>2 DEF Read, Moves, Working
<1>5. \A c \in Tsk!Calls : CallOK(c, q) => CallOK(c, q)' BY <1>2 DEF CallOK, Tsk!Stored, Moves
<1>6. QED BY <1>3, <1>4, <1>5

\* EngineStep keeps the invariant.
LEMMA EngineStepInv ==
    ASSUME Tsk!TaskConstants, IInv, NEW t \in Tsk!Calls, Tsk!EngineStep(t)
    PROVE  IInv'
<1> USE DEF IInv
<1>1. UNCHANGED <<enforcement, task, scope, attempt, adjudicated, lost, call, server, todo>>
  BY DEF Tsk!EngineStep, Tsk!scopeVars
<1>2. Moves(t) BY <1>1 DEF Tsk!EngineStep, Tsk!Engine!Begin, Tsk!Engine!Settle, Tsk!Engine!Hold,
     Tsk!Engine!Move, Tsk!Engine!Open,
              Tsk!Engine!Lives, Tsk!Engine!Outcomes, Moves
<1>3. upsets' \in 0..MaxUpsets BY DEF Tsk!EngineStep, Tsk!Upset, Tsk!TypeOK, Tsk!TaskConstants
<1>4. /\ run' \in [Tsk!Calls -> Tsk!Engine!Lives] /\ RowsOK' /\ OneTask'
      /\ \A u \in Tsk!Calls : run'[u] = "absent" <=> run[u] = "absent"
  BY <1>2, MovedRows
<1>5. Tsk!TypeOK' BY <1>1, <1>3, <1>4 DEF Tsk!TypeOK
<1>6. ThreadsOK'
  <2>1. ASSUME NEW b \in Tsk!Actors
        PROVE  WorksOn(call[b])' /\ Read(call[b])' /\ (b \in Tsk!Calls => CallOK(b, call[b])')
    <3>1. PICK q \in Tsk!Threads : q = call[b] BY DEF Tsk!TypeOK
    <3>2. WorksOn(q)' /\ Read(q)' /\ (b \in Tsk!Calls => CallOK(b, q)')
      BY <1>2, <3>1, TaskOf, MovedThreads DEF ThreadsOK
    <3>3. q = call'[b] BY <1>1, <3>1
    <3>4. WorksOn(call[b])' BY <3>2, <3>3 DEF WorksOn
    <3>5. Read(call[b])' BY <3>2, <3>3 DEF Read
    <3>6. b \in Tsk!Calls => CallOK(b, call[b])' BY <3>2, <3>3 DEF CallOK
    <3>7. QED BY <3>4, <3>5, <3>6
  <2>2. QED BY <1>1, <2>1, ActorFacts DEF ThreadsOK
<1>7. StartupOK' /\ Tsk!NoForgottenTask'
  BY <1>1, <1>4 DEF StartupOK, Tsk!NoForgottenTask, Tsk!Scoped, Tsk!RunStored, Tsk!AttemptHolds,
     Tsk!Stored, Tsk!IsTerminal
<1>8. QED BY <1>4, <1>5, <1>6, <1>7

\* CancelRun keeps the invariant.
LEMMA CancelRunInv ==
    ASSUME Tsk!TaskConstants, IInv, NEW h \in Tsk!Handlers, Tsk!CancelRun(h)
    PROVE  IInv'
<1> USE DEF IInv
<1>1. PICK t : t = call[h].task
  OBVIOUS
<1>2. h \in Tsk!Actors /\ h \notin Tsk!Calls /\ call[h] \in Tsk!Threads BY ActorFacts DEF Tsk!TypeOK
<1>3. /\ server = "up" /\ call[h].pc = "cancel"
      /\ UNCHANGED <<enforcement, task, scope, attempt, adjudicated, lost, server, todo, upsets>>
  BY DEF Tsk!CancelRun, Tsk!At, Tsk!scopeVars, Tsk!serverVars
<1>4. t \in Tsk!Calls BY <1>1, <1>2, <1>3 DEF Tsk!TypeOK
<1>5. Moves(t) BY <1>1, <1>3
     DEF Tsk!CancelRun, Tsk!Engine!Stop, Tsk!Engine!Move, Tsk!Engine!Open, Tsk!Engine!Lives, Moves
<1>6. /\ run' \in [Tsk!Calls -> Tsk!Engine!Lives] /\ RowsOK' /\ OneTask'
      /\ \A u \in Tsk!Calls : run'[u] = "absent" <=> run[u] = "absent"
  BY <1>4, <1>5, MovedRows
<1>7. PICK p \in Tsk!Threads : /\ call' = [call EXCEPT ![h] = p]
                               /\ p.pc = "observe" /\ p.task = call[h].task
  BY <1>2, GotoMoves, PcFacts DEF Tsk!CancelRun, Tsk!TypeOK
<1>8. /\ call' \in [Tsk!Actors -> Tsk!Threads]
      /\ call'[h] = p /\ \A b \in Tsk!Actors \ {h} : call'[b] = call[b]
  BY <1>2, <1>7 DEF Tsk!TypeOK
<1>9. Tsk!TypeOK' BY <1>1, <1>3, <1>4, <1>6, <1>7, <1>8 DEF Tsk!TypeOK
<1>10. ThreadsOK'
  <2>1. WorksOn(p)' /\ Read(p)'
    <3>1. WorksOn(call[h]) BY <1>2, TaskOf
    <3>2. QED BY <1>3, <1>7, <3>1 DEF WorksOn, Read, Working, Tsk!Stored
  <2>2. ASSUME NEW b \in Tsk!Actors \ {h}, NEW q \in Tsk!Threads, q = call[b]
        PROVE  WorksOn(q)' /\ Read(q)' /\ (b \in Tsk!Calls => CallOK(b, q)')
    BY <1>4, <1>5, <2>2, TaskOf, MovedThreads DEF ThreadsOK
  <2>3. QED BY <1>2, <1>3, <1>7, <2>1, <2>2, ThreadMove
<1>11. \A u \in Tsk!Calls : call'[u] = call[u] BY <1>2, <1>8, ActorFacts
<1>12. StartupOK' /\ Tsk!NoForgottenTask' BY <1>3, <1>6, <1>11
     DEF StartupOK, Tsk!NoForgottenTask, Tsk!Scoped, Tsk!RunStored, Tsk!AttemptHolds,
         Tsk!Stored, Tsk!IsTerminal
<1>13. QED BY <1>6, <1>9, <1>10, <1>12

\* Launch keeps the invariant: only the call that stored the task creates its run.
LEMMA LaunchInv ==
    ASSUME Tsk!TaskConstants, IInv, NEW c \in Tsk!Calls, Tsk!Launch(c)
    PROVE  IInv'
<1> USE DEF IInv
<1>1. c \in Tsk!Actors /\ call[c] \in Tsk!Threads /\ call \in [Tsk!Actors -> Tsk!Threads]
  BY ActorFacts DEF Tsk!TypeOK
<1>2. /\ server = "up" /\ call[c].pc = "launch"
      /\ UNCHANGED <<enforcement, task, scope, attempt, adjudicated, lost, server, todo, upsets>>
  BY DEF Tsk!Launch, Tsk!At, Tsk!scopeVars, Tsk!serverVars
<1>3. /\ call[c].task = c /\ Tsk!Stored(c) /\ run[c] = "absent"
      /\ Tsk!IsTerminal(task[c]) /\ task[c].reason # "superseded" => c \notin lost
  BY <1>1, <1>2 DEF ThreadsOK, CallOK, WorksOn, Working
<1>4. /\ run' \in [Tsk!Calls -> Tsk!Engine!Lives] /\ \A u \in Tsk!Calls \ {c} : run'[u] = run[u]
      /\ run'[c] \in {"absent", "waiting"}
  BY <1>3 DEF Tsk!Launch, Tsk!Engine!Accept, Tsk!Engine!Move, Tsk!Engine!Lives, Tsk!TypeOK
<1>5. PICK p \in Tsk!Threads : /\ call' = [call EXCEPT ![c] = p] /\ p.task = c
                               /\ p.pc = IF Tsk!Scoped(c) THEN "attach" ELSE "observe"
  BY <1>1, <1>3, GotoMoves, PcFacts DEF Tsk!Launch
<1>6. /\ call' \in [Tsk!Actors -> Tsk!Threads]
      /\ call'[c] = p /\ \A b \in Tsk!Actors \ {c} : call'[b] = call[b]
  BY <1>1, <1>5
<1>7. Tsk!TypeOK' BY <1>2, <1>4, <1>5, <1>6 DEF Tsk!TypeOK
<1>8. RowsOK'
  <2>1. RowOK(c)'
    <3>1. RowOK(c) BY DEF RowsOK
    <3>2. ~(Tsk!IsTerminal(task[c]) /\ task[c].reason # "superseded")
      BY <1>3, <3>1 DEF RowOK, Tsk!Engine!Outcomes
    <3>3. QED BY <1>2, <1>3, <3>1, <3>2 DEF RowOK, Tsk!Stored, Tsk!Scoped, Tsk!IsTerminal
  <2>2. ASSUME NEW u \in Tsk!Calls \ {c} PROVE RowOK(u)'
    BY <1>2, <1>4 DEF RowsOK, RowOK, Tsk!Stored, Tsk!Scoped, Tsk!IsTerminal
  <2>3. QED BY <2>1, <2>2 DEF RowsOK
<1>9. OneTask' BY <1>2 DEF OneTask, Tsk!Stored
<1>10. ThreadsOK'
  <2>1. WorksOn(p)' /\ Read(p)' /\ CallOK(c, p)'
    BY <1>2, <1>3, <1>5 DEF WorksOn, Read, CallOK, Working, Tsk!Stored
  <2>2. ASSUME NEW b \in Tsk!Actors \ {c}, NEW q \in Tsk!Threads, q = call[b]
        PROVE  WorksOn(q)' /\ Read(q)' /\ (b \in Tsk!Calls => CallOK(b, q)')
    <3>1. /\ WorksOn(q) /\ Read(q) /\ (b \in Tsk!Calls => CallOK(b, q))
          /\ q.pc \in Working => q.task \in Tsk!Calls
      BY <2>2, TaskOf DEF ThreadsOK
    <3>2. WorksOn(q)' BY <1>2, <3>1 DEF WorksOn, Tsk!Stored
    <3>3. Read(q)'
      <4>1. q.pc = "write" /\ q.task = c => q.obs \in {"absent", "waiting"} BY <1>3, <3>1 DEF Read
      <4>2. q.pc = "write" /\ q.task # c => run'[q.task] = run[q.task] BY <1>4, <3>1 DEF Working
      <4>3. QED BY <1>2, <3>1, <4>1, <4>2 DEF Read, Tsk!Engine!Outcomes
    <3>4. b \in Tsk!Calls => CallOK(b, q)' BY <1>2, <1>4, <3>1 DEF CallOK, Tsk!Stored
    <3>5. QED BY <3>2, <3>3, <3>4
  <2>3. QED BY <1>1, <1>2, <1>5, <2>1, <2>2, ThreadMove
<1>11. StartupOK'
  <2>1. ASSUME NEW u \in Tsk!Calls, Tsk!Scoped(u), Tsk!RunStored(u)',
               call'[u].pc \notin {"launch", "attach"}
        PROVE  attempt[u] \in {"attached", "quarantined"}
    <3>1. u # c BY <1>5, <1>6, <2>1
    <3>2. QED BY <1>2, <1>4, <1>6, <2>1, <3>1, ActorFacts DEF StartupOK, Tsk!RunStored
  <2>2. QED BY <1>2, <2>1 DEF StartupOK, Tsk!Scoped
<1>12. Tsk!NoForgottenTask'
  <2>1. call'[c].pc \in Tsk!Active /\ \A u \in Tsk!Calls \ {c} : call'[u] = call[u]
    BY <1>5, <1>6, ActorFacts DEF Tsk!Active
  <2>2. QED BY <1>2, <2>1 DEF Tsk!NoForgottenTask, Tsk!AttemptHolds, Tsk!Scoped
<1>13. QED BY <1>7, <1>8, <1>9, <1>10, <1>11, <1>12

\* Attach and MarkRecovery keep the invariant: the attempt of a stored run is
\* attached, and only that of a run that was never stored is marked.
LEMMA AttachInv ==
    ASSUME Tsk!TaskConstants, IInv, NEW c \in Tsk!Calls, Tsk!Attach(c) \/ Tsk!MarkRecovery(c)
    PROVE  IInv'
<1> USE DEF IInv
<1>1. c \in Tsk!Actors /\ call[c] \in Tsk!Threads /\ call \in [Tsk!Actors -> Tsk!Threads]
  BY ActorFacts DEF Tsk!TypeOK
<1>2. /\ server = "up" /\ call[c].pc \in {"attach", "mark"}
      /\ UNCHANGED <<enforcement, task, scope, adjudicated, run, lost, server, todo, upsets>>
  BY DEF Tsk!Attach, Tsk!MarkRecovery, Tsk!At, Tsk!engineVars, Tsk!serverVars
<1>3. WorksOn(call[c]) /\ CallOK(c, call[c]) /\ RowOK(c) BY <1>1 DEF ThreadsOK, RowsOK
<1>4. attempt[c] \in {"none", "reserved", "attached", "recovery_pending", "quarantined"}
  BY DEF Tsk!TypeOK
<1>5. PICK s \in {"none", "reserved", "attached", "recovery_pending", "quarantined"} :
        /\ attempt' = [attempt EXCEPT ![c] = s]
        /\ s = "none" <=> attempt[c] = "none"
        /\ s = "quarantined" <=> attempt[c] = "quarantined"
        /\ Tsk!Scoped(c) /\ Tsk!RunStored(c) /\ attempt[c] # "none" => s \in {"attached", "quarantined"}
  <2>1. CASE Tsk!Attach(c) /\ Tsk!Attachable(c)
    <3>1. attempt' = [attempt EXCEPT ![c] = "attached"] /\ attempt[c] \notin {"none", "quarantined"}
      BY <2>1 DEF Tsk!Attach, Tsk!Attachable
    <3>2. QED BY <3>1
  <2>2. CASE Tsk!Attach(c) /\ ~Tsk!Attachable(c)
    <3>1. attempt' = [attempt EXCEPT ![c] = attempt[c]] BY <2>2 DEF Tsk!Attach, Tsk!TypeOK
    <3>2. Tsk!RunStored(c) /\ attempt[c] # "none" => attempt[c] = "quarantined"
      BY <1>4, <2>2 DEF Tsk!Attachable
    <3>3. QED BY <1>4, <3>1, <3>2
  <2>3. CASE Tsk!MarkRecovery(c)
    <3> DEFINE m == IF attempt[c] = "reserved" THEN "recovery_pending" ELSE attempt[c]
    <3>1. attempt' = [attempt EXCEPT ![c] = m] BY <2>3 DEF Tsk!MarkRecovery
    <3>2. call[c].pc = "mark" BY <2>3 DEF Tsk!MarkRecovery, Tsk!At
    <3>3. Tsk!Scoped(c) /\ Tsk!RunStored(c) => attempt[c] \in {"attached", "quarantined"}
      BY <1>2, <3>2 DEF StartupOK
    <3>4. QED BY <1>4, <3>1, <3>3
  <2>4. QED BY <2>1, <2>2, <2>3
<1>6. /\ attempt' \in [Tsk!Calls -> {"none", "reserved", "attached", "recovery_pending", "quarantined"}]
      /\ attempt'[c] = s /\ \A u \in Tsk!Calls \ {c} : attempt'[u] = attempt[u]
  BY <1>5 DEF Tsk!TypeOK
<1>7. PICK p \in Tsk!Threads : /\ call' = [call EXCEPT ![c] = p]
                               /\ p.pc \in {"observe", "mark"} /\ p.task = call[c].task
  BY <1>1, GotoMoves, PcFacts DEF Tsk!Attach, Tsk!MarkRecovery
<1>8. /\ call' \in [Tsk!Actors -> Tsk!Threads]
      /\ call'[c] = p /\ \A b \in Tsk!Actors \ {c} : call'[b] = call[b]
  BY <1>1, <1>7
<1>9. p.task = c BY <1>2, <1>3, <1>7 DEF CallOK
<1>10. Tsk!TypeOK' BY <1>2, <1>6, <1>7, <1>8, <1>9 DEF Tsk!TypeOK
<1>11. RowsOK' /\ OneTask'
  BY <1>2, <1>5, <1>6 DEF RowsOK, RowOK, OneTask, Tsk!Stored, Tsk!Scoped, Tsk!IsTerminal
<1>12. ThreadsOK'
  <2>1. WorksOn(p)' /\ Read(p)' /\ CallOK(c, p)'
    BY <1>2, <1>3, <1>7, <1>9 DEF WorksOn, Read, CallOK, Working, Tsk!Stored
  <2>2. ASSUME NEW b \in Tsk!Actors \ {c}, NEW q \in Tsk!Threads, q = call[b]
        PROVE  WorksOn(q)' /\ Read(q)' /\ (b \in Tsk!Calls => CallOK(b, q)')
    <3>1. WorksOn(q) /\ Read(q) /\ (b \in Tsk!Calls => CallOK(b, q)) BY <2>2 DEF ThreadsOK
    <3>2. QED BY <1>2, <3>1 DEF WorksOn, Read, CallOK, Tsk!Stored
  <2>3. QED BY <1>1, <1>2, <1>7, <2>1, <2>2, ThreadMove
<1>13. StartupOK'
  <2>1. ASSUME NEW u \in Tsk!Calls, Tsk!Scoped(u), Tsk!RunStored(u),
               call'[u].pc \notin {"launch", "attach"}
        PROVE  attempt'[u] \in {"attached", "quarantined"}
    <3>1. CASE u = c BY <1>3, <1>5, <1>6, <2>1, <3>1 DEF RowOK
    <3>2. CASE u # c BY <1>2, <1>6, <1>8, <2>1, <3>2, ActorFacts DEF StartupOK
    <3>3. QED BY <3>1, <3>2
  <2>2. QED BY <1>2, <2>1 DEF StartupOK, Tsk!Scoped, Tsk!RunStored
<1>14. Tsk!NoForgottenTask'
  <2>1. call'[c].pc \in Tsk!Active /\ \A u \in Tsk!Calls \ {c} : call'[u] = call[u]
    BY <1>7, <1>8, ActorFacts DEF Tsk!Active
  <2>2. QED BY <1>2, <1>6, <2>1 DEF Tsk!NoForgottenTask, Tsk!AttemptHolds, Tsk!Scoped
<1>15. QED BY <1>10, <1>11, <1>12, <1>13, <1>14
----
(***************************************************************************)
(* The owner, the server and its startup.                                  *)
(***************************************************************************)

\* ResolveRecovery keeps the invariant: the row it supersedes gets a new version,
\* so no thread that read it before can overwrite it.
LEMMA ResolveRecoveryInv ==
    ASSUME Tsk!TaskConstants, IInv, NEW t \in Tsk!Calls, NEW u \in Tsk!Calls,
           Tsk!ResolveRecovery(t, u)
    PROVE  IInv'
<1> USE DEF IInv
<1>1. /\ server = "up" /\ Tsk!Scoped(t) /\ task[t].state \in {"uncertain", "recovery_pending"}
      /\ UNCHANGED <<enforcement, run, lost, call, server, todo, upsets>>
  BY DEF Tsk!ResolveRecovery, Tsk!Resolvable, Tsk!engineVars, Tsk!serverVars
<1>2. PICK row : row = [task[t] EXCEPT !.state = "failed", !.reason = "superseded", !.version = @ + 1]
  OBVIOUS
<1>3. task \in [Tsk!Calls -> Tsk!TaskRow] /\ task[t] \in Tsk!TaskRow /\ task[t].version \in Nat
  BY DEF Tsk!TypeOK, Tsk!TaskRow
<1>4. row \in Tsk!TaskRow
  <2>1. "failed" \in Tsk!TaskStates /\ "superseded" \in Tsk!Reasons /\ task[t].version + 1 \in Nat
    BY <1>3 DEF Tsk!TaskStates, Tsk!TerminalStates, Tsk!Reasons
  <2>2. row = [task[t] EXCEPT !.state = "failed", !.reason = "superseded",
                              !.version = task[t].version + 1]
    BY <1>2, <1>3 DEF Tsk!TaskRow
  <2>3. QED BY <1>3, <2>1, <2>2, RowFields, Zenon
<1>5. row.state = "failed" /\ row.reason = "superseded" /\ row.version = task[t].version + 1
  BY <1>2, <1>3 DEF Tsk!TaskRow
<1>6. task' = [task EXCEPT ![t] = row] BY <1>2 DEF Tsk!ResolveRecovery
<1>7. task' \in [Tsk!Calls -> Tsk!TaskRow] /\ task'[t] = row /\ \A v \in Tsk!Calls \ {t} : task'[v] = task[v]
  BY <1>3, <1>4, <1>6
<1>8. /\ scope' \in [Tsk!Calls -> {"none", "attached", "quarantined"}]
      /\ attempt' \in [Tsk!Calls -> {"none", "reserved", "attached", "recovery_pending", "quarantined"}]
      /\ scope'[t] = "quarantined" /\ attempt'[t] = "quarantined"
      /\ \A v \in Tsk!Calls \ {t} : scope'[v] = scope[v] /\ attempt'[v] = attempt[v]
  BY DEF Tsk!ResolveRecovery, Tsk!TypeOK
<1>9. adjudicated' \subseteq {"task_reservation", "run_attempt"} \X Tsk!Calls
  BY DEF Tsk!ResolveRecovery, Tsk!TypeOK
<1>10. Tsk!TypeOK' BY <1>1, <1>7, <1>8, <1>9 DEF Tsk!TypeOK
<1>11. RowsOK'
  <2>1. RowOK(t)' BY <1>5, <1>7, <1>8 DEF RowOK, Tsk!Stored, Tsk!Scoped
  <2>2. ASSUME NEW v \in Tsk!Calls \ {t} PROVE RowOK(v)'
    BY <1>1, <1>7, <1>8 DEF RowsOK, RowOK, Tsk!Stored, Tsk!Scoped, Tsk!IsTerminal
  <2>3. QED BY <2>1, <2>2 DEF RowsOK
<1>12. OneTask' BY <1>1, <1>5, <1>7 DEF OneTask, Tsk!Stored
<1>13. ThreadsOK'
  <2>1. ASSUME NEW b \in Tsk!Actors
        PROVE  WorksOn(call[b])' /\ Read(call[b])' /\ (b \in Tsk!Calls => CallOK(b, call[b])')
    <3>1. PICK q \in Tsk!Threads : q = call[b] BY DEF Tsk!TypeOK
    <3>2. /\ WorksOn(q) /\ Read(q) /\ (b \in Tsk!Calls => CallOK(b, q))
          /\ q.pc \in Working => q.task \in Tsk!Calls
      BY <3>1, TaskOf DEF ThreadsOK
    <3>3. q = call'[b] /\ q.seen.version \in Nat BY <1>1, <3>1 DEF Tsk!Threads, Tsk!TaskRow
    <3>4. WorksOn(call[b])' BY <1>1, <1>5, <1>7, <3>2, <3>3 DEF WorksOn, Tsk!Stored
    <3>5. Read(call[b])' BY <1>1, <1>3, <1>5, <1>7, <3>2, <3>3 DEF Read, Working
    <3>6. b \in Tsk!Calls => CallOK(b, call[b])' BY <1>1, <1>7, <3>2, <3>3 DEF CallOK, Tsk!Stored
    <3>7. QED BY <3>4, <3>5, <3>6
  <2>2. QED BY <1>1, <2>1, ActorFacts DEF ThreadsOK
<1>14. StartupOK' /\ Tsk!NoForgottenTask' BY <1>1, <1>5, <1>7, <1>8
     DEF StartupOK, Tsk!NoForgottenTask, Tsk!Scoped, Tsk!RunStored, Tsk!AttemptHolds
<1>15. QED BY <1>10, <1>11, <1>12, <1>13, <1>14

\* The steps that leave the tables and the threads alone.
LEMMA SameThreads ==
    ASSUME Tsk!TaskConstants, IInv, UNCHANGED <<tableVars, call>>,
           server' # "up" => \A a \in Tsk!Actors : call[a].pc \in {"new", "idle", "done"}
    PROVE  RowsOK' /\ OneTask' /\ ThreadsOK'
<1>1. RowsOK' /\ OneTask' BY SameRows DEF IInv
<1>2. ThreadsOK' BY DEF IInv, ThreadsOK, tableVars, WorksOn, Read, CallOK, Tsk!Stored
<1>3. QED BY <1>1, <1>2

\* AdjudicateQuarantine and SetScopedWrites keep the invariant.
LEMMA OwnerInv ==
    ASSUME Tsk!TaskConstants, IInv,
           \/ \E t \in Tsk!Calls : Tsk!AdjudicateQuarantine(t)
           \/ \E enabled \in BOOLEAN : Tsk!SetScopedWrites(enabled)
    PROVE  IInv'
<1> USE DEF IInv
<1>1. server = "up" /\ UNCHANGED <<tableVars, call, server, todo>>
  BY DEF Tsk!AdjudicateQuarantine, Tsk!SetScopedWrites, Tsk!scopeVars, Tsk!engineVars,
     Tsk!serverVars, tableVars
<1>2. /\ adjudicated' \subseteq {"task_reservation", "run_attempt"} \X Tsk!Calls
      /\ enforcement' \in {"inactive", "enforced", "paused"} /\ upsets' \in 0..MaxUpsets
  <2>1. CASE \E t \in Tsk!Calls : Tsk!AdjudicateQuarantine(t)
    BY <2>1 DEF Tsk!AdjudicateQuarantine, Tsk!serverVars, Tsk!TypeOK
  <2>2. CASE \E enabled \in BOOLEAN : Tsk!SetScopedWrites(enabled)
    BY <2>2 DEF Tsk!SetScopedWrites, Tsk!scopeVars, Tsk!Upset, Tsk!TypeOK, Tsk!TaskConstants
  <2>3. QED BY <2>1, <2>2
<1>3. Tsk!TypeOK' BY <1>1, <1>2 DEF Tsk!TypeOK, tableVars
<1>4. RowsOK' /\ OneTask' /\ ThreadsOK' BY <1>1, SameThreads
<1>5. StartupOK' /\ Tsk!NoForgottenTask' BY <1>1
     DEF tableVars, StartupOK, Tsk!NoForgottenTask, Tsk!Scoped, Tsk!RunStored, Tsk!AttemptHolds
<1>6. QED BY <1>3, <1>4, <1>5

\* A crash ends every thread but those that have not begun.
LEMMA CrashInv ==
    ASSUME Tsk!TaskConstants, IInv, Tsk!Crash
    PROVE  IInv'
<1> USE DEF IInv
<1>1. UNCHANGED <<enforcement, task, scope, attempt, adjudicated, run, lost>> /\ UNCHANGED tableVars
  BY DEF Tsk!Crash, Tsk!scopeVars, Tsk!engineVars, tableVars
<1>2. server' = "down" /\ todo' = {} /\ upsets' \in 0..MaxUpsets
  BY DEF Tsk!Crash, Tsk!Upset, Tsk!TypeOK, Tsk!TaskConstants
<1>3. ASSUME NEW a \in Tsk!Actors
      PROVE  /\ call'[a] \in Tsk!Threads
             /\ \/ call'[a].pc \in {"idle", "done"}
                \/ call'[a] = call[a] /\ call[a].pc = "new"
  <2>1. call'[a] = IF call[a].pc = "new" THEN call[a] ELSE [Tsk!Idle EXCEPT !.pc = Tsk!AfterReconcile(a)]
    BY DEF Tsk!Crash
  <2>2. Tsk!AfterReconcile(a) \in Pcs /\ Tsk!AfterReconcile(a) \in {"idle", "done"} /\ call[a] \in Tsk!Threads
    BY PcFacts DEF Tsk!AfterReconcile, Tsk!TypeOK
  <2>3. QED BY <2>1, <2>2, IdleFacts
<1>4. call' \in [Tsk!Actors -> Tsk!Threads] BY <1>3 DEF Tsk!Crash
<1>5. Tsk!TypeOK' BY <1>1, <1>2, <1>3, <1>4 DEF Tsk!TypeOK
<1>6. RowsOK' /\ OneTask' BY <1>1, SameRows
<1>7. ThreadsOK'
  <2>1. ASSUME NEW a \in Tsk!Actors
        PROVE  /\ WorksOn(call[a])' /\ Read(call[a])' /\ (a \in Tsk!Calls => CallOK(a, call[a])')
               /\ call'[a].pc \in {"new", "idle", "done"}
    <3>1. a \in Tsk!Calls => CallOK(a, call[a]) BY DEF ThreadsOK
    <3>2. QED BY <1>1, <1>3, <3>1 DEF WorksOn, Read, CallOK, Working, Tsk!Stored
  <2>2. QED BY <2>1, ActorFacts DEF ThreadsOK
<1>8. StartupOK' /\ Tsk!NoForgottenTask' BY <1>2 DEF StartupOK, Tsk!NoForgottenTask
<1>9. QED BY <1>5, <1>6, <1>7, <1>8

\* LoseRun and Restart keep the invariant: no thread works while the server is down.
LEMMA DownInv ==
    ASSUME Tsk!TaskConstants, IInv, Tsk!Restart \/ \E t \in Tsk!Calls : Tsk!LoseRun(t)
    PROVE  IInv'
<1> USE DEF IInv
<1>1. /\ server = "down" /\ server' \in {"down", "scope"} /\ lost' \subseteq Tsk!Calls
      /\ UNCHANGED <<enforcement, task, scope, attempt, adjudicated, run, call, todo, upsets>>
  BY DEF Tsk!Restart, Tsk!LoseRun, Tsk!scopeVars, Tsk!engineVars, Tsk!serverVars, Tsk!TypeOK
<1>2. Tsk!TypeOK' BY <1>1 DEF Tsk!TypeOK
<1>3. RowsOK' /\ OneTask' BY <1>1 DEF RowsOK, RowOK, OneTask, Tsk!Stored, Tsk!Scoped, Tsk!IsTerminal
<1>4. \A a \in Tsk!Actors : call[a].pc \in {"new", "idle", "done"} BY <1>1 DEF ThreadsOK
<1>5. ThreadsOK' BY <1>1, <1>4 DEF ThreadsOK, WorksOn, Read, CallOK, Working, Tsk!Stored
<1>6. StartupOK' /\ Tsk!NoForgottenTask' BY <1>1 DEF StartupOK, Tsk!NoForgottenTask
<1>7. QED BY <1>2, <1>3, <1>5, <1>6

\* StartupScope keeps the invariant: it settles every attempt.
LEMMA StartupScopeInv ==
    ASSUME Tsk!TaskConstants, IInv, Tsk!StartupScope
    PROVE  IInv'
<1> USE DEF IInv
<1>1. /\ server = "scope" /\ server' = "tasks" /\ todo' = Tsk!ActiveTasks
      /\ UNCHANGED <<enforcement, task, scope, adjudicated, run, lost, call, upsets>>
  BY DEF Tsk!StartupScope, Tsk!engineVars
<1>2. ASSUME NEW t \in Tsk!Calls
      PROVE  /\ attempt'[t] \in {"none", "reserved", "attached", "recovery_pending", "quarantined"}
             /\ attempt'[t] = "none" <=> attempt[t] = "none"
             /\ attempt[t] = "quarantined" => attempt'[t] = "quarantined"
             /\ Tsk!RunStored(t) /\ attempt[t] # "none" => attempt'[t] \in {"attached", "quarantined"}
  <2>1. attempt[t] \in {"none", "reserved", "attached", "recovery_pending", "quarantined"}
    BY DEF Tsk!TypeOK
  <2>2. attempt'[t] = Tsk!ReconciledAttempt(t) BY DEF Tsk!StartupScope
  <2>3. QED BY <2>1, <2>2 DEF Tsk!ReconciledAttempt
<1>3. attempt' \in [Tsk!Calls -> {"none", "reserved", "attached", "recovery_pending", "quarantined"}]
  BY <1>2 DEF Tsk!StartupScope
<1>4. Tsk!TypeOK' BY <1>1, <1>3 DEF Tsk!TypeOK, Tsk!ActiveTasks
<1>5. RowsOK' /\ OneTask'
  BY <1>1, <1>2 DEF RowsOK, RowOK, OneTask, Tsk!Stored, Tsk!Scoped, Tsk!IsTerminal
<1>6. ThreadsOK' BY <1>1 DEF ThreadsOK, WorksOn, Read, CallOK, Working, Tsk!Stored
<1>7. StartupOK'
  <2>1. \A t \in Tsk!Calls : Tsk!Scoped(t) /\ Tsk!RunStored(t) => attempt'[t] \in {"attached", "quarantined"}
    BY <1>2 DEF RowsOK, RowOK
  <2>2. \A t \in todo' : Tsk!Stored(t) /\ ~Tsk!IsTerminal(task[t]) BY <1>1 DEF Tsk!ActiveTasks
  <2>3. \A t \in Tsk!Calls : task[t].state = "accepted" => t \in todo'
    BY <1>1 DEF Tsk!ActiveTasks, Tsk!Stored, Tsk!IsTerminal, Tsk!TerminalStates
  <2>4. QED
    BY <1>1, <2>1, <2>2, <2>3 DEF StartupOK, Tsk!Scoped, Tsk!RunStored, Tsk!Stored, Tsk!IsTerminal
<1>8. Tsk!NoForgottenTask' BY <1>1 DEF Tsk!NoForgottenTask
<1>9. QED BY <1>4, <1>5, <1>6, <1>7, <1>8

\* StartupTask keeps the invariant.
LEMMA StartupTaskInv ==
    ASSUME Tsk!TaskConstants, IInv, NEW t \in Tsk!Calls, Tsk!StartupTask(t)
    PROVE  IInv'
<1> USE DEF IInv
<1>1. /\ server = "tasks" /\ t \in todo /\ todo' = todo \ {t}
      /\ UNCHANGED <<enforcement, scope, attempt, adjudicated, run, lost, call, server, upsets>>
  BY DEF Tsk!StartupTask, Tsk!scopeVars, Tsk!engineVars
<1>2. Tsk!Stored(t) /\ ~Tsk!IsTerminal(task[t]) BY <1>1 DEF StartupOK
<1>3. PICK o : o = Tsk!Observation(t)
  OBVIOUS
<1>4. Knows(t, o) BY <1>2, <1>3
     DEF Knows, Tsk!Observation, Tsk!RunStored, Tsk!TypeOK, Tsk!Engine!Outcomes, Tsk!Engine!Lives
<1>5. \/ Reconciled(t, o)
      \/ UNCHANGED tableVars /\ ~Tsk!AttemptHolds(t)
  BY <1>1, <1>3 DEF Tsk!StartupTask, Reconciled, tableVars
<1>6. /\ task' \in [Tsk!Calls -> Tsk!TaskRow] /\ RowsOK' /\ OneTask'
      /\ \A v \in Tsk!Calls \ {t} : task'[v] = task[v]
      /\ Tsk!AttemptHolds(t) => task'[t].state # "accepted"
  <2>1. CASE Reconciled(t, o) BY <1>2, <1>4, <2>1, ReconciledRows
  <2>2. CASE UNCHANGED tableVars /\ ~Tsk!AttemptHolds(t) BY <2>2, SameRows DEF Tsk!TypeOK, tableVars
  <2>3. QED BY <1>5, <2>1, <2>2
<1>7. Tsk!TypeOK' BY <1>1, <1>6 DEF Tsk!TypeOK
<1>8. \A a \in Tsk!Actors : call[a].pc \in {"new", "idle", "done"} BY <1>1 DEF ThreadsOK
<1>9. \A c \in Tsk!Calls : ~Tsk!Stored(c) => task'[c] = task[c] BY <1>2, <1>6
<1>10. ThreadsOK' BY <1>1, <1>8, <1>9 DEF ThreadsOK, WorksOn, Read, CallOK, Working, Tsk!Stored
<1>11. StartupOK'
  <2>1. \A v \in todo' : Tsk!Stored(v)' /\ ~Tsk!IsTerminal(task[v])'
    <3>1. \A v \in todo' : v \in Tsk!Calls \ {t} /\ v \in todo BY <1>1 DEF Tsk!TypeOK
    <3>2. QED BY <1>1, <1>6, <3>1 DEF StartupOK, Tsk!Stored, Tsk!IsTerminal
  <2>2. \A v \in Tsk!Calls : task'[v].state = "accepted" /\ Tsk!AttemptHolds(v) => v \in todo'
    BY <1>1, <1>6 DEF StartupOK
  <2>3. QED BY <1>1, <2>1, <2>2 DEF StartupOK, Tsk!Scoped, Tsk!RunStored, Tsk!AttemptHolds
<1>12. Tsk!NoForgottenTask' BY <1>1 DEF Tsk!NoForgottenTask
<1>13. QED BY <1>6, <1>7, <1>10, <1>11, <1>12

\* StartupDone keeps the invariant: no task is left to be reconciled.
LEMMA StartupDoneInv ==
    ASSUME Tsk!TaskConstants, IInv, Tsk!StartupDone
    PROVE  IInv'
<1> USE DEF IInv
<1>1. /\ server = "tasks" /\ todo = {} /\ server' = "up" /\ UNCHANGED <<tableVars, call>>
      /\ UNCHANGED <<enforcement, adjudicated, todo, upsets>>
  BY DEF Tsk!StartupDone, Tsk!scopeVars, Tsk!engineVars, tableVars
<1>2. Tsk!TypeOK' BY <1>1 DEF Tsk!TypeOK, tableVars
<1>3. RowsOK' /\ OneTask' /\ ThreadsOK' BY <1>1, SameThreads
<1>4. StartupOK' /\ Tsk!NoForgottenTask' BY <1>1
     DEF tableVars, StartupOK, Tsk!NoForgottenTask, Tsk!Scoped, Tsk!RunStored, Tsk!AttemptHolds
<1>5. QED BY <1>2, <1>3, <1>4
----
(***************************************************************************)
(* The theorems.                                                           *)
(***************************************************************************)

\* The initial state: the tasks that have completed before, and nothing else.
LEMMA InitInv ==
    ASSUME Tsk!TaskConstants
    PROVE  Tsk!Init => IInv
<1> SUFFICES ASSUME Tsk!Init PROVE IInv
  OBVIOUS
<1>1. Tsk!CompletedTask \in Tsk!TaskRow /\ Tsk!NoTask \in Tsk!TaskRow /\ Tsk!NoTask.state = "absent"
  BY IdleFacts DEF Tsk!CompletedTask, Tsk!NoTask, Tsk!TaskRow, Tsk!TaskStates,
     Tsk!TerminalStates, Tsk!Reasons
<1>2. /\ task \in [Tsk!Calls -> Tsk!TaskRow] /\ run \in [Tsk!Calls -> Tsk!Engine!Lives]
      /\ \A t \in Tsk!Calls : /\ t \in Finished => task[t] = Tsk!CompletedTask /\ run[t] = "completed"
                              /\ t \notin Finished => /\ task[t] = Tsk!NoTask /\ run[t] = "absent"
                                                      /\ scope[t] = "none" /\ attempt[t] = "none"
                              /\ scope[t] \in {"none", "attached"} /\ attempt[t] = scope[t]
  BY <1>1 DEF Tsk!Init, Tsk!Engine!Lives, Tsk!Engine!Outcomes
<1>3. /\ call \in [Tsk!Actors -> Tsk!Threads]
      /\ \A a \in Tsk!Actors : call[a].pc \in {"idle", "done", "new"}
      /\ \A c \in Tsk!Calls : call[c].pc = "new" => c \notin Finished
  <2>1. ASSUME NEW a \in Tsk!Actors
        PROVE  /\ call[a] \in Tsk!Threads /\ call[a].pc \in {"idle", "done", "new"}
               /\ a \in Tsk!Calls /\ call[a].pc = "new" => a \notin Finished
    <3>1. Tsk!Idle \in Tsk!Threads /\ Tsk!Idle.pc = "idle" BY IdleFacts DEF Tsk!Idle
    <3>2. CASE a \in Tsk!Handlers BY <3>1, <3>2, ActorFacts DEF Tsk!Init
    <3>3. CASE a \notin Tsk!Handlers
      <4>1. call[a] = [Tsk!Idle EXCEPT !.pc = IF a \in Finished THEN "done" ELSE "new"]
        BY <3>3 DEF Tsk!Init
      <4>2. QED BY <4>1, IdleFacts, PcFacts
    <3>4. QED BY <3>2, <3>3
  <2>2. QED BY <2>1, ActorFacts DEF Tsk!Init
<1>4. Tsk!TypeOK
  <2>1. /\ scope \in [Tsk!Calls -> {"none", "attached", "quarantined"}]
        /\ attempt \in [Tsk!Calls -> {"none", "reserved", "attached", "recovery_pending", "quarantined"}]
    BY <1>2 DEF Tsk!Init
  <2>2. QED BY <1>2, <1>3, <2>1 DEF Tsk!Init, Tsk!TypeOK, Tsk!TaskConstants
<1>5. RowsOK
  <2>1. /\ Tsk!CompletedTask.state = "completed" /\ Tsk!CompletedTask.reason = "none"
        /\ Tsk!CompletedTask.published
    BY DEF Tsk!CompletedTask
  <2>2. Tsk!map_backend_status["completed"] = "completed"
    BY DEF Tsk!map_backend_status, Tsk!Engine!Lives, Tsk!Engine!Outcomes
  <2>3. Tsk!NoTask.reason = "none" BY DEF Tsk!NoTask
  <2>4. QED BY <1>1, <1>2, <2>1, <2>2, <2>3
       DEF RowsOK, RowOK, Tsk!Stored, Tsk!Scoped, Tsk!IsTerminal, Tsk!TerminalStates,
           Tsk!Engine!Outcomes
<1>6. OneTask BY <1>1, <1>2 DEF OneTask, Tsk!Stored, Tsk!TaskConstants, Tsk!Calls
<1>7. ThreadsOK
  BY <1>1, <1>2, <1>3, ActorFacts DEF ThreadsOK, WorksOn, Read, CallOK, Working, Tsk!Stored
<1>8. StartupOK /\ Tsk!NoForgottenTask
  <2>1. server = "up" /\ Tsk!CompletedTask.state # "accepted" BY DEF Tsk!Init, Tsk!CompletedTask
  <2>2. \A t \in Tsk!Calls : task[t].state # "accepted" BY <1>1, <1>2, <2>1
  <2>3. \A t \in Tsk!Calls : Tsk!Scoped(t) => attempt[t] = "attached" BY <1>2 DEF Tsk!Scoped
  <2>4. QED BY <2>1, <2>2, <2>3 DEF StartupOK, Tsk!NoForgottenTask
<1>9. QED BY <1>4, <1>5, <1>6, <1>7, <1>8 DEF IInv

\* Every step keeps the invariant.
LEMMA NextInv ==
    ASSUME Tsk!TaskConstants, IInv, [Tsk!Next]_Tsk!vars
    PROVE  IInv'
<1>1. ASSUME NEW a \in Tsk!Actors, Tsk!ReconcileStep(a) PROVE IInv'
  BY <1>1, ObserveInv, WriteRowInv DEF Tsk!ReconcileStep
<1>2. ASSUME NEW c \in Tsk!Calls, Tsk!StartStep(c) PROVE IInv'
  BY <1>2, StartFindInv, ReserveInv, LaunchableInv, LaunchInv, AttachInv DEF Tsk!StartStep
<1>3. ASSUME NEW c \in Tsk!Calls, Tsk!EngineStep(c) PROVE IInv' BY <1>3, EngineStepInv
<1>4. ASSUME NEW h \in Tsk!Handlers, Tsk!HandlerStep(h) PROVE IInv'
  BY <1>4, RequestInv, CancelQueryInv, CancelRunInv DEF Tsk!HandlerStep
<1>5. CASE Tsk!OwnerStep BY <1>5, ResolveRecoveryInv, OwnerInv DEF Tsk!OwnerStep
<1>6. CASE Tsk!ServiceStep
  BY <1>6, CrashInv, DownInv, StartupScopeInv, StartupTaskInv, StartupDoneInv DEF Tsk!ServiceStep
<1>7. CASE UNCHANGED Tsk!vars
  <2>1. UNCHANGED <<tableVars, call>> BY <1>7 DEF Tsk!vars, tableVars
  <2>2. server' # "up" => \A a \in Tsk!Actors : call[a].pc \in {"new", "idle", "done"}
    BY <1>7 DEF Tsk!vars, IInv, ThreadsOK
  <2>3. RowsOK' /\ OneTask' /\ ThreadsOK' BY <2>1, <2>2, SameThreads
  <2>4. Tsk!TypeOK' /\ StartupOK' /\ Tsk!NoForgottenTask'
    BY <1>7 DEF Tsk!vars, IInv, Tsk!TypeOK, StartupOK, Tsk!NoForgottenTask, Tsk!Scoped,
       Tsk!RunStored, Tsk!AttemptHolds,
                Tsk!Stored, Tsk!IsTerminal
  <2>5. QED BY <2>3, <2>4 DEF IInv
<1>8. QED BY <1>1, <1>2, <1>3, <1>4, <1>5, <1>6, <1>7 DEF Tsk!Next

\* A behaviour of the composition keeps the invariant of the tasks, whichever
\* component its steps belong to.
LEMMA TasksInvariant == Spec => []IInv
<1>1. Init => IInv BY InitInv, WorkConstants DEF Init
<1>2. IInv /\ [Next]_vars => IInv'
  <2>1. [Next]_vars => [Tsk!Next]_Tsk!vars BY DEF Next, vars, taskState, Tsk!vars
  <2>2. QED BY <2>1, NextInv, WorkConstants
<1>3. QED BY <1>1, <1>2, PTL DEF Spec

\* A request has at most one run however often and concurrently it is repeated, a
\* task that reports an outcome reports its run's, and no task or attempt is
\* forgotten by a restart (tasks/manager.py, project_scope/store.py).
THEOREM TasksStaySound == Spec => []TasksSound
<1>1. IInv => Tsk!OneRunPerRequest BY DEF IInv, RowsOK, RowOK, OneTask, Tsk!OneRunPerRequest
<1>2. IInv => Tsk!TruthfulOutcome BY DEF IInv, RowsOK, RowOK, Tsk!TruthfulOutcome
<1>3. IInv => Tsk!TypeOK /\ Tsk!NoForgottenTask /\ Tsk!AttemptsSettle
  BY DEF IInv, StartupOK, Tsk!AttemptsSettle
<1>4. IInv => TasksSound BY <1>1, <1>2, <1>3 DEF TasksSound
<1>5. QED BY <1>4, TasksInvariant, PTL

\* What a step may do to a row.
RowStep(t) ==
    \/ task'[t] = task[t]
    \/ ~Tsk!IsTerminal(task[t]) /\ task'[t].state # "queued"
    \/ /\ ~Tsk!IsTerminal(task[t])
       /\ \/ task[t].state \in {"accepted", "queued"}
          \/ task[t].reason \in {"launch_incomplete", "run_record_missing"}

\* A reconcile revises no finished row, and queues no task that has shown its run.
LEMMA ReconciledStep ==
    ASSUME Tsk!TaskConstants, IInv, NEW t \in Tsk!Calls, Tsk!Stored(t), NEW o, Knows(t, o),
           Reconciled(t, o),
           o = "waiting" => \/ task[t].state \in {"accepted", "queued"}
                            \/ task[t].reason \in {"launch_incomplete", "run_record_missing"},
           NEW u \in Tsk!Calls
    PROVE  RowStep(u)
<1>1. CASE u # t BY <1>1, ReconciledRows DEF RowStep
<1>2. CASE u = t
  <2>1. task[t] \in Tsk!TaskRow /\ o \in Tsk!Engine!Lives /\ task'[t] = Tsk!Target(task[t], o)
    BY DEF IInv, Tsk!TypeOK, Knows, Reconciled
  <2>2. CASE Tsk!IsTerminal(task[t]) BY <1>2, <2>1, <2>2 DEF Knows, RowStep
  <2>3. CASE ~Tsk!IsTerminal(task[t]) /\ o # "waiting"
    <3>1. Tsk!Target(task[t], o).state # "queued" BY <2>1, <2>3, TargetFacts, MapFacts
    <3>2. QED BY <1>2, <2>1, <2>3, <3>1 DEF RowStep
  <2>4. CASE ~Tsk!IsTerminal(task[t]) /\ o = "waiting" BY <1>2, <2>4 DEF RowStep
  <2>5. QED BY <2>2, <2>3, <2>4
<1>3. QED BY <1>1, <1>2

\* The same for the two actions that reconcile.
LEMMA WriteRowStep ==
    ASSUME Tsk!TaskConstants, IInv, NEW a \in Tsk!Actors, Tsk!WriteRow(a), NEW u \in Tsk!Calls
    PROVE  RowStep(u)
<1>1. PICK t : t = call[a].task
  OBVIOUS
<1>2. PICK o \in Tsk!Engine!Lives : o = call[a].obs BY DEF IInv, Tsk!TypeOK, Tsk!Threads
<1>3. call[a].pc = "write" /\ UNCHANGED <<scope, attempt, run, lost>>
  BY DEF Tsk!WriteRow, Tsk!At, Tsk!scopeVars, Tsk!engineVars
<1>4. t \in Tsk!Calls /\ Tsk!Stored(t) /\ Read(call[a]) BY <1>1, <1>3, TaskOf DEF WorksOn, Working
<1>5. CASE Tsk!GuardHolds(task[t], call[a].seen)
  <2>1. call[a].seen = task[t] BY <1>1, <1>3, <1>4, <1>5 DEF Tsk!GuardHolds, Read
  <2>2. Knows(t, o) /\ Reconciled(t, o)
    BY <1>1, <1>2, <1>3, <1>4, <1>5, <2>1 DEF Read, Knows, Tsk!WriteRow, Reconciled
  <2>3. o = "waiting" => \/ task[t].state \in {"accepted", "queued"}
                         \/ task[t].reason \in {"launch_incomplete", "run_record_missing"}
    BY <1>2, <1>3, <1>4, <2>1 DEF Read
  <2>4. QED BY <1>4, <2>2, <2>3, ReconciledStep
<1>6. CASE ~Tsk!GuardHolds(task[t], call[a].seen) BY <1>1, <1>6 DEF Tsk!WriteRow, RowStep
<1>7. QED BY <1>5, <1>6

\* The startup pass over the tasks changes a row only as far as RowStep allows.
LEMMA StartupTaskStep ==
    ASSUME Tsk!TaskConstants, IInv, NEW t \in Tsk!Calls, Tsk!StartupTask(t), NEW u \in Tsk!Calls
    PROVE  RowStep(u)
<1>1. Tsk!Stored(t) /\ ~Tsk!IsTerminal(task[t]) /\ UNCHANGED <<scope, attempt, run, lost>>
  BY DEF IInv, StartupOK, Tsk!StartupTask, Tsk!scopeVars, Tsk!engineVars
<1>2. PICK o : o = Tsk!Observation(t)
  OBVIOUS
<1>3. Knows(t, o) BY <1>1, <1>2 DEF IInv, Knows, Tsk!Observation, Tsk!RunStored, Tsk!TypeOK,
     Tsk!Engine!Outcomes, Tsk!Engine!Lives
<1>4. CASE Tsk!AttemptHolds(t)
  <2>1. Reconciled(t, o) BY <1>1, <1>2, <1>4 DEF Tsk!StartupTask, Reconciled
  <2>2. RowOK(t) /\ task[t] \in Tsk!TaskRow BY DEF IInv, RowsOK, Tsk!TypeOK
  <2>3. task[t].reason # "superseded" BY <1>4, <2>2 DEF RowOK, Tsk!AttemptHolds
  <2>4. o = "waiting" => \/ task[t].state \in {"accepted", "queued"}
                         \/ task[t].reason \in {"launch_incomplete", "run_record_missing"}
    BY <1>1, <1>2, <2>2, <2>3
       DEF RowOK, Tsk!Stored, Tsk!Observation, Tsk!TaskRow, Tsk!Reasons, Tsk!Unresolved
  <2>5. QED BY <1>1, <1>3, <2>1, <2>4, ReconciledStep
<1>5. CASE ~Tsk!AttemptHolds(t) BY <1>5 DEF Tsk!StartupTask, RowStep
<1>6. QED BY <1>4, <1>5

\* Every step of the specification treats every row so.
LEMMA RowSteps ==
    ASSUME Tsk!TaskConstants, IInv, [Tsk!Next]_Tsk!vars, NEW u \in Tsk!Calls
    PROVE  RowStep(u)
<1>1. ASSUME NEW c \in Tsk!Calls, NEW scoped \in BOOLEAN, Tsk!Reserve(c, scoped) PROVE RowStep(u)
  <2>1. CASE UNCHANGED task BY <2>1 DEF RowStep
  <2>2. CASE Tsk!Matching(c) = {} /\ task' = [task EXCEPT ![c] = Tsk!Accepted]
    <3>1. ~Tsk!Stored(c) BY <1>1 DEF Tsk!Reserve, Tsk!At, IInv, ThreadsOK, CallOK
    <3>2. Tsk!Accepted.state = "accepted" /\ task \in [Tsk!Calls -> Tsk!TaskRow]
      BY DEF Tsk!Accepted, Tsk!NoTask, IInv, Tsk!TypeOK
    <3>3. QED BY <2>2, <3>1, <3>2 DEF RowStep, Tsk!Stored, Tsk!IsTerminal, Tsk!TerminalStates
  <2>3. QED BY <1>1, <2>1, <2>2 DEF Tsk!Reserve, Tsk!Winners
<1>2. ASSUME NEW t \in Tsk!Calls, NEW s \in Tsk!Calls, Tsk!ResolveRecovery(t, s) PROVE RowStep(u)
  <2>1. task \in [Tsk!Calls -> Tsk!TaskRow] /\ task[t] \in Tsk!TaskRow BY DEF IInv, Tsk!TypeOK
  <2>2. ~Tsk!IsTerminal(task[t])
    BY <1>2 DEF Tsk!ResolveRecovery, Tsk!Resolvable, Tsk!IsTerminal, Tsk!TerminalStates
  <2>3. u # t => task'[u] = task[u] BY <1>2, <2>1 DEF Tsk!ResolveRecovery
  <2>4. task'[t].state = "failed" BY <1>2, <2>1 DEF Tsk!ResolveRecovery, Tsk!TaskRow
  <2>5. QED BY <2>2, <2>3, <2>4 DEF RowStep
<1>3. ASSUME UNCHANGED task PROVE RowStep(u) BY <1>3 DEF RowStep
<1>4. ASSUME NEW a \in Tsk!Actors, Tsk!ReconcileStep(a) PROVE RowStep(u)
  BY <1>3, <1>4, WriteRowStep DEF Tsk!ReconcileStep, Tsk!Observe
<1>5. ASSUME NEW c \in Tsk!Calls, Tsk!StartStep(c) \/ Tsk!EngineStep(c) PROVE RowStep(u)
  BY <1>1, <1>3, <1>5
     DEF Tsk!StartStep, Tsk!EngineStep, Tsk!StartFind, Tsk!Launchable, Tsk!Launch, Tsk!Attach,
         Tsk!MarkRecovery
<1>6. ASSUME NEW h \in Tsk!Handlers, Tsk!HandlerStep(h) PROVE RowStep(u)
  BY <1>3, <1>6 DEF Tsk!HandlerStep, Tsk!Status, Tsk!Cancel, Tsk!CancelQuery, Tsk!CancelRun
<1>7. CASE Tsk!OwnerStep
  BY <1>2, <1>3, <1>7 DEF Tsk!OwnerStep, Tsk!AdjudicateQuarantine, Tsk!SetScopedWrites
<1>8. CASE Tsk!ServiceStep BY <1>3, <1>8, StartupTaskStep
     DEF Tsk!ServiceStep, Tsk!Crash, Tsk!Restart, Tsk!StartupScope, Tsk!StartupDone, Tsk!LoseRun
<1>9. CASE UNCHANGED Tsk!vars BY <1>3, <1>9 DEF Tsk!vars
<1>10. QED BY <1>4, <1>5, <1>6, <1>7, <1>8, <1>9 DEF Tsk!Next

\* Reservations and attempts never leave the quarantine.
LEMMA QuarantineSteps ==
    ASSUME Tsk!TaskConstants, IInv, [Tsk!Next]_Tsk!vars
    PROVE  Tsk!QuarantineKept
<1>1. ASSUME UNCHANGED <<scope, attempt>> PROVE Tsk!QuarantineKept BY <1>1 DEF Tsk!QuarantineKept
<1>2. ASSUME NEW c \in Tsk!Calls, NEW scoped \in BOOLEAN, Tsk!Reserve(c, scoped)
      PROVE Tsk!QuarantineKept
  <2>1. ~Tsk!Stored(c) /\ RowOK(c) BY <1>2 DEF Tsk!Reserve, Tsk!At, IInv, ThreadsOK, CallOK, RowsOK
  <2>2. scope[c] = "none" /\ attempt[c] = "none" BY <2>1 DEF RowOK, Tsk!Scoped
  <2>3. \/ UNCHANGED <<scope, attempt>>
        \/ /\ scope' = [scope EXCEPT ![c] = "attached"]
           /\ attempt' = [attempt EXCEPT ![c] = "reserved"]
    BY <1>2 DEF Tsk!Reserve
  <2>4. QED BY <2>2, <2>3 DEF Tsk!QuarantineKept, IInv, Tsk!TypeOK
<1>3. ASSUME NEW c \in Tsk!Calls, Tsk!Attach(c) \/ Tsk!MarkRecovery(c) PROVE Tsk!QuarantineKept
  BY <1>3 DEF Tsk!Attach, Tsk!MarkRecovery, Tsk!Attachable, Tsk!QuarantineKept, IInv, Tsk!TypeOK
<1>4. ASSUME NEW t \in Tsk!Calls, NEW s \in Tsk!Calls, Tsk!ResolveRecovery(t, s)
      PROVE Tsk!QuarantineKept
  BY <1>4 DEF Tsk!ResolveRecovery, Tsk!QuarantineKept, IInv, Tsk!TypeOK
<1>5. ASSUME Tsk!StartupScope PROVE Tsk!QuarantineKept
  BY <1>5 DEF Tsk!StartupScope, Tsk!ReconciledAttempt, Tsk!QuarantineKept
<1>6. ASSUME NEW a \in Tsk!Actors, Tsk!ReconcileStep(a) PROVE Tsk!QuarantineKept
  BY <1>1, <1>6 DEF Tsk!ReconcileStep, Tsk!Observe, Tsk!WriteRow, Tsk!scopeVars
<1>7. ASSUME NEW c \in Tsk!Calls, Tsk!StartStep(c) \/ Tsk!EngineStep(c) PROVE Tsk!QuarantineKept
  BY <1>1, <1>2, <1>3, <1>7
     DEF Tsk!StartStep, Tsk!EngineStep, Tsk!StartFind, Tsk!Launchable, Tsk!Launch, Tsk!scopeVars
<1>8. ASSUME NEW h \in Tsk!Handlers, Tsk!HandlerStep(h) PROVE Tsk!QuarantineKept BY <1>1, <1>8
     DEF Tsk!HandlerStep, Tsk!Status, Tsk!Cancel, Tsk!CancelQuery, Tsk!CancelRun, Tsk!scopeVars
<1>9. CASE Tsk!OwnerStep BY <1>1, <1>4, <1>9
     DEF Tsk!OwnerStep, Tsk!AdjudicateQuarantine, Tsk!SetScopedWrites, Tsk!scopeVars
<1>10. CASE Tsk!ServiceStep BY <1>1, <1>5, <1>10
     DEF Tsk!ServiceStep, Tsk!Crash, Tsk!Restart, Tsk!StartupDone, Tsk!StartupTask, Tsk!LoseRun,
         Tsk!scopeVars
<1>11. CASE UNCHANGED Tsk!vars BY <1>1, <1>11 DEF Tsk!vars
<1>12. QED BY <1>6, <1>7, <1>8, <1>9, <1>10, <1>11 DEF Tsk!Next

\* A finished task is never revised, a task that showed its run never goes back to
\* "queued", and nothing leaves the quarantine (tasks/store.py,
\* project_scope/store.py).
THEOREM TasksGoForward == Spec => TasksMoveOn
<1>1. ASSUME IInv, [Tsk!Next]_Tsk!vars
      PROVE  Tsk!OutcomeKept /\ Tsk!NotRequeued /\ Tsk!QuarantineKept
  <2>1. \A t \in Tsk!Calls : RowStep(t) BY <1>1, RowSteps, WorkConstants
  <2>2. Tsk!OutcomeKept BY <2>1 DEF Tsk!OutcomeKept, RowStep
  <2>3. Tsk!NotRequeued BY <2>1 DEF Tsk!NotRequeued, RowStep
  <2>4. QED BY <1>1, <2>2, <2>3, QuarantineSteps, WorkConstants
<1>2. IInv /\ [Next]_vars
      => [(focus \in {"starts", "requests"}) =>
             Tsk!OutcomeKept /\ Tsk!NotRequeued /\ Tsk!QuarantineKept]_taskState
  <2>1. [Next]_vars => [Tsk!Next]_Tsk!vars BY DEF Next, vars, taskState, Tsk!vars
  <2>2. QED BY <1>1, <2>1
<1>3. QED BY <1>2, TasksInvariant, PTL DEF Spec, TasksMoveOn

----
(* Managed patches (RepoWriter).                                            *)

Copies == Wri!Contents \union {Wri!NoCopy}
Trees == [Wri!Paths -> Wri!Contents]
Writers == [pc: Wri!PCs, patch: Wri!Patches \union {0}, left: SUBSET Wri!Paths,
            done: SUBSET Wri!Paths, old: [Wri!Paths -> Copies], snap: [Wri!Paths -> Copies],
            clean: BOOLEAN, scratch: [Wri!Paths -> Copies], parent: Nat]
Manifests == [status: Wri!Statuses, head: Nat, base: Trees]

\* A patch that has written nothing yet, one whose payload should be gone, and one
\* whose rollback copies stay.
Fresh(p) == manifest[p].status \in {"none", "preview_ok", "preview_failed"}
Settled(p) == Fresh(p) \/ manifest[p].status \in {"failed", "reverted"}
Lasting(p) == manifest[p].status \in {"applied", "reverted", "corrupt"}

\* A payload that may be on disk at f comes from a patch that has written there; if it
\* should be gone, a patch that stays applied or was reverted keeps it.
Rooted(c, f) ==
    \A p \in Wri!Patches : c = Wri!Payload(p) =>
       /\ f \in FilesOf[p] /\ ~Fresh(p)
       /\ Settled(p) => \E q \in Wri!Patches \ {p} : Lasting(q) /\ rollback[q][f] = c

\* Rollback copies, too, come from patches that have written.
CopiesFit ==
    \A q \in Wri!Patches : \A f \in Wri!Paths : \A p \in Wri!Patches :
       rollback[q][f] = Wri!Payload(p) => f \in FilesOf[p] /\ ~Fresh(p)

\* A manifest's base is older than the patch; an applied patch can be reverted to it.
ManifestFits(p) ==
    /\ manifest[p].status # "none" =>
          \A f \in FilesOf[p] : manifest[p].base[f] # Wri!Payload(p)
    /\ manifest[p].status \notin {"none", "preview_failed"} /\ KindOf[p] = "create" =>
          \A f \in FilesOf[p] : manifest[p].base[f] = Wri!Absent
    /\ manifest[p].status = "applied" =>
          \A f \in FilesOf[p] :
             /\ before[p][f] = manifest[p].base[f]
             /\ KindOf[p] # "create" => rollback[p][f] = before[p][f]

\* What the operation at work has to do and has done.
StageFits ==
    /\ writer.pc # "idle" => writer.patch \in Wri!Patches
    /\ writer.pc \in {"snapshot", "mark_applying"} =>
          /\ manifest[writer.patch].status \in {"preview_ok", "applying", "failed", "rollback_failed"}
          /\ writer.left = FilesOf[writer.patch] /\ writer.done = {}
    /\ writer.pc \in {"write", "undo", "restore", "mark_failed"} =>
          manifest[writer.patch].status = "applying"
    /\ writer.pc \in {"save_result", "revert"} => manifest[writer.patch].status = "applied"
    /\ writer.pc \in Wri!Committing => manifest[writer.patch].status \in {"applied", "reverted"}
    /\ writer.pc \in {"write", "restore", "revert"} => writer.left \subseteq FilesOf[writer.patch]
    /\ writer.pc = "write" => writer.done = FilesOf[writer.patch] \ writer.left
    /\ writer.pc = "undo" => writer.done \subseteq FilesOf[writer.patch]

\* What the operation has read, and what it keeps for its rollback.
ReadingsFit ==
    /\ writer.pc \in {"snapshot", "mark_applying", "write", "undo", "restore", "mark_failed"} =>
          /\ writer.old = before[writer.patch]
          /\ \A f \in FilesOf[writer.patch] : writer.old[f] = manifest[writer.patch].base[f]
    /\ writer.pc \in {"snapshot", "mark_applying", "write", "undo"} =>
          \A f \in Wri!Paths : Rooted(writer.old[f], f)
    /\ writer.pc \in {"mark_applying", "write", "undo", "restore"} =>
          /\ writer.snap \in Trees
          /\ \A f \in Wri!Paths : Rooted(writer.snap[f], f)
          /\ \A f \in FilesOf[writer.patch] :
                /\ writer.snap[f] # Wri!Payload(writer.patch)
                /\ f \notin touched => writer.snap[f] = writer.old[f]
    /\ writer.pc \in {"write", "undo"} /\ KindOf[writer.patch] # "create" =>
          \A f \in writer.done : rollback[writer.patch][f] = writer.old[f]
    /\ writer.pc \in {"add", "diff", "commit_tree"} => writer.scratch \in Trees

\* What is on disk while the operation is at work, the user's changes apart.
FilesFit ==
    /\ writer.pc = "snapshot" => \A f \in FilesOf[writer.patch] : disk[f] # Wri!Payload(writer.patch)
    /\ writer.pc \in {"snapshot", "mark_applying", "write"} =>
          \A f \in writer.left \ touched : disk[f] = writer.old[f]
    /\ writer.pc = "write" => \A f \in writer.done \ touched : disk[f] = Wri!Target(writer.patch)
    /\ writer.pc \in {"restore", "mark_failed"} /\ writer.clean =>
          \A f \in FilesOf[writer.patch] : f \notin writer.left \/ writer.pc = "mark_failed" =>
             /\ disk[f] # Wri!Payload(writer.patch)
             /\ f \notin touched => disk[f] = writer.old[f]
    /\ writer.pc = "revert" =>
          /\ \A f \in writer.left \ touched : disk[f] = Wri!Target(writer.patch)
          /\ \A f \in FilesOf[writer.patch] \ writer.left :
                /\ disk[f] # Wri!Payload(writer.patch)
                /\ f \notin touched => disk[f] = before[writer.patch][f]

PatchInv ==
    /\ Wri!TypeOK
    /\ \A f \in Wri!Paths : Rooted(disk[f], f)
    /\ CopiesFit
    /\ \A p \in Wri!Patches : ManifestFits(p)
    /\ StageFits /\ ReadingsFit /\ FilesFit

\* Contents: payloads differ from each other and from what is no payload.
LEMMA ContentFacts ==
    /\ NumPaths \in Nat \ {0} /\ NumPatches \in Nat /\ MaxWriterEvents \in Nat
    /\ \A p \in Wri!Patches :
          /\ FilesOf[p] \subseteq Wri!Paths /\ KindOf[p] \in {"modify", "create", "remove"}
          /\ Wri!Payload(p) \in Wri!Contents /\ Wri!Target(p) \in Wri!Contents
          /\ Wri!Payload(p) # Wri!Absent /\ Wri!Payload(p) # Wri!Original
          /\ Wri!Payload(p) # Wri!NoCopy
          /\ \A q \in Wri!Patches : Wri!Target(p) = Wri!Payload(q) => p = q
    /\ \A k \in 1..MaxWriterEvents :
          /\ Wri!Edit(k) \in Wri!Contents
          /\ \A p \in Wri!Patches : Wri!Edit(k) # Wri!Payload(p)
    /\ Wri!Absent \in Wri!Contents /\ Wri!NoCopy \notin Wri!Contents
    /\ Wri!Contents \subseteq Copies
<1>1. /\ NumPaths \in Nat \ {0} /\ NumPatches \in Nat /\ MaxWriterEvents \in Nat
      /\ \A p \in Wri!Patches : FilesOf[p] \subseteq Wri!Paths
      /\ \A p \in Wri!Patches : KindOf[p] \in {"modify", "create", "remove"}
  BY WorkConstants DEF Wri!WriterConstants
<1>2. \A p \in Wri!Patches : p \in 1..NumPatches BY DEF Wri!Patches
<1>3. \A p \in Wri!Patches :
          /\ Wri!Payload(p) \in Wri!Contents /\ Wri!Target(p) \in Wri!Contents
          /\ Wri!Payload(p) # Wri!Absent /\ Wri!Payload(p) # Wri!Original
          /\ Wri!Payload(p) # Wri!NoCopy
          /\ \A q \in Wri!Patches : Wri!Target(p) = Wri!Payload(q) => p = q
  BY <1>1, <1>2 DEF Wri!Payload, Wri!Target, Wri!Contents, Wri!Absent, Wri!Original, Wri!NoCopy
<1>4. \A k \in 1..MaxWriterEvents :
          /\ Wri!Edit(k) \in Wri!Contents
          /\ \A p \in Wri!Patches : Wri!Edit(k) # Wri!Payload(p)
  BY <1>1, <1>2 DEF Wri!Payload, Wri!Edit, Wri!Contents
<1>5. Wri!Absent \in Wri!Contents /\ Wri!NoCopy \notin Wri!Contents
      /\ Wri!Contents \subseteq Copies
  BY <1>1 DEF Wri!Absent, Wri!Contents, Wri!NoCopy, Copies
<1>6. QED BY <1>1, <1>3, <1>4, <1>5

\* The first and the last of a set of files are among them.
LEMMA EndsIn ==
    ASSUME NEW S, S \subseteq Wri!Paths, S # {}
    PROVE  Wri!Min(S) \in S /\ Wri!Max(S) \in S
<1>0. NumPaths \in Nat /\ S \subseteq Nat /\ \A x \in S : x <= NumPaths
  BY ContentFacts DEF Wri!Paths
<1>1. Wri!Min(S) \in S
  <2>1. PICK x \in S : \A y \in S : ~(<<y, x>> \in OpToRel(<, Nat))
    BY <1>0, NatLessThanWellFounded, WFMin, Zenon
  <2>2. \A y \in S : ~(y < x) BY <1>0, <2>1 DEF OpToRel
  <2>3. \A y \in S : x <= y BY <1>0, <2>2
  <2>4. QED BY <2>3 DEF Wri!Min
<1>2. Wri!Max(S) \in S
  <2> DEFINE T == {NumPaths - y : y \in S}
  <2>1. T \subseteq Nat /\ T # {}
    <3>1. PICK y \in S : TRUE
      OBVIOUS
    <3>2. NumPaths - y \in T BY <3>1
    <3>3. QED BY <1>0, <3>2
  <2> HIDE DEF T
  <2>2. PICK x \in T : \A y \in T : ~(<<y, x>> \in OpToRel(<, Nat))
    BY <2>1, NatLessThanWellFounded, WFMin, Zenon
  <2>3. \A y \in T : ~(y < x) BY <2>1, <2>2 DEF OpToRel
  <2>4. PICK m \in S : x = NumPaths - m BY DEF T
  <2>5. \A y \in S : m >= y
    <3> SUFFICES ASSUME NEW y \in S PROVE m >= y
      OBVIOUS
    <3>1. NumPaths - y \in T BY DEF T
    <3>2. QED BY <1>0, <2>3, <2>4, <3>1
  <2>6. QED BY <2>5 DEF Wri!Max
<1>3. QED BY <1>1, <1>2

\* Writing one field of the operation's record keeps its type.
LEMMA WriterFields ==
    ASSUME NEW r \in Writers
    PROVE  /\ \A x \in Wri!PCs : [r EXCEPT !.pc = x] \in Writers
           /\ \A x \in SUBSET Wri!Paths : [r EXCEPT !.left = x] \in Writers
           /\ \A x \in SUBSET Wri!Paths : [r EXCEPT !.done = x] \in Writers
           /\ \A x \in [Wri!Paths -> Copies] : [r EXCEPT !.old = x] \in Writers
           /\ \A x \in [Wri!Paths -> Copies] : [r EXCEPT !.snap = x] \in Writers
           /\ \A x \in BOOLEAN : [r EXCEPT !.clean = x] \in Writers
           /\ \A x \in [Wri!Paths -> Copies] : [r EXCEPT !.scratch = x] \in Writers
<1>1. \A x \in Wri!PCs : [r EXCEPT !.pc = x] \in Writers  BY DEF Writers
<1>2. \A x \in SUBSET Wri!Paths : [r EXCEPT !.left = x] \in Writers  BY DEF Writers
<1>3. \A x \in SUBSET Wri!Paths : [r EXCEPT !.done = x] \in Writers  BY DEF Writers
<1>4. \A x \in [Wri!Paths -> Copies] : [r EXCEPT !.old = x] \in Writers  BY DEF Writers
<1>5. \A x \in [Wri!Paths -> Copies] : [r EXCEPT !.snap = x] \in Writers  BY DEF Writers
<1>6. \A x \in BOOLEAN : [r EXCEPT !.clean = x] \in Writers  BY DEF Writers
<1>7. \A x \in [Wri!Paths -> Copies] : [r EXCEPT !.scratch = x] \in Writers  BY DEF Writers
<1> QED  BY <1>1, <1>2, <1>3, <1>4, <1>5, <1>6, <1>7

\* The types, in the names of this module.
LEMMA PatchTypes ==
    Wri!TypeOK <=>
      /\ disk \in Trees /\ tree \in Trees /\ index \in Trees /\ head \in Nat
      /\ manifest \in [Wri!Patches -> Manifests]
      /\ rollback \in [Wri!Patches -> [Wri!Paths -> Copies]]
      /\ writer \in Writers
      /\ before \in [Wri!Patches -> Trees]
      /\ touched \in SUBSET Wri!Paths
      /\ mishaps \in 0..MaxWriterEvents
BY DEF Wri!TypeOK, Trees, Manifests, Copies, Writers

\* The same after a step.
LEMMA TypesNext ==
    ASSUME disk' \in Trees, tree' \in Trees, index' \in Trees, head' \in Nat,
           manifest' \in [Wri!Patches -> Manifests],
           rollback' \in [Wri!Patches -> [Wri!Paths -> Copies]], writer' \in Writers,
           before' \in [Wri!Patches -> Trees], touched' \in SUBSET Wri!Paths,
           mishaps' \in 0..MaxWriterEvents
    PROVE  Wri!TypeOK'
BY DEF Wri!TypeOK, Trees, Manifests, Copies, Writers

\* An operation's record before it does anything.
LEMMA RestTyped ==
    /\ Wri!Idle \in Writers /\ Wri!Idle.pc = "idle" /\ Wri!Idle.left = {} /\ Wri!Idle.done = {}
    /\ Wri!Idle.clean = TRUE /\ Wri!Idle.pc \notin Wri!Committing
    /\ Wri!NoFiles \in [Wri!Paths -> Copies]
    /\ \A f \in Wri!Paths : Wri!NoFiles[f] = Wri!NoCopy
<1>1. Wri!NoFiles \in [Wri!Paths -> Copies] /\ \A f \in Wri!Paths : Wri!NoFiles[f] = Wri!NoCopy
  BY DEF Wri!NoFiles, Copies
<1>2. QED BY <1>1 DEF Wri!Idle, Writers, Wri!PCs, Wri!Committing

\* Writing the status of a manifest.
LEMMA StatusWrites ==
    ASSUME Wri!TypeOK, NEW p \in Wri!Patches, NEW s \in Wri!Statuses, Wri!SetStatus(p, s)
    PROVE  /\ manifest' \in [Wri!Patches -> Manifests]
           /\ manifest'[p].status = s /\ manifest'[p].base = manifest[p].base
           /\ \A q \in Wri!Patches \ {p} : manifest'[q] = manifest[q]
<1>1. manifest \in [Wri!Patches -> Manifests] /\ manifest[p] \in Manifests BY PatchTypes
<1> DEFINE m == [manifest[p] EXCEPT !.status = s]
<1>2. manifest' = [manifest EXCEPT ![p] = m] BY <1>1 DEF Wri!SetStatus
<1>3. m \in Manifests /\ m.status = s /\ m.base = manifest[p].base BY <1>1 DEF Manifests
<1> HIDE DEF m
<1>4. QED BY <1>1, <1>2, <1>3

\* What is rooted stays so while patches move on and lasting copies stay, but for a
\* patch that becomes settled.
LEMMA RootsStay ==
    ASSUME \A p \in Wri!Patches : ~Fresh(p) => ~Fresh(p)',
           \A q \in Wri!Patches : Lasting(q) => Lasting(q)' /\ rollback'[q] = rollback[q],
           NEW c, NEW f, Rooted(c, f),
           \A p \in Wri!Patches : Settled(p)' /\ ~Settled(p) => c # Wri!Payload(p)
    PROVE  Rooted(c, f)'
<1> SUFFICES ASSUME NEW p \in Wri!Patches, c = Wri!Payload(p)
    PROVE  /\ f \in FilesOf[p] /\ ~Fresh(p)'
           /\ Settled(p)' => \E q \in Wri!Patches \ {p} : Lasting(q)' /\ rollback'[q][f] = c
  BY DEF Rooted
<1>1. f \in FilesOf[p] /\ ~Fresh(p) BY DEF Rooted
<1>2. ASSUME Settled(p)' PROVE \E q \in Wri!Patches \ {p} : Lasting(q)' /\ rollback'[q][f] = c
  <2>1. PICK q \in Wri!Patches \ {p} : Lasting(q) /\ rollback[q][f] = c BY <1>2 DEF Rooted
  <2>2. QED BY <2>1
<1>3. QED BY <1>1, <1>2

\* The patches of the operations that only read or end keep what is rooted.
LEMMA RootsSame ==
    ASSUME UNCHANGED <<manifest, rollback>>
    PROVE  \A c, f : Rooted(c, f)' <=> Rooted(c, f)
BY DEF Rooted, Fresh, Settled, Lasting

\* The operation moves on, and writes neither files nor manifests nor copies.
LEMMA WriterTurns ==
    ASSUME PatchInv, UNCHANGED <<disk, manifest, rollback, before>>,
           tree' \in Trees, index' \in Trees, head' \in Nat, touched' \in SUBSET Wri!Paths,
           mishaps' \in 0..MaxWriterEvents, writer' \in Writers,
           StageFits', ReadingsFit', FilesFit'
    PROVE  PatchInv'
<1>1. Wri!TypeOK /\ CopiesFit /\ \A p \in Wri!Patches : ManifestFits(p) BY DEF PatchInv
<1>2. Wri!TypeOK' BY <1>1, PatchTypes, TypesNext
<1>3. CopiesFit' BY <1>1 DEF CopiesFit, Fresh
<1>4. \A p \in Wri!Patches : ManifestFits(p)' BY <1>1 DEF ManifestFits
<1>5. \A f \in Wri!Paths : Rooted(disk[f], f)' BY RootsSame DEF PatchInv
<1>6. QED BY <1>2, <1>3, <1>4, <1>5 DEF PatchInv

\* An operation at rest has nothing to hold to.
LEMMA Rests ==
    ASSUME writer'.pc = "idle"
    PROVE  StageFits' /\ ReadingsFit' /\ FilesFit'
BY DEF StageFits, ReadingsFit, FilesFit, Wri!Committing

\* An operation that ends, for whatever reason, where nothing else is written.
LEMMA WriterEnds ==
    ASSUME PatchInv, UNCHANGED <<disk, manifest, rollback, before, touched>>, writer' = Wri!Idle,
           tree' \in Trees, index' \in Trees, head' \in Nat, mishaps' \in 0..MaxWriterEvents
    PROVE  PatchInv'
<1>1. writer' \in Writers /\ writer'.pc = "idle" BY RestTyped
<1>2. StageFits' /\ ReadingsFit' /\ FilesFit' BY <1>1, Rests
<1>3. QED BY <1>1, <1>2, WriterTurns, PatchTypes DEF PatchInv

\* A fault is counted, and a step without one.
LEMMA FaultCounts ==
    ASSUME Wri!TypeOK, Wri!NoFault \/ \E kind : Wri!Fault(kind)
    PROVE  mishaps' \in 0..MaxWriterEvents
BY ContentFacts DEF Wri!NoFault, Wri!Fault, Wri!Event, Wri!TypeOK

\* What the invariant gives each step.
LEMMA PatchFacts ==
    ASSUME PatchInv
    PROVE  /\ disk \in Trees /\ tree \in Trees /\ index \in Trees /\ head \in Nat
           /\ manifest \in [Wri!Patches -> Manifests]
           /\ rollback \in [Wri!Patches -> [Wri!Paths -> Copies]]
           /\ writer \in Writers /\ before \in [Wri!Patches -> Trees]
           /\ touched \in SUBSET Wri!Paths /\ mishaps \in 0..MaxWriterEvents
           /\ (\A f \in Wri!Paths : Rooted(disk[f], f)) /\ CopiesFit
           /\ (\A p \in Wri!Patches : ManifestFits(p)) /\ StageFits /\ ReadingsFit /\ FilesFit
           /\ Wri!TypeOK
BY PatchTypes DEF PatchInv

\* A preview records a patch; nothing of it is on disk or in a rollback copy.
LEMMA Previews ==
    ASSUME PatchInv, NEW p \in Wri!Patches,
           Wri!PreviewPatch(p) \/ Wri!PreviewFileCreation(p) \/ Wri!PreviewFileRemoval(p)
    PROVE  PatchInv'
<1>0. /\ manifest \in [Wri!Patches -> Manifests] /\ disk \in Trees /\ head \in Nat
      /\ (\A f \in Wri!Paths : Rooted(disk[f], f)) /\ CopiesFit
      /\ (\A q \in Wri!Patches : ManifestFits(q)) /\ StageFits /\ ReadingsFit /\ FilesFit
      /\ FilesOf[p] \subseteq Wri!Paths
  BY PatchFacts, ContentFacts
<1>1. PICK ok \in BOOLEAN :
         /\ Wri!WritePreviewBundle(p, ok)
         /\ ok /\ KindOf[p] = "create" => \A f \in FilesOf[p] : disk[f] = Wri!Absent
  BY DEF Wri!PreviewPatch, Wri!PreviewFileCreation, Wri!PreviewFileRemoval,
     Wri!CreateTargetValid
<1> DEFINE m == [status |-> IF ok THEN "preview_ok" ELSE "preview_failed", head |-> head, base |-> disk]
<1>2. /\ manifest[p].status = "none" /\ manifest' = [manifest EXCEPT ![p] = m]
      /\ UNCHANGED <<disk, tree, index, head, rollback, writer, before, touched, mishaps>>
  BY <1>1 DEF Wri!WritePreviewBundle, Wri!Status, Wri!gitVars, Wri!ghostVars
<1>3. m \in Manifests /\ m.status \in {"preview_ok", "preview_failed"} /\ m.base = disk
      /\ (m.status = "preview_ok" => ok)
  BY <1>0 DEF Manifests, Wri!Statuses
<1> HIDE DEF m
<1>4. /\ manifest' \in [Wri!Patches -> Manifests] /\ manifest'[p] = m
      /\ \A q \in Wri!Patches \ {p} : manifest'[q] = manifest[q]
  BY <1>0, <1>2, <1>3
<1>5. Wri!TypeOK' BY <1>2, <1>4, PatchFacts, TypesNext
<1>6. /\ \A q \in Wri!Patches : Fresh(q)' <=> Fresh(q)
      /\ \A q \in Wri!Patches : Settled(q)' <=> Settled(q)
      /\ \A q \in Wri!Patches : Lasting(q)' <=> Lasting(q)
  BY <1>2, <1>3, <1>4 DEF Fresh, Settled, Lasting
<1>7. \A c, f : Rooted(c, f)' <=> Rooted(c, f) BY <1>2, <1>6 DEF Rooted
<1>8. \A f \in Wri!Paths : Rooted(disk[f], f)' BY <1>0, <1>2, <1>7
<1>9. CopiesFit' BY <1>0, <1>2, <1>6 DEF CopiesFit
<1>10. \A q \in Wri!Patches : ManifestFits(q)'
  <2>1. \A f \in FilesOf[p] : disk[f] # Wri!Payload(p) BY <1>0, <1>2 DEF Rooted, Fresh
  <2>2. ManifestFits(p)' BY <1>1, <1>3, <1>4, <2>1 DEF ManifestFits
  <2>3. \A q \in Wri!Patches \ {p} : ManifestFits(q)' BY <1>0, <1>2, <1>4 DEF ManifestFits
  <2>4. QED BY <2>2, <2>3
<1>11. writer.pc # "idle" => writer.patch \in Wri!Patches BY <1>0 DEF StageFits
<1>12. writer.pc # "idle" => writer.patch # p
  <2>1. writer.pc \in Wri!PCs BY PatchFacts DEF Writers
  <2>2. QED BY <1>0, <1>2, <2>1 DEF StageFits, Wri!Committing, Wri!PCs
<1>13. StageFits' /\ FilesFit'
  <2>1. CASE writer.pc = "idle" BY <1>2, <2>1, Rests
  <2>2. CASE writer.pc # "idle"
    <3>1. manifest'[writer.patch] = manifest[writer.patch] /\ writer' = writer
      BY <1>2, <1>4, <1>11, <1>12, <2>2 DEF StageFits
    <3>2. StageFits' BY <1>0, <3>1 DEF StageFits
    <3>3. FilesFit' BY <1>0, <1>2, <3>1 DEF FilesFit
    <3>4. QED BY <3>2, <3>3
  <2>3. QED BY <2>1, <2>2
<1>14. ReadingsFit'
  <2>1. CASE writer.pc = "idle" BY <1>2, <2>1, Rests
  <2>2. CASE writer.pc # "idle"
    <3>1. manifest'[writer.patch] = manifest[writer.patch] /\ writer' = writer
      BY <1>0, <1>2, <1>4, <1>12, <2>2 DEF StageFits
    <3>2. (\A f \in Wri!Paths : Rooted(writer.old[f], f)) =>
             \A f \in Wri!Paths : Rooted(writer.old[f], f)'
      BY <1>7, <3>1
    <3>3. (\A f \in Wri!Paths : Rooted(writer.snap[f], f)) =>
             \A f \in Wri!Paths : Rooted(writer.snap[f], f)'
      BY <1>7, <3>1
    <3>4. QED BY <1>0, <1>2, <3>1, <3>2, <3>3 DEF ReadingsFit
  <2>3. QED BY <2>1, <2>2
<1>15. QED BY <1>5, <1>8, <1>9, <1>10, <1>13, <1>14 DEF PatchInv

\* The user changes a file, stages it or commits; what the operation has to know of it
\* is that the file was touched.
LEMMA UserActs ==
    ASSUME PatchInv,
           \/ Wri!UserCommit \/ \E f \in Wri!Paths : Wri!UserEdit(f)
           \/ \E files \in SUBSET Wri!Paths : Wri!UserStage(files)
    PROVE  PatchInv'
<1>0. PatchInv /\ Wri!TypeOK BY PatchFacts
<1>1. CASE Wri!UserCommit \/ \E files \in SUBSET Wri!Paths : Wri!UserStage(files)
  <2>1. /\ UNCHANGED <<disk, manifest, rollback, before, touched, writer>>
        /\ \E kind : Wri!Fault(kind)
    BY <1>1 DEF Wri!UserCommit, Wri!UserStage, Wri!ghostVars
  <2>2. mishaps' \in 0..MaxWriterEvents BY <1>0, <2>1, FaultCounts
  <2>3. tree' \in Trees /\ index' \in Trees /\ head' \in Nat
    BY <1>1, PatchFacts DEF Wri!UserCommit, Wri!UserStage, Wri!WithFiles, Trees
  <2>4. StageFits' /\ FilesFit' BY <2>1, PatchFacts DEF StageFits, FilesFit
  <2>5. ReadingsFit'
    <3>1. (\A f \in Wri!Paths : Rooted(writer.old[f], f)) =>
             \A f \in Wri!Paths : Rooted(writer.old[f], f)'
      BY <2>1, RootsSame
    <3>2. (\A f \in Wri!Paths : Rooted(writer.snap[f], f)) =>
             \A f \in Wri!Paths : Rooted(writer.snap[f], f)'
      BY <2>1, RootsSame
    <3>3. QED BY <2>1, <3>1, <3>2, PatchFacts DEF ReadingsFit
  <2>6. QED BY <2>1, <2>2, <2>3, <2>4, <2>5, PatchFacts, WriterTurns
<1>2. ASSUME NEW f \in Wri!Paths, Wri!UserEdit(f) PROVE PatchInv'
  <2>1. /\ Wri!Fault("user") /\ touched' = touched \union {f}
        /\ UNCHANGED <<tree, index, head, manifest, rollback, writer, before>>
    BY <1>2 DEF Wri!UserEdit, Wri!gitVars
  <2>2. mishaps' \in 1..MaxWriterEvents /\ mishaps' \in 0..MaxWriterEvents
    BY <2>1, ContentFacts, PatchFacts DEF Wri!Fault, Wri!Event
  <2>3. /\ disk' \in Trees
        /\ \A g \in Wri!Paths \ {f} : disk'[g] = disk[g]
        /\ \A p \in Wri!Patches : disk'[f] # Wri!Payload(p)
    <3>1. PICK c \in Wri!Contents : /\ disk' = [disk EXCEPT ![f] = c]
                                    /\ \A p \in Wri!Patches : c # Wri!Payload(p)
      <4>1. CASE disk' = [disk EXCEPT ![f] = Wri!Edit(mishaps')] BY <2>2, <4>1, ContentFacts
      <4>2. CASE disk' = [disk EXCEPT ![f] = Wri!Absent] BY <4>2, ContentFacts
      <4>3. QED BY <1>2, <4>1, <4>2 DEF Wri!UserEdit
    <3>2. QED BY <3>1, PatchFacts DEF Trees
  <2>4. Wri!TypeOK' BY <2>1, <2>2, <2>3, PatchFacts, TypesNext
  <2>5. \A c, g : Rooted(c, g)' <=> Rooted(c, g) BY <2>1, RootsSame
  <2>6. \A g \in Wri!Paths : Rooted(disk[g], g)'
    <3> SUFFICES ASSUME NEW g \in Wri!Paths PROVE Rooted(disk[g], g)'
      OBVIOUS
    <3>1. CASE g = f BY <2>3, <3>1 DEF Rooted
    <3>2. CASE g # f
      <4>1. Rooted(disk[g], g) /\ disk'[g] = disk[g] BY <2>3, <3>2, PatchFacts
      <4>2. QED BY <2>5, <4>1
    <3>3. QED BY <3>1, <3>2
  <2>7. CopiesFit' /\ \A p \in Wri!Patches : ManifestFits(p)'
    BY <2>1, PatchFacts DEF CopiesFit, ManifestFits, Fresh
  <2>8. StageFits' BY <2>1, PatchFacts DEF StageFits
  <2>9. ReadingsFit'
    <3>1. (\A g \in Wri!Paths : Rooted(writer.old[g], g)) =>
             \A g \in Wri!Paths : Rooted(writer.old[g], g)'
      BY <2>1, <2>5
    <3>2. (\A g \in Wri!Paths : Rooted(writer.snap[g], g)) =>
             \A g \in Wri!Paths : Rooted(writer.snap[g], g)'
      BY <2>1, <2>5
    <3>3. QED BY <2>1, <3>1, <3>2, PatchFacts DEF ReadingsFit
  <2>10. FilesFit'
    <3>1. /\ writer' = writer /\ writer \in Writers /\ FilesFit
          /\ writer.pc # "idle" => writer.patch \in Wri!Patches /\ FilesOf[writer.patch] \subseteq Wri!Paths
      BY <2>1, PatchFacts, ContentFacts DEF StageFits
    <3>2. \A g \in Wri!Paths : g \notin touched' => g \notin touched /\ disk'[g] = disk[g]
      BY <2>1, <2>3
    <3>3. \A g \in Wri!Paths, p \in Wri!Patches : disk[g] # Wri!Payload(p) => disk'[g] # Wri!Payload(p)
      BY <2>3
    <3>4. writer.left \subseteq Wri!Paths /\ writer.done \subseteq Wri!Paths BY <3>1 DEF Writers
    <3>5. QED BY <2>1, <3>1, <3>2, <3>3, <3>4 DEF FilesFit
  <2>11. QED BY <2>4, <2>6, <2>7, <2>8, <2>9, <2>10 DEF PatchInv
<1>3. QED BY <1>1, <1>2

\* The process dies in the middle of an operation.
LEMMA Crashes == PatchInv /\ Wri!Crash => PatchInv'
<1> SUFFICES ASSUME PatchInv, Wri!Crash PROVE PatchInv'
  OBVIOUS
<1>1. mishaps' \in 0..MaxWriterEvents BY PatchFacts, FaultCounts DEF Wri!Crash
<1>2. QED BY <1>1, PatchFacts, WriterEnds DEF Wri!Crash, Wri!gitVars, Wri!ghostVars

\* An apply starts: each file is as the preview saw it, so no payload of the patch is there.
LEMMA ApplyStarts ==
    ASSUME PatchInv, NEW p \in Wri!Patches, Wri!ApplyCheck(p)
    PROVE  PatchInv'
<1> DEFINE x == [Wri!Idle EXCEPT !.pc = "snapshot", !.patch = p, !.left = FilesOf[p], !.old = disk]
<1>0. /\ disk \in Trees /\ manifest[p] \in Manifests /\ ManifestFits(p) /\ FilesOf[p] \subseteq Wri!Paths
      /\ before \in [Wri!Patches -> Trees] /\ \A f \in Wri!Paths : Rooted(disk[f], f)
  BY PatchFacts, ContentFacts
<1>1. /\ writer' = x /\ before' = [before EXCEPT ![p] = disk] /\ touched' = {}
      /\ UNCHANGED <<disk, tree, index, head, manifest, rollback, mishaps>>
  BY DEF Wri!ApplyCheck, Wri!gitVars
<1>2. /\ manifest[p].status \in {"preview_ok", "applying", "failed", "rollback_failed"}
      /\ \A f \in FilesOf[p] : disk[f] = manifest[p].base[f]
  BY <1>0 DEF Wri!ApplyCheck, Wri!MayApply, Wri!UnchangedSincePreview, Wri!Status, Manifests,
     Wri!Statuses
<1>3. /\ x \in Writers /\ x.pc = "snapshot" /\ x.patch = p /\ x.left = FilesOf[p] /\ x.done = {}
      /\ x.old = disk
  <2>1. disk \in [Wri!Paths -> Copies] BY <1>0, ContentFacts DEF Trees
  <2>2. QED BY <1>0, <2>1, RestTyped DEF Writers, Wri!PCs
<1> HIDE DEF x
<1>4. /\ before' \in [Wri!Patches -> Trees] /\ before'[p] = disk
      /\ \A q \in Wri!Patches \ {p} : before'[q] = before[q]
  BY <1>0, <1>1
<1>5. Wri!TypeOK'
  <2>1. touched' \in SUBSET Wri!Paths BY <1>1
  <2>2. QED BY <1>1, <1>3, <1>4, <2>1, PatchFacts, TypesNext
<1>6. \A c, f : Rooted(c, f)' <=> Rooted(c, f) BY <1>1, RootsSame
<1>7. \A f \in Wri!Paths : Rooted(disk[f], f)' BY <1>0, <1>1, <1>6
<1>8. CopiesFit' BY <1>1, PatchFacts DEF CopiesFit, Fresh
<1>9. \A q \in Wri!Patches : ManifestFits(q)'
  <2>1. ManifestFits(p)' BY <1>0, <1>1, <1>2 DEF ManifestFits
  <2>2. \A q \in Wri!Patches \ {p} : ManifestFits(q)' BY <1>1, <1>4, PatchFacts DEF ManifestFits
  <2>3. QED BY <2>1, <2>2
<1>10. StageFits' BY <1>1, <1>2, <1>3 DEF StageFits, Wri!Committing
<1>11. ReadingsFit'
  <2>1. \A f \in Wri!Paths : Rooted(writer.old[f], f)' BY <1>0, <1>1, <1>3, <1>6
  <2>2. QED BY <1>1, <1>2, <1>3, <1>4, <2>1 DEF ReadingsFit
<1>12. FilesFit' BY <1>0, <1>1, <1>2, <1>3 DEF FilesFit, ManifestFits
<1>13. QED BY <1>5, <1>7, <1>8, <1>9, <1>10, <1>11, <1>12 DEF PatchInv

\* A replay goes on to the commit, a revert starts with the files the apply left.
LEMMA AppliedTakenUp ==
    ASSUME PatchInv, NEW p \in Wri!Patches, Wri!ApplyReplay(p) \/ Wri!RevertCheck(p)
    PROVE  PatchInv'
<1>0. FilesOf[p] \subseteq Wri!Paths /\ FilesOf[p] # {}
  BY ContentFacts, WorkConstants DEF Wri!WriterConstants
<1>1. /\ touched' = {} /\ manifest[p].status = "applied"
      /\ UNCHANGED <<disk, tree, index, head, manifest, rollback, before, mishaps>>
  BY DEF Wri!ApplyReplay, Wri!RevertCheck, Wri!Revertable, Wri!Status, Wri!gitVars
<1>2. /\ writer' \in Writers /\ writer'.patch = p /\ writer'.pc \in {"commit", "revert"}
      /\ writer'.pc = "revert" => /\ writer'.left = FilesOf[p]
                                  /\ \A f \in FilesOf[p] : disk[f] = Wri!Target(p)
  BY <1>0, RestTyped DEF Wri!ApplyReplay, Wri!RevertCheck, Wri!Revertable, Writers, Wri!PCs
<1>3. StageFits' /\ ReadingsFit' /\ FilesFit' BY <1>1, <1>2 DEF StageFits, ReadingsFit, FilesFit
<1>4. tree' \in Trees /\ index' \in Trees /\ head' \in Nat /\ touched' \in SUBSET Wri!Paths
      /\ mishaps' \in 0..MaxWriterEvents
  BY <1>1, PatchFacts
<1>5. QED BY <1>1, <1>2, <1>3, <1>4, WriterTurns

\* The operation goes on to another state with what it has.
LEMMA WriterGoes ==
    ASSUME Wri!TypeOK, NEW pc \in Wri!PCs, Wri!Goto(pc)
    PROVE  /\ writer' \in Writers /\ writer'.pc = pc
           /\ writer'.patch = writer.patch /\ writer'.left = writer.left /\ writer'.done = writer.done
           /\ writer'.old = writer.old /\ writer'.snap = writer.snap /\ writer'.clean = writer.clean
           /\ writer'.scratch = writer.scratch /\ writer'.parent = writer.parent
<1>1. writer \in Writers BY PatchTypes
<1> DEFINE x == [writer EXCEPT !.pc = pc]
<1>2. x \in Writers BY <1>1, WriterFields
<1>3. /\ x.pc = pc /\ x.patch = writer.patch /\ x.left = writer.left /\ x.done = writer.done
      /\ x.old = writer.old /\ x.snap = writer.snap /\ x.clean = writer.clean
      /\ x.scratch = writer.scratch /\ x.parent = writer.parent
  BY <1>1 DEF Writers
<1>4. writer' = x BY DEF Wri!Goto
<1> HIDE DEF x
<1>5. QED BY <1>2, <1>3, <1>4

\* Steps that read files, store a result or end an undo.
LEMMA QuietSteps ==
    ASSUME PatchInv,
           Wri!ApplySnapshot \/ Wri!SaveResult \/ Wri!UndoDone
    PROVE  PatchInv'
<1>0. /\ disk \in Trees /\ tree \in Trees /\ index \in Trees /\ head \in Nat /\ writer \in Writers
      /\ (\A f \in Wri!Paths : Rooted(disk[f], f)) /\ StageFits /\ ReadingsFit /\ FilesFit
      /\ Wri!TypeOK /\ touched \in SUBSET Wri!Paths
  BY PatchFacts
<1>1. /\ UNCHANGED <<disk, manifest, rollback, before, touched>> /\ writer.patch \in Wri!Patches
      /\ FilesOf[writer.patch] \subseteq Wri!Paths
  <2>1. /\ UNCHANGED <<disk, manifest, rollback, before, touched>>
        /\ writer.pc \in {"snapshot", "save_result", "undo"}
    BY DEF Wri!ApplySnapshot, Wri!SaveResult, Wri!UndoDone, Wri!At, Wri!gitVars, Wri!ghostVars
  <2>2. QED BY <1>0, <2>1, ContentFacts DEF StageFits
<1>2. \A c, f : Rooted(c, f)' <=> Rooted(c, f) BY <1>1, RootsSame
<1>3. CASE Wri!ApplySnapshot
  <2> DEFINE x == [writer EXCEPT !.pc = "mark_applying", !.snap = disk]
  <2>1. /\ writer.pc = "snapshot" /\ writer' = x /\ UNCHANGED <<tree, index, head, mishaps>>
    BY <1>3 DEF Wri!ApplySnapshot, Wri!At, Wri!gitVars
  <2>2. /\ x \in Writers /\ x.pc = "mark_applying" /\ x.snap = disk /\ x.patch = writer.patch
        /\ x.left = writer.left /\ x.done = writer.done /\ x.old = writer.old
    <3>1. disk \in [Wri!Paths -> Copies] BY <1>0, ContentFacts DEF Trees
    <3>2. QED BY <1>0, <3>1 DEF Writers, Wri!PCs
  <2> HIDE DEF x
  <2>3. StageFits' BY <1>0, <1>1, <2>1, <2>2 DEF StageFits, Wri!Committing
  <2>4. ReadingsFit'
    <3>1. \A f \in Wri!Paths : Rooted(writer.old[f], f)' BY <1>0, <1>2, <2>1, <2>2 DEF ReadingsFit
    <3>2. \A f \in Wri!Paths : Rooted(writer.snap[f], f)' BY <1>0, <1>2, <2>1, <2>2
    <3>3. \A f \in FilesOf[writer.patch] :
             disk[f] # Wri!Payload(writer.patch) /\ (f \notin touched => disk[f] = writer.old[f])
      BY <1>0, <2>1 DEF FilesFit, StageFits
    <3>4. QED BY <1>0, <1>1, <2>1, <2>2, <3>1, <3>2, <3>3 DEF ReadingsFit
  <2>5. FilesFit' BY <1>0, <1>1, <2>1, <2>2 DEF FilesFit
  <2>6. QED BY <1>0, <1>1, <2>1, <2>2, <2>3, <2>4, <2>5, PatchFacts, WriterTurns
<1>4. CASE Wri!SaveResult
  <2>1. /\ writer.pc = "save_result" /\ UNCHANGED <<tree, index, head>> /\ mishaps' \in 0..MaxWriterEvents
        /\ Wri!Goto("commit") \/ writer' = Wri!Idle
    BY <1>0, <1>4, FaultCounts DEF Wri!SaveResult, Wri!At, Wri!gitVars
  <2>2. CASE writer' = Wri!Idle BY <1>0, <1>1, <2>1, <2>2, WriterEnds
  <2>3. CASE Wri!Goto("commit")
    <3>1. writer' \in Writers /\ writer'.pc = "commit" /\ writer'.patch = writer.patch
      BY <1>0, <2>3, WriterGoes DEF Wri!PCs
    <3>2. StageFits' /\ ReadingsFit' /\ FilesFit'
      BY <1>0, <1>1, <2>1, <3>1 DEF StageFits, ReadingsFit, FilesFit
    <3>3. QED BY <1>0, <1>1, <2>1, <3>1, <3>2, WriterTurns
  <2>4. QED BY <2>1, <2>2, <2>3
<1>5. CASE Wri!UndoDone
  <2> DEFINE files == FilesOf[writer.patch]
             x == [writer EXCEPT !.pc = "restore", !.left = files]
  <2>1. /\ writer.pc = "undo" /\ writer' = x /\ UNCHANGED <<tree, index, head, mishaps>>
    BY <1>5 DEF Wri!UndoDone, Wri!At, Wri!gitVars
  <2>2. /\ x \in Writers /\ x.pc = "restore" /\ x.snap = writer.snap /\ x.patch = writer.patch
        /\ x.left = files /\ x.old = writer.old
    <3>1. files \in SUBSET Wri!Paths BY <1>1
    <3> HIDE DEF files
    <3>2. QED BY <1>0, <3>1 DEF Writers, Wri!PCs
  <2> HIDE DEF x
  <2>3. StageFits' BY <1>0, <1>1, <2>1, <2>2 DEF StageFits, Wri!Committing
  <2>4. ReadingsFit'
    <3>1. \A f \in Wri!Paths : Rooted(writer.snap[f], f)' BY <1>0, <1>2, <2>1, <2>2 DEF ReadingsFit
    <3>2. QED BY <1>0, <1>1, <2>1, <2>2, <3>1 DEF ReadingsFit
  <2>5. FilesFit' BY <1>0, <1>1, <2>1, <2>2 DEF FilesFit
  <2>6. QED BY <1>0, <1>1, <2>1, <2>2, <2>3, <2>4, <2>5, PatchFacts, WriterTurns
<1>6. QED BY <1>3, <1>4, <1>5

\* The git calls of the commit write no file, no manifest and no copy.
LEMMA GitSteps ==
    ASSUME PatchInv,
           \/ Wri!ListChanges \/ Wri!ReadTree \/ Wri!AddFiles \/ Wri!DiffCached
           \/ Wri!CommitTree \/ Wri!SyncIndex
    PROVE  PatchInv'
<1>0. /\ disk \in Trees /\ tree \in Trees /\ index \in Trees /\ head \in Nat /\ writer \in Writers
      /\ StageFits /\ ReadingsFit /\ Wri!TypeOK /\ touched \in SUBSET Wri!Paths
  BY PatchFacts
<1>1. /\ UNCHANGED <<disk, manifest, rollback, before, touched>>
      /\ writer.pc \in Wri!Committing /\ mishaps' \in 0..MaxWriterEvents
  BY <1>0, FaultCounts DEF Wri!ListChanges, Wri!ReadTree, Wri!AddFiles, Wri!DiffCached,
     Wri!CommitTree, Wri!SyncIndex, Wri!At, Wri!gitVars, Wri!ghostVars, Wri!Committing
<1>2. /\ writer.patch \in Wri!Patches /\ FilesOf[writer.patch] \subseteq Wri!Paths
      /\ manifest[writer.patch].status \in {"applied", "reverted"}
  BY <1>0, <1>1, ContentFacts DEF StageFits, Wri!Committing
<1>3. ASSUME writer' = Wri!Idle, tree' \in Trees, index' \in Trees, head' \in Nat
      PROVE  PatchInv'
  BY <1>1, <1>3, WriterEnds
<1>4. ASSUME writer' \in Writers, writer'.patch = writer.patch,
             writer'.pc \in {"read_tree", "add", "diff", "commit_tree", "sync"},
             writer'.pc \in {"add", "diff", "commit_tree"} => writer'.scratch \in Trees,
             tree' \in Trees, index' \in Trees, head' \in Nat
      PROVE  PatchInv'
  <2>1. StageFits' BY <1>1, <1>2, <1>4 DEF StageFits
  <2>2. ReadingsFit' /\ FilesFit' BY <1>4 DEF ReadingsFit, FilesFit
  <2>3. touched' \in SUBSET Wri!Paths BY <1>0, <1>1
  <2>4. QED BY <1>1, <1>4, <2>1, <2>2, <2>3, WriterTurns
<1>5. CASE Wri!ListChanges
  <2>1. UNCHANGED <<tree, index, head>> BY <1>5 DEF Wri!ListChanges, Wri!gitVars
  <2>2. CASE writer' = Wri!Idle BY <1>0, <1>3, <2>1, <2>2
  <2>3. ASSUME NEW R, writer' = [writer EXCEPT !.pc = "read_tree",
                                               !.left = Wri!StagePaths(writer.patch, R)]
        PROVE  PatchInv'
    <3> DEFINE paths == Wri!StagePaths(writer.patch, R)
               x == [writer EXCEPT !.pc = "read_tree", !.left = paths]
    <3>1. paths \in SUBSET Wri!Paths BY <1>2 DEF Wri!StagePaths, Wri!Partners
    <3>2. writer' = x BY <2>3
    <3> HIDE DEF paths
    <3>3. x \in Writers /\ x.pc = "read_tree" /\ x.patch = writer.patch
      BY <1>0, <3>1 DEF Writers, Wri!PCs
    <3> HIDE DEF x
    <3>4. QED BY <1>0, <1>4, <2>1, <3>2, <3>3
  <2>4. QED BY <1>5, <2>2, <2>3 DEF Wri!ListChanges
<1>6. CASE Wri!ReadTree
  <2> DEFINE x == [writer EXCEPT !.pc = "add", !.scratch = tree, !.parent = head]
  <2>1. UNCHANGED <<tree, index, head>> /\ (writer' = x \/ writer' = Wri!Idle)
    BY <1>6 DEF Wri!ReadTree, Wri!gitVars
  <2>2. tree \in [Wri!Paths -> Copies] BY <1>0, ContentFacts DEF Trees
  <2>3. x \in Writers /\ x.pc = "add" /\ x.patch = writer.patch /\ x.scratch = tree
    BY <1>0, <2>2 DEF Writers, Wri!PCs
  <2> HIDE DEF x
  <2>4. QED BY <1>0, <1>3, <1>4, <2>1, <2>3
<1>7. CASE Wri!AddFiles
  <2> DEFINE idx == Wri!WithFiles(writer.scratch, writer.left)
             x == [writer EXCEPT !.pc = "diff", !.scratch = idx]
  <2>1. UNCHANGED <<tree, index, head>> /\ (writer' = x \/ writer' = Wri!Idle) /\ writer.pc = "add"
    BY <1>0, <1>7 DEF Wri!AddFiles, Wri!gitVars, Wri!At, Writers
  <2>2. idx \in Trees /\ idx \in [Wri!Paths -> Copies]
    BY <1>0, <2>1, ContentFacts DEF Trees, Wri!WithFiles, ReadingsFit
  <2> HIDE DEF idx
  <2>3. x \in Writers /\ x.pc = "diff" /\ x.patch = writer.patch /\ x.scratch = idx
    BY <1>0, <2>2 DEF Writers, Wri!PCs
  <2> HIDE DEF x
  <2>4. QED BY <1>0, <1>3, <1>4, <2>1, <2>2, <2>3
<1>8. CASE Wri!DiffCached \/ Wri!CommitTree
  <2>1. /\ index' = index /\ writer.pc \in {"diff", "commit_tree"}
        /\ \/ UNCHANGED <<tree, head>>
           \/ tree' = writer.scratch /\ head' = head + 1
        /\ writer' = Wri!Idle \/ Wri!Goto("commit_tree") \/ Wri!Goto("sync")
    BY <1>8 DEF Wri!DiffCached, Wri!CommitTree, Wri!At, Wri!gitVars
  <2>2. tree' \in Trees /\ index' \in Trees /\ head' \in Nat BY <1>0, <2>1 DEF ReadingsFit
  <2>3. ASSUME NEW pc \in {"commit_tree", "sync"}, Wri!Goto(pc)
        PROVE  /\ writer' \in Writers /\ writer'.pc = pc
               /\ writer'.patch = writer.patch /\ writer'.scratch = writer.scratch
    BY <1>0, <2>3, WriterGoes DEF Wri!PCs
  <2>4. writer.scratch \in Trees BY <1>0, <2>1 DEF ReadingsFit
  <2>5. QED BY <1>3, <1>4, <2>1, <2>2, <2>3, <2>4
<1>9. CASE Wri!SyncIndex
  <2>1. /\ writer' = Wri!Idle /\ UNCHANGED <<tree, head>>
        /\ index' \in Trees
    BY <1>0, <1>9 DEF Wri!SyncIndex, Wri!WithFiles, Trees
  <2>2. QED BY <1>0, <1>3, <2>1
<1>10. QED BY <1>5, <1>6, <1>7, <1>8, <1>9

\* What is rooted stays so when the operation writes the status of its patch.
LEMMA MarkedRoots ==
    ASSUME Wri!TypeOK, NEW p \in Wri!Patches,
           NEW s \in Wri!Statuses \ {"none", "preview_ok", "preview_failed"}, Wri!SetStatus(p, s),
           UNCHANGED rollback, Lasting(p) => s \in {"applied", "reverted", "corrupt"},
           NEW c, NEW f, Rooted(c, f), s \in {"failed", "reverted"} => c # Wri!Payload(p)
    PROVE  Rooted(c, f)'
<1>1. /\ manifest'[p].status = s
      /\ \A q \in Wri!Patches \ {p} : manifest'[q] = manifest[q]
  BY StatusWrites
<1>2. \A q \in Wri!Patches : ~Fresh(q) => ~Fresh(q)' BY <1>1 DEF Fresh
<1>3. \A q \in Wri!Patches : Lasting(q) => Lasting(q)' /\ rollback'[q] = rollback[q]
  BY <1>1 DEF Lasting
<1>4. \A q \in Wri!Patches : Settled(q)' /\ ~Settled(q) => c # Wri!Payload(q)
  BY <1>1 DEF Settled, Fresh
<1>5. QED BY <1>2, <1>3, <1>4, RootsStay

\* The operation writes the status of its patch.
LEMMA Marks ==
    ASSUME PatchInv, NEW p \in Wri!Patches,
           NEW s \in Wri!Statuses \ {"none", "preview_ok", "preview_failed"}, Wri!SetStatus(p, s),
           UNCHANGED <<disk, tree, index, head, rollback, before, touched>>,
           mishaps' \in 0..MaxWriterEvents, writer' \in Writers,
           manifest[p].status \notin {"none", "preview_failed"},
           Lasting(p) => s \in {"applied", "reverted", "corrupt"},
           s \in {"failed", "reverted"} => \A f \in FilesOf[p] : disk[f] # Wri!Payload(p),
           s = "applied" => \A f \in FilesOf[p] :
              /\ before[p][f] = manifest[p].base[f]
              /\ KindOf[p] # "create" => rollback[p][f] = before[p][f],
           StageFits', ReadingsFit', FilesFit'
    PROVE  PatchInv'
<1>0. Wri!TypeOK /\ (\A f \in Wri!Paths : Rooted(disk[f], f)) /\ CopiesFit
      /\ \A q \in Wri!Patches : ManifestFits(q)
  BY PatchFacts
<1>1. /\ manifest' \in [Wri!Patches -> Manifests]
      /\ manifest'[p].status = s /\ manifest'[p].base = manifest[p].base
      /\ \A q \in Wri!Patches \ {p} : manifest'[q] = manifest[q]
  BY <1>0, StatusWrites
<1>2. Wri!TypeOK' BY <1>1, PatchFacts, TypesNext
<1>3. \A f \in Wri!Paths : Rooted(disk[f], f)'
  <2> SUFFICES ASSUME NEW f \in Wri!Paths PROVE Rooted(disk[f], f)'
    OBVIOUS
  <2> DEFINE c == disk[f]
  <2>1. Rooted(c, f) /\ (s \in {"failed", "reverted"} => c # Wri!Payload(p)) BY <1>0 DEF Rooted
  <2>2. \A b : Rooted(b, f) /\ (s \in {"failed", "reverted"} => b # Wri!Payload(p)) => Rooted(b, f)'
    BY <1>0, MarkedRoots
  <2>3. QED BY <2>1, <2>2
<1>4. CopiesFit' BY <1>0, <1>1 DEF CopiesFit, Fresh
<1>5. \A q \in Wri!Patches : ManifestFits(q)'
  <2>1. ManifestFits(p)' BY <1>0, <1>1 DEF ManifestFits
  <2>2. \A q \in Wri!Patches \ {p} : ManifestFits(q)' BY <1>0, <1>1 DEF ManifestFits
  <2>3. QED BY <2>1, <2>2
<1>6. QED BY <1>2, <1>3, <1>4, <1>5 DEF PatchInv

\* What the operation's patch is, and the faults it may meet.
LEMMA AtWork ==
    ASSUME PatchInv, writer.pc # "idle"
    PROVE  /\ writer.patch \in Wri!Patches /\ FilesOf[writer.patch] \subseteq Wri!Paths
           /\ FilesOf[writer.patch] # {}
           /\ writer \in Writers /\ writer.left \subseteq Wri!Paths /\ writer.done \subseteq Wri!Paths
           /\ ManifestFits(writer.patch) /\ manifest[writer.patch] \in Manifests
           /\ Wri!TypeOK /\ StageFits /\ ReadingsFit /\ FilesFit
<1>1. writer.patch \in Wri!Patches BY PatchFacts DEF StageFits
<1>2. FilesOf[writer.patch] # {} BY <1>1, WorkConstants DEF Wri!WriterConstants
<1>3. writer.left \subseteq Wri!Paths /\ writer.done \subseteq Wri!Paths BY PatchFacts DEF Writers
<1>4. QED BY <1>1, <1>2, <1>3, PatchFacts, ContentFacts

\* The status is made durable before the first file is written.
LEMMA ApplyingMarked == PatchInv /\ Wri!MarkApplying => PatchInv'
<1> SUFFICES ASSUME PatchInv, Wri!MarkApplying PROVE PatchInv'
  OBVIOUS
<1> DEFINE p == writer.patch
<1>1. /\ writer.pc = "mark_applying" /\ UNCHANGED <<disk, tree, index, head, rollback, before, touched>>
      /\ \/ Wri!SetStatus(p, "applying") /\ Wri!Goto("write")
         \/ writer' = Wri!Idle /\ UNCHANGED manifest
  BY DEF Wri!MarkApplying, Wri!At, Wri!gitVars, Wri!ghostVars
<1>2. mishaps' \in 0..MaxWriterEvents BY PatchFacts, FaultCounts DEF Wri!MarkApplying
<1>3. CASE writer' = Wri!Idle /\ UNCHANGED manifest BY <1>1, <1>2, <1>3, PatchFacts, WriterEnds
<1>4. CASE Wri!SetStatus(p, "applying") /\ Wri!Goto("write")
  <2>1. /\ p \in Wri!Patches /\ FilesOf[p] \subseteq Wri!Paths /\ Wri!TypeOK /\ StageFits
        /\ ReadingsFit /\ FilesFit
    BY <1>1, AtWork
  <2>2. /\ writer' \in Writers /\ writer'.pc = "write" /\ writer'.patch = p
        /\ writer'.left = writer.left /\ writer'.done = writer.done
        /\ writer'.old = writer.old /\ writer'.snap = writer.snap
    BY <1>4, <2>1, WriterGoes DEF Wri!PCs
  <2>3. "applying" \in Wri!Statuses \ {"none", "preview_ok", "preview_failed"} BY DEF Wri!Statuses
  <2>4. /\ manifest[p].status \in {"preview_ok", "applying", "failed", "rollback_failed"}
        /\ writer.left = FilesOf[p] /\ writer.done = {}
    BY <1>1, <2>1 DEF StageFits
  <2>5. manifest'[p].status = "applying" /\ manifest'[p].base = manifest[p].base
    BY <1>4, <2>1, <2>3, StatusWrites
  <2>6. \A c, f : Rooted(c, f) => Rooted(c, f)'
    BY <1>1, <1>4, <2>1, <2>3, <2>4, MarkedRoots DEF Lasting
  <2> HIDE DEF p
  <2>7. StageFits' /\ FilesFit'
    BY <1>1, <2>1, <2>2, <2>4, <2>5 DEF StageFits, Wri!Committing, FilesFit, p
  <2>8. ReadingsFit'
    <3>1. \A f \in Wri!Paths : Rooted(writer.old[f], f)' BY <1>1, <2>1, <2>2, <2>6 DEF ReadingsFit
    <3>2. \A f \in Wri!Paths : Rooted(writer.snap[f], f)' BY <1>1, <2>1, <2>2, <2>6 DEF ReadingsFit
    <3>3. QED BY <1>1, <2>1, <2>2, <2>4, <2>5, <3>1, <3>2 DEF ReadingsFit, p
  <2>9. QED BY <1>1, <1>2, <1>4, <2>1, <2>2, <2>3, <2>4, <2>7, <2>8, Marks DEF Lasting
<1>5. QED BY <1>1, <1>3, <1>4

\* A rollback copy of the operation's own patch is written, or not.
LEMMA CopyWrites ==
    ASSUME PatchInv, writer.pc = "write", NEW f \in writer.left,
           rollback' \in {rollback, Wri!Saved(writer.patch, f)}, UNCHANGED <<manifest, before>>
    PROVE  /\ rollback' \in [Wri!Patches -> [Wri!Paths -> Copies]]
           /\ \A q \in Wri!Patches \ {writer.patch} : rollback'[q] = rollback[q]
           /\ KindOf[writer.patch] # "create" =>
                 \A g \in writer.done : rollback'[writer.patch][g] = writer.old[g]
           /\ rollback' = Wri!Saved(writer.patch, f) /\ KindOf[writer.patch] # "create" =>
                 rollback'[writer.patch][f] = writer.old[f]
           /\ CopiesFit'
           /\ \A c, g : Rooted(c, g) => Rooted(c, g)'
           /\ \A q \in Wri!Patches : ManifestFits(q)'
<1> DEFINE p == writer.patch
<1>0. /\ p \in Wri!Patches /\ rollback \in [Wri!Patches -> [Wri!Paths -> Copies]]
      /\ writer \in Writers /\ f \in Wri!Paths /\ CopiesFit /\ ReadingsFit /\ StageFits
      /\ (\A q \in Wri!Patches : ManifestFits(q)) /\ manifest[p].status = "applying"
      /\ writer.old[f] \in Copies
  BY PatchFacts, AtWork DEF StageFits, Writers
<1>1. f \notin writer.done BY <1>0 DEF StageFits
<1>2. rollback' = rollback \/ (rollback' = [rollback EXCEPT ![p][f] = writer.old[f]] /\ KindOf[p] # "create")
      \/ (rollback' = Wri!Saved(p, f) /\ KindOf[p] = "create" /\ rollback' = rollback)
  BY DEF Wri!Saved
<1>3. KindOf[p] # "create" => Wri!Saved(p, f) = [rollback EXCEPT ![p][f] = writer.old[f]]
  BY DEF Wri!Saved
<1>4. /\ rollback' \in [Wri!Patches -> [Wri!Paths -> Copies]]
      /\ \A q \in Wri!Patches \ {p} : rollback'[q] = rollback[q]
      /\ \A g \in Wri!Paths \ {f} : rollback'[p][g] = rollback[p][g]
      /\ rollback'[p][f] \in {rollback[p][f], writer.old[f]}
  BY <1>0, <1>2
<1>5. KindOf[p] # "create" => \A g \in writer.done : rollback'[p][g] = writer.old[g]
  BY <1>0, <1>1, <1>4 DEF ReadingsFit, Writers
<1>6. ASSUME rollback' = Wri!Saved(p, f), KindOf[p] # "create"
      PROVE  rollback'[p][f] = writer.old[f]
  <2> DEFINE r == [rollback[p] EXCEPT ![f] = writer.old[f]]
  <2>1. rollback[p] \in [Wri!Paths -> Copies] BY <1>0
  <2>2. r[f] = writer.old[f] BY <1>0, <2>1
  <2>3. rollback' = [rollback EXCEPT ![p] = r] BY <1>3, <1>6
  <2> HIDE DEF r
  <2>4. rollback'[p] = r BY <1>0, <2>3
  <2>5. QED BY <2>2, <2>4
<1>7. CopiesFit'
  <2> SUFFICES ASSUME NEW q \in Wri!Patches, NEW g \in Wri!Paths, NEW r \in Wri!Patches,
                      rollback'[q][g] = Wri!Payload(r)
      PROVE  g \in FilesOf[r] /\ ~Fresh(r)
    BY DEF CopiesFit, Fresh
  <2>1. CASE rollback'[q][g] = rollback[q][g] BY <1>0, <2>1 DEF CopiesFit
  <2>2. CASE rollback'[q][g] # rollback[q][g]
    <3>1. q = p /\ g = f /\ writer.old[f] = Wri!Payload(r) BY <1>4, <2>2
    <3>2. Rooted(writer.old[f], f) BY <1>0 DEF ReadingsFit
    <3>3. QED BY <3>1, <3>2 DEF Rooted
  <2>3. QED BY <2>1, <2>2
<1>8. \A c, g : Rooted(c, g) => Rooted(c, g)'
  <2>1. \A q \in Wri!Patches : /\ Fresh(q)' <=> Fresh(q)
                               /\ Settled(q)' <=> Settled(q)
                               /\ Lasting(q)' <=> Lasting(q)
    BY DEF Fresh, Settled, Lasting
  <2>2. \A q \in Wri!Patches : Lasting(q) => rollback'[q] = rollback[q] BY <1>0, <1>4 DEF Lasting
  <2>3. QED BY <2>1, <2>2, RootsStay
<1>9. \A q \in Wri!Patches : ManifestFits(q)' BY <1>0, <1>4 DEF ManifestFits
<1>10. QED BY <1>4, <1>5, <1>6, <1>7, <1>8, <1>9

\* The operation writes one file.
LEMMA FileWritten ==
    ASSUME disk \in Trees, \A g \in Wri!Paths : Rooted(disk[g], g),
           NEW f \in Wri!Paths, NEW c \in Wri!Contents, disk' = [disk EXCEPT ![f] = c],
           \A b, g : Rooted(b, g) => Rooted(b, g)', Rooted(c, f)
    PROVE  /\ disk' \in Trees /\ disk'[f] = c
           /\ \A g \in Wri!Paths \ {f} : disk'[g] = disk[g]
           /\ \A g \in Wri!Paths : Rooted(disk[g], g)'
<1>1. disk' \in Trees /\ disk'[f] = c /\ \A g \in Wri!Paths \ {f} : disk'[g] = disk[g] BY DEF Trees
<1>2. ASSUME NEW g \in Wri!Paths PROVE Rooted(disk[g], g)'
  <2>1. CASE g = f
    <3>1. Rooted(c, f)'
      OBVIOUS
    <3>2. QED BY <1>1, <2>1, <3>1
  <2>2. CASE g # f
    <3>1. Rooted(disk[g], g) /\ disk'[g] = disk[g] BY <1>1, <2>2
    <3>2. QED BY <3>1
  <2>3. QED BY <2>1, <2>2
<1>3. QED BY <1>1, <1>2

\* One operation of an apply: its rollback copy, then its file.
LEMMA OpWritten ==
    ASSUME PatchInv, Wri!WriteOp
    PROVE  PatchInv'
<1> DEFINE p == writer.patch
           f == Wri!Min(writer.left)
<1>0. /\ p \in Wri!Patches /\ FilesOf[p] \subseteq Wri!Paths /\ FilesOf[p] # {} /\ writer \in Writers
      /\ Wri!TypeOK /\ StageFits /\ ReadingsFit /\ FilesFit /\ writer.pc = "write"
      /\ writer.left \subseteq FilesOf[p] /\ manifest[p].status = "applying"
      /\ writer.done = FilesOf[p] \ writer.left /\ disk \in Trees
      /\ \A g \in Wri!Paths : Rooted(disk[g], g)
  BY AtWork, PatchFacts DEF Wri!WriteOp, Wri!At, StageFits
<1>1. /\ f \in writer.left /\ f \in FilesOf[p] /\ f \in Wri!Paths BY <1>0, EndsIn DEF Wri!WriteOp
<1>2. /\ UNCHANGED <<tree, index, head, manifest, before, touched>>
      /\ rollback' \in {rollback, Wri!Saved(p, f)}
      /\ \/ /\ rollback' = Wri!Saved(p, f) /\ disk' = [disk EXCEPT ![f] = Wri!Target(p)]
            /\ writer' = [writer EXCEPT !.left = writer.left \ {f}, !.done = writer.done \union {f}]
         \/ UNCHANGED disk /\ Wri!Fails(writer)
  BY DEF Wri!WriteOp, Wri!gitVars, Wri!ghostVars
<1>3. mishaps' \in 0..MaxWriterEvents BY <1>0, FaultCounts DEF Wri!WriteOp
<1> HIDE DEF f
<1>4. /\ rollback' \in [Wri!Patches -> [Wri!Paths -> Copies]]
      /\ KindOf[p] # "create" => \A g \in writer.done : rollback'[p][g] = writer.old[g]
      /\ rollback' = Wri!Saved(p, f) /\ KindOf[p] # "create" => rollback'[p][f] = writer.old[f]
      /\ CopiesFit'
      /\ \A c, g : Rooted(c, g) => Rooted(c, g)'
      /\ \A q \in Wri!Patches : ManifestFits(q)'
  BY <1>0, <1>1, <1>2, CopyWrites
<1>5. /\ \A g \in Wri!Paths : Rooted(writer.old[g], g)
      /\ \A g \in Wri!Paths : Rooted(writer.snap[g], g)
  BY <1>0 DEF ReadingsFit
<1>6. /\ writer.old = before[p] /\ \A g \in FilesOf[p] : writer.old[g] = manifest[p].base[g]
      /\ writer.snap \in Trees
      /\ \A g \in FilesOf[p] : writer.snap[g] # Wri!Payload(p) /\ (g \notin touched => writer.snap[g] = writer.old[g])
  BY <1>0 DEF ReadingsFit
<1>7. CASE UNCHANGED disk /\ Wri!Fails(writer)
  <2> DEFINE x == [writer EXCEPT !.pc = "undo", !.left = {}]
  <2>1. /\ x \in Writers /\ x.pc = "undo" /\ x.patch = p /\ x.done = writer.done
        /\ x.old = writer.old /\ x.snap = writer.snap
    BY <1>0 DEF Writers, Wri!PCs
  <2>2. writer' = x BY <1>7 DEF Wri!Fails
  <2> HIDE DEF x, p
  <2>3. Wri!TypeOK' BY <1>2, <1>3, <1>4, <1>7, <2>1, <2>2, PatchFacts, TypesNext
  <2>4. \A g \in Wri!Paths : Rooted(disk[g], g)' BY <1>0, <1>4, <1>7
  <2>5. StageFits' /\ FilesFit' BY <1>0, <1>2, <2>1, <2>2 DEF StageFits, Wri!Committing, FilesFit
  <2>6. \A g \in Wri!Paths : Rooted(writer.old[g], g)' BY <1>4, <1>5, <2>1, <2>2
  <2>7. \A g \in Wri!Paths : Rooted(writer.snap[g], g)' BY <1>4, <1>5, <2>1, <2>2
  <2>8. ReadingsFit' BY <1>2, <1>4, <1>6, <2>1, <2>2, <2>6, <2>7 DEF ReadingsFit
  <2>9. QED BY <1>4, <2>3, <2>4, <2>5, <2>8 DEF PatchInv
<1>8. CASE /\ rollback' = Wri!Saved(p, f) /\ disk' = [disk EXCEPT ![f] = Wri!Target(p)]
           /\ writer' = [writer EXCEPT !.left = writer.left \ {f}, !.done = writer.done \union {f}]
  <2> DEFINE x == [writer EXCEPT !.left = writer.left \ {f}, !.done = writer.done \union {f}]
  <2>1. /\ x \in Writers /\ x.pc = "write" /\ x.patch = p /\ x.left = writer.left \ {f}
        /\ x.done = writer.done \union {f} /\ x.old = writer.old /\ x.snap = writer.snap
    <3>1. writer.left \ {f} \in SUBSET Wri!Paths /\ writer.done \union {f} \in SUBSET Wri!Paths
      BY <1>0, <1>1
    <3>2. QED BY <1>0, <3>1 DEF Writers, Wri!PCs
  <2>2. writer' = x BY <1>8
  <2> HIDE DEF x
  <2>3. Rooted(Wri!Target(p), f) BY <1>0, <1>1, ContentFacts DEF Rooted, Fresh, Settled
  <2>4. /\ disk' \in Trees /\ disk'[f] = Wri!Target(p)
        /\ \A g \in Wri!Paths \ {f} : disk'[g] = disk[g]
        /\ \A g \in Wri!Paths : Rooted(disk[g], g)'
    <3>1. Wri!Target(p) \in Wri!Contents BY <1>0, ContentFacts
    <3>2. QED BY <1>0, <1>1, <1>4, <1>8, <2>3, <3>1, FileWritten
  <2> HIDE DEF p
  <2>5. Wri!TypeOK' BY <1>2, <1>3, <1>4, <2>1, <2>2, <2>4, PatchFacts, TypesNext
  <2>6. StageFits' BY <1>0, <1>1, <1>2, <2>1, <2>2 DEF StageFits
  <2>7. FilesFit'
    <3>1. \A g \in writer.left \ touched : disk[g] = writer.old[g] BY <1>0 DEF FilesFit
    <3>2. \A g \in writer.done \ touched : disk[g] = Wri!Target(p) BY <1>0 DEF FilesFit, p
    <3>3. QED BY <1>0, <1>1, <1>2, <2>1, <2>2, <2>4, <3>1, <3>2 DEF FilesFit
  <2>8. \A g \in Wri!Paths : Rooted(writer.old[g], g)' BY <1>4, <1>5, <2>1, <2>2
  <2>9. \A g \in Wri!Paths : Rooted(writer.snap[g], g)' BY <1>4, <1>5, <2>1, <2>2
  <2>10. ReadingsFit'
    <3>1. KindOf[p] # "create" => \A g \in x.done : rollback'[p][g] = x.old[g] BY <1>4, <1>8, <2>1
    <3>2. QED BY <1>2, <1>6, <2>1, <2>2, <2>8, <2>9, <3>1 DEF ReadingsFit
  <2>11. QED BY <1>4, <2>4, <2>5, <2>6, <2>7, <2>10 DEF PatchInv
<1>9. QED BY <1>2, <1>7, <1>8

\* All files are written: the patch is announced as applied.
LEMMA AppliedMarked == PatchInv /\ Wri!MarkApplied => PatchInv'
<1> SUFFICES ASSUME PatchInv, Wri!MarkApplied PROVE PatchInv'
  OBVIOUS
<1> DEFINE p == writer.patch
<1>0. /\ p \in Wri!Patches /\ FilesOf[p] \subseteq Wri!Paths /\ writer \in Writers
      /\ Wri!TypeOK /\ StageFits /\ ReadingsFit /\ FilesFit /\ writer.pc = "write" /\ writer.left = {}
      /\ manifest[p].status = "applying" /\ writer.done = FilesOf[p]
  BY AtWork DEF Wri!MarkApplied, Wri!At, StageFits
<1>1. /\ UNCHANGED <<disk, tree, index, head, rollback, before, touched>>
      /\ \/ Wri!SetStatus(p, "applied") /\ Wri!Goto("save_result")
         \/ Wri!Fails(writer) /\ UNCHANGED manifest
  BY DEF Wri!MarkApplied, Wri!gitVars, Wri!ghostVars
<1>2. mishaps' \in 0..MaxWriterEvents BY <1>0, FaultCounts DEF Wri!MarkApplied
<1>3. CASE Wri!Fails(writer) /\ UNCHANGED manifest
  <2> DEFINE x == [writer EXCEPT !.pc = "undo", !.left = {}]
  <2>1. /\ x \in Writers /\ x.pc = "undo" /\ x.patch = p /\ x.done = writer.done
        /\ x.old = writer.old /\ x.snap = writer.snap
    BY <1>0 DEF Writers, Wri!PCs
  <2>2. writer' = x BY <1>3 DEF Wri!Fails
  <2> HIDE DEF x
  <2>3. StageFits' /\ FilesFit'
    BY <1>0, <1>1, <1>3, <2>1, <2>2 DEF StageFits, Wri!Committing, FilesFit
  <2>4. \A c, g : Rooted(c, g)' <=> Rooted(c, g) BY <1>1, <1>3, RootsSame
  <2>5. \A g \in Wri!Paths : Rooted(writer.old[g], g)' BY <1>0, <2>1, <2>2, <2>4 DEF ReadingsFit
  <2>6. \A g \in Wri!Paths : Rooted(writer.snap[g], g)' BY <1>0, <2>1, <2>2, <2>4 DEF ReadingsFit
  <2>7. ReadingsFit' BY <1>0, <1>1, <1>3, <2>1, <2>2, <2>5, <2>6 DEF ReadingsFit
  <2>8. QED BY <1>1, <1>2, <1>3, <2>1, <2>2, <2>3, <2>7, PatchFacts, WriterTurns
<1>4. CASE Wri!SetStatus(p, "applied") /\ Wri!Goto("save_result")
  <2>1. writer' \in Writers /\ writer'.pc = "save_result" /\ writer'.patch = p
    BY <1>0, <1>4, WriterGoes DEF Wri!PCs
  <2>2. "applied" \in Wri!Statuses \ {"none", "preview_ok", "preview_failed"} BY DEF Wri!Statuses
  <2>3. manifest'[p].status = "applied" BY <1>0, <1>4, <2>2, StatusWrites
  <2>4. \A f \in FilesOf[p] :
              /\ before[p][f] = manifest[p].base[f]
              /\ KindOf[p] # "create" => rollback[p][f] = before[p][f]
    BY <1>0 DEF ReadingsFit
  <2>5. StageFits' /\ ReadingsFit' /\ FilesFit'
    BY <1>0, <2>1, <2>3 DEF StageFits, ReadingsFit, FilesFit
  <2>6. QED BY <1>0, <1>1, <1>2, <1>4, <2>1, <2>2, <2>4, <2>5, Marks DEF Lasting
<1>5. QED BY <1>1, <1>3, <1>4

\* A written file is taken back: removed, or replaced by its rollback copy.
LEMMA OpUndone ==
    ASSUME PatchInv, Wri!UndoOp
    PROVE  PatchInv'
<1> DEFINE p == writer.patch
           f == Wri!Max(writer.done)
           c == IF KindOf[p] = "create" THEN Wri!Absent ELSE rollback[p][f]
<1>0. /\ p \in Wri!Patches /\ FilesOf[p] \subseteq Wri!Paths /\ writer \in Writers
      /\ Wri!TypeOK /\ StageFits /\ ReadingsFit /\ FilesFit /\ writer.pc = "undo"
      /\ manifest[p].status = "applying" /\ writer.done \subseteq Wri!Paths /\ disk \in Trees
      /\ before[p] \in Trees /\ \A g \in Wri!Paths : Rooted(disk[g], g)
  BY AtWork, PatchFacts DEF Wri!UndoOp, Wri!At, StageFits
<1>1. f \in writer.done /\ f \in Wri!Paths BY <1>0, EndsIn DEF Wri!UndoOp
<1>2. /\ UNCHANGED <<tree, index, head, manifest, rollback, before, touched>>
      /\ \/ /\ disk' = [disk EXCEPT ![f] = c]
            /\ writer' = [writer EXCEPT !.done = writer.done \ {f}]
         \/ /\ UNCHANGED disk
            /\ writer' = [writer EXCEPT !.pc = "mark_failed", !.clean = FALSE]
  BY DEF Wri!UndoOp, Wri!gitVars, Wri!ghostVars
<1>3. mishaps' \in 0..MaxWriterEvents BY <1>0, FaultCounts DEF Wri!UndoOp
<1>4. \A b, g : Rooted(b, g)' <=> Rooted(b, g) BY <1>2, RootsSame
<1>5. CopiesFit' /\ \A q \in Wri!Patches : ManifestFits(q)'
  BY <1>2, PatchFacts DEF CopiesFit, ManifestFits, Fresh
<1>6. c \in Wri!Contents /\ Rooted(c, f)
  <2>1. CASE KindOf[p] = "create" BY <2>1, ContentFacts DEF Rooted
  <2>2. CASE KindOf[p] # "create"
    <3>1. c = writer.old[f] /\ writer.old = before[p] /\ Rooted(writer.old[f], f)
      BY <1>0, <1>1, <2>2 DEF ReadingsFit
    <3>2. before[p][f] \in Wri!Contents BY <1>0, <1>1 DEF Trees
    <3> HIDE DEF c
    <3>3. QED BY <3>1, <3>2
  <2>3. QED BY <2>1, <2>2
<1>7. /\ writer.old = before[p] /\ \A g \in FilesOf[p] : writer.old[g] = manifest[p].base[g]
      /\ writer.snap \in Trees
      /\ \A g \in FilesOf[p] : writer.snap[g] # Wri!Payload(p) /\ (g \notin touched => writer.snap[g] = writer.old[g])
      /\ \A g \in Wri!Paths : Rooted(writer.old[g], g)
      /\ \A g \in Wri!Paths : Rooted(writer.snap[g], g)
      /\ KindOf[p] # "create" => \A g \in writer.done : rollback[p][g] = writer.old[g]
  BY <1>0 DEF ReadingsFit
<1> HIDE DEF f, c
<1>8. CASE /\ disk' = [disk EXCEPT ![f] = c]
           /\ writer' = [writer EXCEPT !.done = writer.done \ {f}]
  <2> DEFINE x == [writer EXCEPT !.done = writer.done \ {f}]
  <2>1. /\ x \in Writers /\ x.pc = "undo" /\ x.patch = p /\ x.done = writer.done \ {f}
        /\ x.old = writer.old /\ x.snap = writer.snap
    <3>1. writer.done \ {f} \in SUBSET Wri!Paths BY <1>0
    <3>2. QED BY <1>0, <3>1 DEF Writers
  <2>2. writer' = x BY <1>8
  <2> HIDE DEF x
  <2>3. disk' \in Trees /\ \A g \in Wri!Paths : Rooted(disk[g], g)'
    BY <1>0, <1>1, <1>4, <1>6, <1>8, FileWritten
  <2>4. Wri!TypeOK' BY <1>2, <1>3, <2>1, <2>2, <2>3, PatchFacts, TypesNext
  <2>5. writer.done \subseteq FilesOf[p] BY <1>0 DEF StageFits
  <2> HIDE DEF p
  <2>6. StageFits' /\ FilesFit' BY <1>0, <1>2, <2>1, <2>2, <2>5 DEF StageFits, FilesFit
  <2>7. \A g \in Wri!Paths : Rooted(writer.old[g], g)' BY <1>4, <1>7, <2>1, <2>2
  <2>8. \A g \in Wri!Paths : Rooted(writer.snap[g], g)' BY <1>4, <1>7, <2>1, <2>2
  <2>9. ReadingsFit' BY <1>2, <1>7, <2>1, <2>2, <2>7, <2>8 DEF ReadingsFit
  <2>10. QED BY <1>5, <2>3, <2>4, <2>6, <2>9 DEF PatchInv
<1>9. CASE /\ UNCHANGED disk
           /\ writer' = [writer EXCEPT !.pc = "mark_failed", !.clean = FALSE]
  <2> DEFINE x == [writer EXCEPT !.pc = "mark_failed", !.clean = FALSE]
  <2>1. /\ x \in Writers /\ x.pc = "mark_failed" /\ x.patch = p /\ x.clean = FALSE
        /\ x.old = writer.old
    BY <1>0 DEF Writers, Wri!PCs
  <2>2. writer' = x BY <1>9
  <2> HIDE DEF x, p
  <2>3. StageFits' /\ ReadingsFit' /\ FilesFit'
    BY <1>0, <1>2, <1>7, <2>1, <2>2 DEF StageFits, Wri!Committing, ReadingsFit, FilesFit
  <2>4. QED BY <1>2, <1>3, <1>9, <2>1, <2>2, <2>3, PatchFacts, WriterTurns
<1>10. QED BY <1>2, <1>8, <1>9

\* A file goes back to what the transaction found, or the failure is noted.
LEMMA FileRestored ==
    ASSUME PatchInv, Wri!RestoreOp
    PROVE  PatchInv'
<1> DEFINE p == writer.patch
           f == Wri!Max(writer.left)
           c == writer.snap[f]
<1>0. /\ p \in Wri!Patches /\ FilesOf[p] \subseteq Wri!Paths /\ writer \in Writers
      /\ Wri!TypeOK /\ StageFits /\ ReadingsFit /\ FilesFit /\ writer.pc = "restore"
      /\ manifest[p].status = "applying" /\ writer.left \subseteq FilesOf[p] /\ disk \in Trees
      /\ \A g \in Wri!Paths : Rooted(disk[g], g)
  BY AtWork, PatchFacts DEF Wri!RestoreOp, Wri!At, StageFits
<1>1. f \in writer.left /\ f \in Wri!Paths /\ f \in FilesOf[p] BY <1>0, EndsIn DEF Wri!RestoreOp
<1>2. /\ UNCHANGED <<tree, index, head, manifest, rollback, before, touched>>
      /\ \/ /\ disk' = [disk EXCEPT ![f] = c]
            /\ writer' = [writer EXCEPT !.left = writer.left \ {f}]
         \/ /\ UNCHANGED disk
            /\ writer' = [writer EXCEPT !.left = writer.left \ {f}, !.clean = FALSE]
  BY DEF Wri!RestoreOp, Wri!gitVars, Wri!ghostVars
<1>3. mishaps' \in 0..MaxWriterEvents BY <1>0, FaultCounts DEF Wri!RestoreOp
<1>4. \A b, g : Rooted(b, g)' <=> Rooted(b, g) BY <1>2, RootsSame
<1>5. CopiesFit' /\ \A q \in Wri!Patches : ManifestFits(q)'
  BY <1>2, PatchFacts DEF CopiesFit, ManifestFits, Fresh
<1>6. /\ writer.old = before[p] /\ \A g \in FilesOf[p] : writer.old[g] = manifest[p].base[g]
      /\ writer.snap \in Trees
      /\ \A g \in FilesOf[p] : writer.snap[g] # Wri!Payload(p) /\ (g \notin touched => writer.snap[g] = writer.old[g])
      /\ \A g \in Wri!Paths : Rooted(writer.snap[g], g)
  BY <1>0 DEF ReadingsFit
<1>7. c \in Wri!Contents /\ Rooted(c, f) /\ c # Wri!Payload(p) /\ (f \notin touched => c = writer.old[f])
  BY <1>0, <1>1, <1>6 DEF Trees
<1>8. writer.clean => \A g \in FilesOf[p] \ writer.left :
         disk[g] # Wri!Payload(p) /\ (g \notin touched => disk[g] = writer.old[g])
  BY <1>0 DEF FilesFit
<1>9. writer.left \ {f} \in SUBSET Wri!Paths BY <1>0
<1> HIDE DEF f, c
<1>10. CASE /\ disk' = [disk EXCEPT ![f] = c]
            /\ writer' = [writer EXCEPT !.left = writer.left \ {f}]
  <2> DEFINE x == [writer EXCEPT !.left = writer.left \ {f}]
  <2>1. /\ x \in Writers /\ x.pc = "restore" /\ x.patch = p /\ x.left = writer.left \ {f}
        /\ x.old = writer.old /\ x.snap = writer.snap /\ x.clean = writer.clean
    BY <1>0, <1>9 DEF Writers
  <2>2. writer' = x BY <1>10
  <2> HIDE DEF x
  <2>3. disk' \in Trees /\ disk'[f] = c /\ (\A g \in Wri!Paths \ {f} : disk'[g] = disk[g])
        /\ \A g \in Wri!Paths : Rooted(disk[g], g)'
    BY <1>0, <1>1, <1>4, <1>7, <1>10, FileWritten
  <2>4. Wri!TypeOK' BY <1>2, <1>3, <2>1, <2>2, <2>3, PatchFacts, TypesNext
  <2> HIDE DEF p
  <2>5. StageFits' BY <1>0, <1>2, <2>1, <2>2 DEF StageFits
  <2>6. \A g \in Wri!Paths : Rooted(writer.snap[g], g)' BY <1>4, <1>6, <2>1, <2>2
  <2>7. ReadingsFit' BY <1>2, <1>6, <2>1, <2>2, <2>6 DEF ReadingsFit
  <2>8. writer.clean => \A g \in FilesOf[p] \ (writer.left \ {f}) :
         disk'[g] # Wri!Payload(p) /\ (g \notin touched => disk'[g] = writer.old[g])
    BY <1>0, <1>7, <1>8, <2>3
  <2>9. FilesFit' BY <1>2, <2>1, <2>2, <2>8 DEF FilesFit
  <2>10. QED BY <1>5, <2>3, <2>4, <2>5, <2>7, <2>9 DEF PatchInv
<1>11. CASE /\ UNCHANGED disk
            /\ writer' = [writer EXCEPT !.left = writer.left \ {f}, !.clean = FALSE]
  <2> DEFINE x == [writer EXCEPT !.left = writer.left \ {f}, !.clean = FALSE]
  <2>1. /\ x \in Writers /\ x.pc = "restore" /\ x.patch = p /\ x.left = writer.left \ {f}
        /\ x.old = writer.old /\ x.snap = writer.snap /\ x.clean = FALSE
    BY <1>0, <1>9 DEF Writers
  <2>2. writer' = x BY <1>11
  <2> HIDE DEF x, p
  <2>3. StageFits' /\ FilesFit' BY <1>0, <1>2, <2>1, <2>2 DEF StageFits, FilesFit
  <2>4. \A g \in Wri!Paths : Rooted(writer.snap[g], g)' BY <1>4, <1>6, <2>1, <2>2
  <2>5. ReadingsFit' BY <1>2, <1>6, <2>1, <2>2, <2>4 DEF ReadingsFit
  <2>6. QED BY <1>2, <1>3, <1>11, <2>1, <2>2, <2>3, <2>5, PatchFacts, WriterTurns
<1>12. QED BY <1>2, <1>10, <1>11

\* The rollback directory of the failed operation goes; no patch that lasts loses a copy.
LEMMA CopiesDropped ==
    ASSUME PatchInv, Wri!RestoreDone
    PROVE  PatchInv'
<1> DEFINE p == writer.patch
<1>0. /\ p \in Wri!Patches /\ FilesOf[p] \subseteq Wri!Paths /\ writer \in Writers
      /\ Wri!TypeOK /\ StageFits /\ ReadingsFit /\ FilesFit /\ writer.pc = "restore"
      /\ manifest[p].status = "applying" /\ writer.left = {} /\ CopiesFit
      /\ (\A q \in Wri!Patches : ManifestFits(q))
      /\ rollback \in [Wri!Patches -> [Wri!Paths -> Copies]]
      /\ \A g \in Wri!Paths : Rooted(disk[g], g)
  BY AtWork, PatchFacts DEF Wri!RestoreDone, Wri!At, StageFits
<1>1. /\ UNCHANGED <<disk, tree, index, head, manifest, before, touched>>
      /\ \/ rollback' = [rollback EXCEPT ![p] = Wri!NoFiles] /\ Wri!Goto("mark_failed")
         \/ /\ UNCHANGED rollback
            /\ writer' = [writer EXCEPT !.pc = "mark_failed", !.clean = FALSE]
  BY DEF Wri!RestoreDone, Wri!gitVars, Wri!ghostVars
<1>2. mishaps' \in 0..MaxWriterEvents BY <1>0, FaultCounts DEF Wri!RestoreDone
<1>3. /\ writer.old = before[p] /\ \A g \in FilesOf[p] : writer.old[g] = manifest[p].base[g]
  BY <1>0 DEF ReadingsFit
<1>4. writer.clean => \A g \in FilesOf[p] :
         disk[g] # Wri!Payload(p) /\ (g \notin touched => disk[g] = writer.old[g])
  BY <1>0 DEF FilesFit
<1>5. CASE rollback' = [rollback EXCEPT ![p] = Wri!NoFiles] /\ Wri!Goto("mark_failed")
  <2>1. /\ writer' \in Writers /\ writer'.pc = "mark_failed" /\ writer'.patch = p
        /\ writer'.old = writer.old /\ writer'.clean = writer.clean
    BY <1>0, <1>5, WriterGoes DEF Wri!PCs
  <2>2. /\ rollback' \in [Wri!Patches -> [Wri!Paths -> Copies]] /\ rollback'[p] = Wri!NoFiles
        /\ \A q \in Wri!Patches \ {p} : rollback'[q] = rollback[q]
    BY <1>0, <1>5, RestTyped
  <2> HIDE DEF p
  <2>3. Wri!TypeOK' BY <1>1, <1>2, <2>1, <2>2, PatchFacts, TypesNext
  <2>4. CopiesFit'
    <3> SUFFICES ASSUME NEW q \in Wri!Patches, NEW g \in Wri!Paths, NEW r \in Wri!Patches,
                        rollback'[q][g] = Wri!Payload(r)
        PROVE  g \in FilesOf[r] /\ ~Fresh(r)
      BY <1>1 DEF CopiesFit, Fresh
    <3>1. q # p BY <2>2, RestTyped, ContentFacts
    <3>2. rollback[q][g] = Wri!Payload(r) BY <2>2, <3>1
    <3>3. QED BY <1>0, <3>2 DEF CopiesFit
  <2>5. \A c, g : Rooted(c, g) => Rooted(c, g)'
    <3>1. \A q \in Wri!Patches : /\ Fresh(q)' <=> Fresh(q)
                                 /\ Settled(q)' <=> Settled(q)
                                 /\ Lasting(q)' <=> Lasting(q)
      BY <1>1 DEF Fresh, Settled, Lasting
    <3>2. \A q \in Wri!Patches : Lasting(q) => rollback'[q] = rollback[q] BY <1>0, <2>2 DEF Lasting
    <3>3. QED BY <3>1, <3>2, RootsStay
  <2>6. \A q \in Wri!Patches : ManifestFits(q)' BY <1>0, <1>1, <2>2 DEF ManifestFits
  <2>7. \A g \in Wri!Paths : Rooted(disk[g], g)' BY <1>0, <1>1, <2>5
  <2>8. StageFits' /\ ReadingsFit' /\ FilesFit'
    BY <1>0, <1>1, <1>3, <1>4, <2>1 DEF StageFits, Wri!Committing, ReadingsFit, FilesFit
  <2>9. QED BY <2>3, <2>4, <2>6, <2>7, <2>8 DEF PatchInv
<1>6. CASE /\ UNCHANGED rollback
           /\ writer' = [writer EXCEPT !.pc = "mark_failed", !.clean = FALSE]
  <2> DEFINE x == [writer EXCEPT !.pc = "mark_failed", !.clean = FALSE]
  <2>1. /\ x \in Writers /\ x.pc = "mark_failed" /\ x.patch = p /\ x.clean = FALSE
        /\ x.old = writer.old
    BY <1>0 DEF Writers, Wri!PCs
  <2>2. writer' = x BY <1>6
  <2> HIDE DEF x, p
  <2>3. StageFits' /\ ReadingsFit' /\ FilesFit'
    BY <1>0, <1>1, <1>3, <2>1, <2>2 DEF StageFits, Wri!Committing, ReadingsFit, FilesFit
  <2>4. QED BY <1>1, <1>2, <1>6, <2>1, <2>2, <2>3, PatchFacts, WriterTurns
<1>7. QED BY <1>1, <1>5, <1>6

\* The failed operation records how its rollback went.
LEMMA FailureMarked ==
    ASSUME PatchInv, Wri!MarkFailed
    PROVE  PatchInv'
<1> DEFINE p == writer.patch
<1>0. /\ p \in Wri!Patches /\ FilesOf[p] \subseteq Wri!Paths /\ FilesFit /\ Wri!TypeOK
      /\ writer.pc = "mark_failed" /\ manifest[p].status = "applying"
  BY AtWork DEF Wri!MarkFailed, Wri!At, StageFits
<1>1. /\ UNCHANGED <<disk, tree, index, head, rollback, before, touched>> /\ writer' = Wri!Idle
      /\ Wri!SetStatus(p, Wri!FailureStatus) \/ UNCHANGED manifest
  BY DEF Wri!MarkFailed, Wri!gitVars, Wri!ghostVars
<1>2. mishaps' \in 0..MaxWriterEvents BY <1>0, FaultCounts DEF Wri!MarkFailed
<1>3. CASE UNCHANGED manifest BY <1>1, <1>2, <1>3, PatchFacts, WriterEnds
<1>4. CASE Wri!SetStatus(p, Wri!FailureStatus)
  <2>1. writer' \in Writers /\ writer'.pc = "idle" BY <1>1, RestTyped
  <2>2. StageFits' /\ ReadingsFit' /\ FilesFit' BY <2>1, Rests
  <2>3. Wri!FailureStatus \in Wri!Statuses \ {"none", "preview_ok", "preview_failed"}
        /\ Wri!FailureStatus \in {"failed", "rollback_failed"}
    BY DEF Wri!FailureStatus, Wri!Statuses
  <2>4. Wri!FailureStatus = "failed" => \A f \in FilesOf[p] : disk[f] # Wri!Payload(p)
    BY <1>0 DEF Wri!FailureStatus, FilesFit
  <2>5. QED BY <1>0, <1>1, <1>2, <1>4, <2>1, <2>2, <2>3, <2>4, Marks DEF Lasting
<1>5. QED BY <1>1, <1>3, <1>4

\* A revert brings a file back; the payload of another patch comes back only where the
\* reverted one keeps it as its rollback copy.
LEMMA FileReverted ==
    ASSUME PatchInv, Wri!RevertOp
    PROVE  PatchInv'
<1> DEFINE p == writer.patch
           f == Wri!Max(writer.left)
           c == Wri!RevertedContent(p, f)
<1>0. /\ p \in Wri!Patches /\ FilesOf[p] \subseteq Wri!Paths /\ writer \in Writers
      /\ Wri!TypeOK /\ StageFits /\ FilesFit /\ writer.pc = "revert" /\ CopiesFit
      /\ ManifestFits(p) /\ manifest[p] \in Manifests /\ before[p] \in Trees
      /\ manifest[p].status = "applied" /\ writer.left \subseteq FilesOf[p] /\ disk \in Trees
      /\ \A g \in Wri!Paths : Rooted(disk[g], g)
  BY AtWork, PatchFacts DEF Wri!RevertOp, Wri!At, StageFits
<1>1. f \in writer.left /\ f \in Wri!Paths /\ f \in FilesOf[p] BY <1>0, EndsIn DEF Wri!RevertOp
<1>2. /\ UNCHANGED <<tree, index, head, manifest, rollback, before, touched>>
      /\ \/ /\ disk' = [disk EXCEPT ![f] = c]
            /\ writer' = [writer EXCEPT !.left = writer.left \ {f}]
         \/ UNCHANGED disk /\ writer' = Wri!Idle
  BY DEF Wri!RevertOp, Wri!gitVars, Wri!ghostVars
<1>3. mishaps' \in 0..MaxWriterEvents BY <1>0, FaultCounts DEF Wri!RevertOp
<1>4. \A b, g : Rooted(b, g)' <=> Rooted(b, g) BY <1>2, RootsSame
<1>5. CopiesFit' /\ \A q \in Wri!Patches : ManifestFits(q)'
  BY <1>2, PatchFacts DEF CopiesFit, ManifestFits, Fresh
<1>6. c = before[p][f] /\ c # Wri!Payload(p) /\ (KindOf[p] # "create" => c = rollback[p][f])
      /\ c \in Wri!Contents
  <2>1. before[p][f] \in Wri!Contents BY <1>0, <1>1 DEF Trees
  <2>2. /\ before[p][f] = manifest[p].base[f] /\ manifest[p].base[f] # Wri!Payload(p)
        /\ KindOf[p] = "create" => manifest[p].base[f] = Wri!Absent
        /\ KindOf[p] # "create" => rollback[p][f] = before[p][f]
    BY <1>0, <1>1 DEF ManifestFits
  <2>3. QED BY <2>1, <2>2 DEF Wri!RevertedContent
<1>7. Rooted(c, f)
  <2> SUFFICES ASSUME NEW q \in Wri!Patches, c = Wri!Payload(q)
      PROVE  /\ f \in FilesOf[q] /\ ~Fresh(q)
             /\ Settled(q) => \E r \in Wri!Patches \ {q} : Lasting(r) /\ rollback[r][f] = c
    BY DEF Rooted
  <2> HIDE DEF c, f
  <2>1. q # p BY <1>6
  <2>2. KindOf[p] # "create"
    <3>1. KindOf[p] = "create" => c = Wri!Absent BY DEF c, Wri!RevertedContent
    <3>2. QED BY <3>1, ContentFacts
  <2>3. rollback[p][f] = c BY <1>6, <2>2
  <2>4. f \in FilesOf[q] /\ ~Fresh(q) BY <1>0, <1>1, <2>3 DEF CopiesFit
  <2>5. Lasting(p) BY <1>0 DEF Lasting
  <2>6. QED BY <1>0, <2>1, <2>3, <2>4, <2>5
<1> HIDE DEF f, c
<1>8. CASE UNCHANGED disk /\ writer' = Wri!Idle BY <1>2, <1>3, <1>8, PatchFacts, WriterEnds
<1>9. CASE /\ disk' = [disk EXCEPT ![f] = c]
           /\ writer' = [writer EXCEPT !.left = writer.left \ {f}]
  <2> DEFINE x == [writer EXCEPT !.left = writer.left \ {f}]
  <2>1. /\ x \in Writers /\ x.pc = "revert" /\ x.patch = p /\ x.left = writer.left \ {f}
    <3>1. writer.left \ {f} \in SUBSET Wri!Paths BY <1>0
    <3>2. QED BY <1>0, <3>1 DEF Writers
  <2>2. writer' = x BY <1>9
  <2> HIDE DEF x
  <2>3. disk' \in Trees /\ disk'[f] = c /\ (\A g \in Wri!Paths \ {f} : disk'[g] = disk[g])
        /\ \A g \in Wri!Paths : Rooted(disk[g], g)'
    BY <1>0, <1>1, <1>4, <1>6, <1>7, <1>9, FileWritten
  <2>4. Wri!TypeOK' BY <1>2, <1>3, <2>1, <2>2, <2>3, PatchFacts, TypesNext
  <2>5. StageFits' /\ ReadingsFit'
    <3> HIDE DEF p
    <3>1. QED BY <1>0, <1>2, <2>1, <2>2 DEF StageFits, ReadingsFit
  <2>6. FilesFit'
    <3>1. /\ \A g \in writer.left \ touched : disk[g] = Wri!Target(p)
          /\ \A g \in FilesOf[p] \ writer.left :
                disk[g] # Wri!Payload(p) /\ (g \notin touched => disk[g] = before[p][g])
      BY <1>0 DEF FilesFit
    <3> HIDE DEF p
    <3>2. /\ \A g \in (writer.left \ {f}) \ touched : disk'[g] = Wri!Target(p)
          /\ \A g \in FilesOf[p] \ (writer.left \ {f}) :
                disk'[g] # Wri!Payload(p) /\ (g \notin touched => disk'[g] = before[p][g])
      BY <1>0, <1>1, <1>6, <2>3, <3>1
    <3>3. QED BY <1>2, <2>1, <2>2, <3>2 DEF FilesFit
  <2>7. QED BY <1>5, <2>3, <2>4, <2>5, <2>6 DEF PatchInv
<1>10. QED BY <1>2, <1>8, <1>9

\* A reverted patch is marked, or its manifest torn by a failing write.
LEMMA RevertMarked ==
    ASSUME PatchInv, Wri!MarkReverted
    PROVE  PatchInv'
<1> DEFINE p == writer.patch
<1>0. /\ p \in Wri!Patches /\ FilesOf[p] \subseteq Wri!Paths /\ FilesFit /\ Wri!TypeOK
      /\ writer.pc = "revert" /\ manifest[p].status = "applied" /\ writer.left = {}
  BY AtWork DEF Wri!MarkReverted, Wri!At, StageFits
<1>1. /\ UNCHANGED <<disk, tree, index, head, rollback, before, touched>>
      /\ \/ Wri!SetStatus(p, "reverted") /\ Wri!Goto("commit")
         \/ Wri!SetStatus(p, "corrupt") /\ writer' = Wri!Idle
  BY DEF Wri!MarkReverted, Wri!gitVars, Wri!ghostVars
<1>2. mishaps' \in 0..MaxWriterEvents BY <1>0, FaultCounts DEF Wri!MarkReverted
<1>3. /\ "corrupt" \in Wri!Statuses \ {"none", "preview_ok", "preview_failed"}
      /\ "reverted" \in Wri!Statuses \ {"none", "preview_ok", "preview_failed"}
  BY DEF Wri!Statuses
<1>4. \A f \in FilesOf[p] : disk[f] # Wri!Payload(p) BY <1>0 DEF FilesFit
<1>5. CASE Wri!SetStatus(p, "corrupt") /\ writer' = Wri!Idle
  <2>1. writer' \in Writers /\ writer'.pc = "idle" BY <1>5, RestTyped
  <2>2. StageFits' /\ ReadingsFit' /\ FilesFit' BY <2>1, Rests
  <2>3. QED BY <1>0, <1>1, <1>2, <1>3, <1>5, <2>1, <2>2, Marks
<1>6. CASE Wri!SetStatus(p, "reverted") /\ Wri!Goto("commit")
  <2>1. writer' \in Writers /\ writer'.pc = "commit" /\ writer'.patch = p
    BY <1>0, <1>6, WriterGoes DEF Wri!PCs
  <2>2. manifest'[p].status = "reverted" BY <1>0, <1>3, <1>6, StatusWrites
  <2>3. StageFits' /\ ReadingsFit' /\ FilesFit'
    BY <1>0, <2>1, <2>2 DEF StageFits, ReadingsFit, FilesFit
  <2>4. QED BY <1>0, <1>1, <1>2, <1>3, <1>4, <1>6, <2>1, <2>3, Marks
<1>7. QED BY <1>1, <1>5, <1>6

\* Every step of the writer keeps the invariant.
LEMMA PatchStep == PatchInv /\ Wri!Next => PatchInv'
<1> SUFFICES ASSUME PatchInv, Wri!Next PROVE PatchInv'
  OBVIOUS
<1>1. ASSUME NEW p \in Wri!Patches,
             Wri!PreviewPatch(p) \/ Wri!PreviewFileCreation(p) \/ Wri!PreviewFileRemoval(p)
      PROVE  PatchInv'
  BY <1>1, Previews
<1>2. ASSUME NEW p \in Wri!Patches, Wri!ApplyCheck(p) PROVE PatchInv' BY <1>2, ApplyStarts
<1>3. ASSUME NEW p \in Wri!Patches, Wri!ApplyReplay(p) \/ Wri!RevertCheck(p) PROVE PatchInv'
  BY <1>3, AppliedTakenUp
<1>4. CASE Wri!ApplySnapshot \/ Wri!SaveResult \/ Wri!UndoDone BY <1>4, QuietSteps
<1>17. CASE \/ Wri!ListChanges \/ Wri!ReadTree \/ Wri!AddFiles \/ Wri!DiffCached
            \/ Wri!CommitTree \/ Wri!SyncIndex
  BY <1>17, GitSteps
<1>5. CASE Wri!MarkApplying  BY <1>5, ApplyingMarked
<1>6. CASE Wri!WriteOp  BY <1>6, OpWritten
<1>7. CASE Wri!MarkApplied  BY <1>7, AppliedMarked
<1>8. CASE Wri!UndoOp  BY <1>8, OpUndone
<1>9. CASE Wri!RestoreOp  BY <1>9, FileRestored
<1>10. CASE Wri!RestoreDone  BY <1>10, CopiesDropped
<1>11. CASE Wri!MarkFailed  BY <1>11, FailureMarked
<1>12. CASE Wri!RevertOp  BY <1>12, FileReverted
<1>13. CASE Wri!MarkReverted  BY <1>13, RevertMarked
<1>14. CASE Wri!Crash  BY <1>14, Crashes
<1>15. CASE \/ Wri!UserCommit \/ \E f \in Wri!Paths : Wri!UserEdit(f)
            \/ \E files \in SUBSET Wri!Paths : Wri!UserStage(files)
  BY <1>15, UserActs
<1>16. QED
  BY <1>1, <1>2, <1>3, <1>4, <1>5, <1>6, <1>7, <1>8, <1>9, <1>10, <1>11, <1>12, <1>13, <1>14,
     <1>15, <1>17 DEF Wri!Next

\* It holds before anything is previewed.
LEMMA PatchStarts == Wri!Init => PatchInv
<1> SUFFICES ASSUME Wri!Init PROVE PatchInv
  OBVIOUS
<1>1. Wri!Start \in Trees /\ \A f \in Wri!Paths : Wri!Start[f] \in {Wri!Absent, Wri!Original}
  <2>1. Wri!Original \in Wri!Contents /\ Wri!Absent \in Wri!Contents
    BY ContentFacts DEF Wri!Original, Wri!Contents
  <2>2. QED BY <2>1 DEF Wri!Start, Trees
<1>2. \A p \in Wri!Patches : \A f \in Wri!Paths : Wri!Start[f] # Wri!Payload(p)
  BY <1>1, ContentFacts
<1> DEFINE m == [status |-> "none", head |-> 0, base |-> Wri!Start]
<1>3. m \in Manifests /\ m.status = "none" /\ m.base = Wri!Start BY <1>1 DEF Manifests, Wri!Statuses
<1>4. /\ disk = Wri!Start /\ tree = Wri!Start /\ index = Wri!Start /\ head = 0
      /\ manifest = [p \in Wri!Patches |-> m]
      /\ rollback = [p \in Wri!Patches |-> Wri!NoFiles] /\ writer = Wri!Idle
      /\ before = [p \in Wri!Patches |-> Wri!Start] /\ touched = {} /\ mishaps = 0
  BY DEF Wri!Init
<1> HIDE DEF m
<1>5. Wri!TypeOK
  <2>1. mishaps \in 0..MaxWriterEvents BY <1>4, ContentFacts
  <2>2. touched \in SUBSET Wri!Paths /\ head \in Nat BY <1>4
  <2>3. disk \in Trees /\ tree \in Trees /\ index \in Trees /\ before \in [Wri!Patches -> Trees]
    BY <1>1, <1>4
  <2>4. manifest \in [Wri!Patches -> Manifests] BY <1>3, <1>4
  <2>5. rollback \in [Wri!Patches -> [Wri!Paths -> Copies]] /\ writer \in Writers BY <1>4, RestTyped
  <2>6. QED BY <2>1, <2>2, <2>3, <2>4, <2>5, PatchTypes
<1>6. \A f \in Wri!Paths : Rooted(disk[f], f) BY <1>2, <1>4 DEF Rooted
<1>7. CopiesFit BY <1>4, RestTyped, ContentFacts DEF CopiesFit
<1>8. \A p \in Wri!Patches : ManifestFits(p) BY <1>3, <1>4 DEF ManifestFits
<1>9. StageFits /\ ReadingsFit /\ FilesFit BY <1>4, RestTyped DEF StageFits, ReadingsFit, FilesFit
<1>10. QED BY <1>5, <1>6, <1>7, <1>8, <1>9 DEF PatchInv

\* Steps of the other components leave the writer alone.
LEMMA PatchRests == PatchInv /\ UNCHANGED writerState => PatchInv'
<1> SUFFICES ASSUME PatchInv, UNCHANGED writerState PROVE PatchInv'
  OBVIOUS
<1>1. UNCHANGED <<disk, tree, index, head, manifest, rollback, writer, before, touched, mishaps>>
  BY DEF writerState
<1>2. StageFits' /\ FilesFit' BY <1>1, PatchFacts DEF StageFits, FilesFit
<1>3. \A c, f : Rooted(c, f)' <=> Rooted(c, f) BY <1>1, RootsSame
<1>4. (\A f \in Wri!Paths : Rooted(writer.old[f], f)) => \A f \in Wri!Paths : Rooted(writer.old[f], f)'
  BY <1>1, <1>3
<1>5. (\A f \in Wri!Paths : Rooted(writer.snap[f], f)) => \A f \in Wri!Paths : Rooted(writer.snap[f], f)'
  BY <1>1, <1>3
<1>6. ReadingsFit' BY <1>1, <1>4, <1>5, PatchFacts DEF ReadingsFit
<1>7. QED BY <1>1, <1>2, <1>6, PatchFacts, WriterTurns

\* It holds in every behaviour of the composition.
LEMMA PatchAlways == Spec => []PatchInv
<1>1. Init => PatchInv BY PatchStarts DEF Init
<1>2. PatchInv /\ [Next]_vars => PatchInv'
  <2>1. [Next]_vars => Wri!Next \/ UNCHANGED writerState BY DEF Next, vars
  <2>2. QED BY <2>1, PatchStep, PatchRests
<1>3. QED BY <1>1, <1>2, PTL DEF Spec

\* While no operation is at work on it, a payload that should be gone is on disk only
\* where another patch keeps it as its rollback copy: no half of a patch is hidden, for
\* any number of files and patches, failing writes, dying processes and user changes
\* (repo_writer.py, apply_previewed_repo_change, revert_managed_patch).
THEOREM PatchesStayWhole == Spec => []PatchesWhole
<1>1. PatchInv => PatchesWhole
  <2> SUFFICES ASSUME PatchInv PROVE PatchesWhole
    OBVIOUS
  <2>1. ASSUME NEW p \in Wri!Patches, NEW f \in Wri!Paths, disk[f] = Wri!Payload(p),
               Wri!Status(p) \in {"none", "preview_ok", "preview_failed", "failed", "reverted"}
        PROVE  \E q \in Wri!Patches \ {p} : rollback[q][f] = Wri!Payload(p)
    <3>1. Settled(p) BY <2>1 DEF Settled, Fresh, Wri!Status
    <3>2. QED BY <2>1, <3>1, PatchFacts DEF Rooted
  <2>2. QED BY <2>1, PatchFacts DEF PatchesWhole, Wri!NothingLeftBehind
<1>2. QED BY <1>1, PatchAlways, PTL

\* Which steps write a status.
LEMMA StatusChanges ==
    ASSUME Wri!Next
    PROVE  \/ UNCHANGED manifest
           \/ \E p \in Wri!Patches, ok \in BOOLEAN : Wri!WritePreviewBundle(p, ok)
           \/ writer.pc = "mark_applying" /\ Wri!SetStatus(writer.patch, "applying")
           \/ writer.pc = "write" /\ writer.left = {} /\ Wri!SetStatus(writer.patch, "applied")
           \/ writer.pc = "mark_failed" /\ Wri!SetStatus(writer.patch, Wri!FailureStatus)
           \/ /\ writer.pc = "revert" /\ writer.left = {}
              /\ Wri!SetStatus(writer.patch, "reverted") \/ Wri!SetStatus(writer.patch, "corrupt")
<1>1. ASSUME NEW p \in Wri!Patches,
             Wri!PreviewPatch(p) \/ Wri!PreviewFileCreation(p) \/ Wri!PreviewFileRemoval(p)
      PROVE  \E ok \in BOOLEAN : Wri!WritePreviewBundle(p, ok)
  BY <1>1 DEF Wri!PreviewPatch, Wri!PreviewFileCreation, Wri!PreviewFileRemoval
<1>2. ASSUME NEW p \in Wri!Patches, Wri!ApplyCheck(p) \/ Wri!ApplyReplay(p) \/ Wri!RevertCheck(p)
      PROVE  UNCHANGED manifest
  BY <1>2 DEF Wri!ApplyCheck, Wri!ApplyReplay, Wri!RevertCheck
<1>3. CASE \/ Wri!ApplySnapshot \/ Wri!WriteOp \/ Wri!SaveResult \/ Wri!UndoOp \/ Wri!UndoDone
           \/ Wri!RestoreOp \/ Wri!RestoreDone \/ Wri!ListChanges \/ Wri!ReadTree \/ Wri!AddFiles
           \/ Wri!DiffCached \/ Wri!CommitTree \/ Wri!SyncIndex \/ Wri!RevertOp
           \/ Wri!Crash \/ Wri!UserCommit
  BY <1>3 DEF Wri!ApplySnapshot, Wri!WriteOp, Wri!SaveResult, Wri!UndoOp, Wri!UndoDone,
     Wri!RestoreOp, Wri!RestoreDone, Wri!ListChanges, Wri!ReadTree, Wri!AddFiles,
     Wri!DiffCached, Wri!CommitTree, Wri!SyncIndex, Wri!RevertOp, Wri!Crash, Wri!UserCommit
<1>4. ASSUME NEW f, Wri!UserEdit(f) \/ Wri!UserStage(f) PROVE UNCHANGED manifest
  BY <1>4 DEF Wri!UserEdit, Wri!UserStage
<1>5. CASE Wri!MarkApplying \/ Wri!MarkApplied \/ Wri!MarkFailed \/ Wri!MarkReverted
  BY <1>5 DEF Wri!MarkApplying, Wri!MarkApplied, Wri!MarkFailed, Wri!MarkReverted, Wri!At
<1>6. QED BY <1>1, <1>2, <1>3, <1>4, <1>5 DEF Wri!Next

\* Which steps write a file while an apply or a revert is at work.
LEMMA DiskChanges ==
    ASSUME Wri!Next, writer.pc \in {"write", "revert"}
    PROVE  \/ UNCHANGED disk
           \/ \E f \in Wri!Paths : Wri!UserEdit(f)
           \/ Wri!WriteOp \/ Wri!RevertOp
<1>1. ASSUME NEW p \in Wri!Patches,
             \/ Wri!PreviewPatch(p) \/ Wri!PreviewFileCreation(p) \/ Wri!PreviewFileRemoval(p)
             \/ Wri!ApplyCheck(p) \/ Wri!ApplyReplay(p) \/ Wri!RevertCheck(p)
      PROVE  UNCHANGED disk
  BY <1>1 DEF Wri!PreviewPatch, Wri!PreviewFileCreation, Wri!PreviewFileRemoval,
     Wri!WritePreviewBundle, Wri!ApplyCheck, Wri!ApplyReplay, Wri!RevertCheck
<1>2. CASE \/ Wri!ApplySnapshot \/ Wri!MarkApplying \/ Wri!MarkApplied \/ Wri!SaveResult
           \/ Wri!UndoDone \/ Wri!RestoreDone \/ Wri!MarkFailed \/ Wri!ListChanges \/ Wri!ReadTree
           \/ Wri!AddFiles \/ Wri!DiffCached \/ Wri!CommitTree \/ Wri!SyncIndex
           \/ Wri!MarkReverted \/ Wri!Crash \/ Wri!UserCommit
  BY <1>2 DEF Wri!ApplySnapshot, Wri!MarkApplying, Wri!MarkApplied, Wri!SaveResult,
     Wri!UndoDone, Wri!RestoreDone, Wri!MarkFailed, Wri!ListChanges, Wri!ReadTree, Wri!AddFiles,
     Wri!DiffCached, Wri!CommitTree, Wri!SyncIndex, Wri!MarkReverted, Wri!Crash, Wri!UserCommit
<1>3. ASSUME NEW f, Wri!UserStage(f) PROVE UNCHANGED disk BY <1>3 DEF Wri!UserStage
<1>4. ~Wri!UndoOp /\ ~Wri!RestoreOp BY DEF Wri!UndoOp, Wri!RestoreOp, Wri!At
<1>5. QED BY <1>1, <1>2, <1>3, <1>4 DEF Wri!Next

\* What a status that is written says is so, and a patch takes effect once.
LEMMA StatusTruthful == PatchInv /\ Wri!Next => Wri!AnnouncedIsOnDisk /\ Wri!TakesEffectOnce
<1> SUFFICES ASSUME PatchInv, Wri!Next PROVE Wri!AnnouncedIsOnDisk /\ Wri!TakesEffectOnce
  OBVIOUS
<1> DEFINE w == writer.patch
<1>0. Wri!TypeOK /\ \A p \in Wri!Patches : FilesOf[p] \subseteq Wri!Paths
  BY PatchFacts, ContentFacts
<1>1. CASE UNCHANGED manifest
  BY <1>1 DEF Wri!AnnouncedIsOnDisk, Wri!TakesEffectOnce, Wri!Becomes, Wri!Status
<1>2. CASE \E p \in Wri!Patches, ok \in BOOLEAN : Wri!WritePreviewBundle(p, ok)
  <2>1. PICK p \in Wri!Patches, ok \in BOOLEAN : Wri!WritePreviewBundle(p, ok) BY <1>2
  <2> DEFINE m == [status |-> IF ok THEN "preview_ok" ELSE "preview_failed",
                   head |-> head, base |-> disk]
  <2>2. /\ manifest[p].status = "none" /\ manifest' = [manifest EXCEPT ![p] = m]
        /\ m.status \in {"preview_ok", "preview_failed"}
    BY <2>1 DEF Wri!WritePreviewBundle, Wri!Status
  <2> HIDE DEF m
  <2>3. manifest'[p] = m /\ \A q \in Wri!Patches \ {p} : manifest'[q] = manifest[q]
    BY <2>2, PatchFacts
  <2>4. \A q \in Wri!Patches : manifest'[q].status = manifest[q].status
           \/ (manifest[q].status = "none" /\ manifest'[q].status \in {"preview_ok", "preview_failed"})
    BY <2>2, <2>3
  <2>5. QED BY <2>4 DEF Wri!AnnouncedIsOnDisk, Wri!TakesEffectOnce, Wri!Becomes, Wri!Status
<1>3. ASSUME NEW s, Wri!SetStatus(w, s),
             \/ writer.pc = "mark_applying" /\ s = "applying"
             \/ writer.pc = "write" /\ writer.left = {} /\ s = "applied"
             \/ writer.pc = "mark_failed" /\ s = Wri!FailureStatus
             \/ writer.pc = "revert" /\ writer.left = {} /\ s \in {"reverted", "corrupt"}
      PROVE  Wri!AnnouncedIsOnDisk /\ Wri!TakesEffectOnce
  <2>1. /\ w \in Wri!Patches /\ FilesOf[w] \subseteq Wri!Paths /\ Wri!TypeOK
        /\ StageFits /\ ReadingsFit /\ FilesFit /\ manifest[w] \in Manifests
    BY <1>3, AtWork
  <2>2. s \in Wri!Statuses BY <1>3 DEF Wri!FailureStatus, Wri!Statuses
  <2>3. manifest'[w].status = s /\ \A q \in Wri!Patches \ {w} : manifest'[q] = manifest[q]
    BY <1>3, <2>1, <2>2, StatusWrites
  <2>4. Wri!TakesEffectOnce
    <3>1. /\ manifest[w].status = "applied" => s \in {"applied", "reverted", "corrupt"}
          /\ manifest[w].status \notin {"reverted", "corrupt"}
      BY <1>3, <2>1 DEF StageFits
    <3>2. QED BY <2>1, <2>3, <3>1 DEF Wri!TakesEffectOnce, Wri!Status
  <2>5. Wri!AnnouncedIsOnDisk
    <3>1. ASSUME NEW f \in FilesOf[w], f \notin touched
          PROVE  /\ s = "applied" => disk[f] = Wri!Target(w)
                 /\ s \in {"failed", "reverted"} => disk[f] = before[w][f]
      <4>1. CASE writer.pc = "write" BY <1>3, <2>1, <3>1, <4>1 DEF StageFits, FilesFit
      <4>2. CASE writer.pc = "mark_failed"
        BY <1>3, <2>1, <3>1, <4>2 DEF ReadingsFit, FilesFit, Wri!FailureStatus
      <4>3. CASE writer.pc = "revert" BY <1>3, <2>1, <3>1, <4>3 DEF FilesFit
      <4>4. QED BY <1>3, <4>1, <4>2, <4>3
    <3>2. QED BY <2>1, <2>3, <3>1 DEF Wri!AnnouncedIsOnDisk, Wri!Becomes, Wri!Status
  <2>6. QED BY <2>4, <2>5
<1>4. QED BY <1>1, <1>2, <1>3, StatusChanges

\* What an apply or a revert replaces is what it has seen.
LEMMA FilesSeen == PatchInv /\ Wri!Next => Wri!SeenBeforeReplaced
<1> SUFFICES ASSUME PatchInv, Wri!Next, NEW f \in Wri!Paths \ touched, disk'[f] # disk[f],
                    writer.pc \in {"write", "revert"}
    PROVE  /\ writer.pc = "write" => disk[f] = manifest[writer.patch].base[f] \/ f \in touched'
           /\ writer.pc = "revert" => disk[f] = Wri!Target(writer.patch) \/ f \in touched'
  BY DEF Wri!SeenBeforeReplaced, Wri!At
<1>0. /\ StageFits /\ ReadingsFit /\ FilesFit /\ disk \in Trees
      /\ writer.left \subseteq FilesOf[writer.patch] /\ writer.left \subseteq Wri!Paths
  BY AtWork, PatchFacts DEF StageFits
<1>1. ASSUME NEW g \in Wri!Paths, Wri!UserEdit(g) PROVE f \in touched'
  BY <1>0, <1>1 DEF Wri!UserEdit, Trees
<1>2. CASE Wri!WriteOp
  <2>1. writer.pc = "write" /\ writer.left # {} /\ f = Wri!Min(writer.left)
    BY <1>0, <1>2 DEF Wri!WriteOp, Wri!At, Trees
  <2>2. f \in writer.left BY <1>0, <2>1, EndsIn
  <2>3. QED BY <1>0, <2>1, <2>2 DEF FilesFit, ReadingsFit
<1>3. CASE Wri!RevertOp
  <2>1. writer.pc = "revert" /\ writer.left # {} /\ f = Wri!Max(writer.left)
    BY <1>0, <1>3 DEF Wri!RevertOp, Wri!At, Trees
  <2>2. f \in writer.left BY <1>0, <2>1, EndsIn
  <2>3. QED BY <1>0, <2>1, <2>2 DEF FilesFit
<1>4. QED BY <1>1, <1>2, <1>3, DiskChanges

\* Of the operation's files those that are not listed are as HEAD has them, and the
\* isolated index holds HEAD as it was read, and the listed files as they are on disk.
CommitFits ==
    /\ writer.pc \in {"read_tree", "add", "diff", "commit_tree"} =>
          \A f \in FilesOf[writer.patch] \ (writer.left \union touched) :
             index[f] = disk[f] /\ tree[f] = disk[f]
    /\ writer.pc \in {"add", "diff", "commit_tree"} =>
          /\ writer.parent <= head
          /\ head = writer.parent => \A f \in Wri!Paths \ writer.left : writer.scratch[f] = tree[f]
          /\ \A f \in FilesOf[writer.patch] \ (writer.left \union touched) :
                writer.scratch[f] = disk[f]
    /\ writer.pc \in {"diff", "commit_tree"} =>
          \A f \in writer.left \ touched : writer.scratch[f] = disk[f]

\* Away from the commit there is nothing to keep.
LEMMA NoCommit ==
    ASSUME writer'.pc \notin {"read_tree", "add", "diff", "commit_tree"}
    PROVE  CommitFits'
BY DEF CommitFits

\* Which steps go on with a commit that is at work.
LEMMA CommitSteps ==
    ASSUME PatchInv, Wri!Next
    PROVE  \/ writer'.pc \notin {"read_tree", "add", "diff", "commit_tree"}
           \/ Wri!ListChanges \/ Wri!ReadTree \/ Wri!AddFiles \/ Wri!DiffCached
           \/ UNCHANGED <<disk, tree, index, head, touched, writer>>
           \/ Wri!UserCommit \/ \E f \in Wri!Paths : Wri!UserEdit(f)
           \/ \E files \in SUBSET Wri!Paths : Wri!UserStage(files)
<1>0. writer \in Writers /\ Wri!TypeOK BY PatchFacts
<1>1. ASSUME NEW p \in Wri!Patches,
             Wri!PreviewPatch(p) \/ Wri!PreviewFileCreation(p) \/ Wri!PreviewFileRemoval(p)
      PROVE  UNCHANGED <<disk, tree, index, head, touched, writer>>
  BY <1>1 DEF Wri!PreviewPatch, Wri!PreviewFileCreation, Wri!PreviewFileRemoval,
     Wri!WritePreviewBundle, Wri!gitVars, Wri!ghostVars
<1>2. ASSUME NEW p \in Wri!Patches, Wri!ApplyCheck(p) \/ Wri!ApplyReplay(p) \/ Wri!RevertCheck(p)
      PROVE  writer'.pc \in {"snapshot", "commit", "revert"}
  BY <1>2, RestTyped DEF Wri!ApplyCheck, Wri!ApplyReplay, Wri!RevertCheck, Writers
<1>3. ASSUME NEW pc \in Wri!PCs, Wri!Goto(pc) PROVE writer'.pc = pc BY <1>0, <1>3, WriterGoes
<1>4. CASE \/ Wri!MarkApplying \/ Wri!MarkApplied \/ Wri!SaveResult \/ Wri!MarkFailed
           \/ Wri!MarkReverted \/ Wri!CommitTree \/ Wri!SyncIndex \/ Wri!Crash
           \/ Wri!RestoreDone
  <2>1. \/ writer' = Wri!Idle
        \/ \E pc \in {"write", "save_result", "commit", "sync", "mark_failed"} : Wri!Goto(pc)
        \/ writer' = [writer EXCEPT !.pc = "undo", !.left = {}]
        \/ writer' = [writer EXCEPT !.pc = "mark_failed", !.clean = FALSE]
    BY <1>4 DEF Wri!MarkApplying, Wri!MarkApplied, Wri!SaveResult, Wri!MarkFailed,
       Wri!MarkReverted, Wri!CommitTree, Wri!SyncIndex, Wri!Crash, Wri!RestoreDone, Wri!Fails
  <2>2. \A pc \in {"write", "save_result", "commit", "sync", "mark_failed"} : pc \in Wri!PCs
    BY DEF Wri!PCs
  <2>3. QED BY <1>0, <1>3, <2>1, <2>2, RestTyped DEF Writers
<1>5. CASE \/ Wri!ApplySnapshot \/ Wri!WriteOp \/ Wri!UndoOp \/ Wri!UndoDone \/ Wri!RestoreOp
           \/ Wri!RevertOp
  <2>1. /\ writer.pc \in {"snapshot", "write", "undo", "restore", "revert"}
        /\ \/ writer' = Wri!Idle
           \/ writer'.pc = writer.pc
           \/ writer'.pc \in {"mark_applying", "undo", "mark_failed", "restore"}
    BY <1>0, <1>5 DEF Wri!ApplySnapshot, Wri!WriteOp, Wri!UndoOp, Wri!UndoDone, Wri!RestoreOp,
       Wri!RevertOp, Wri!Fails, Wri!At, Writers
  <2>2. QED BY <2>1, RestTyped
<1>6. QED BY <1>1, <1>2, <1>4, <1>5 DEF Wri!Next

\* A commit at work keeps to it, whatever the user does meanwhile.
LEMMA CommitKept == PatchInv /\ CommitFits /\ Wri!Next => CommitFits'
<1> SUFFICES ASSUME PatchInv, CommitFits, Wri!Next,
                    writer'.pc \in {"read_tree", "add", "diff", "commit_tree"}
    PROVE  CommitFits'
  BY NoCommit
<1>0. /\ disk \in Trees /\ tree \in Trees /\ index \in Trees /\ head \in Nat /\ writer \in Writers
      /\ StageFits /\ ReadingsFit /\ Wri!TypeOK /\ touched \in SUBSET Wri!Paths
  BY PatchFacts
<1>1. writer.pc \in Wri!Committing =>
         writer.patch \in Wri!Patches /\ FilesOf[writer.patch] \subseteq Wri!Paths
  BY <1>0, ContentFacts DEF StageFits, Wri!Committing
<1>2. CASE Wri!ListChanges
  <2> DEFINE x(paths) == [writer EXCEPT !.pc = "read_tree", !.left = paths]
  <2>1. /\ UNCHANGED <<disk, tree, index, head, touched>> /\ writer.pc = "commit"
        /\ \E R : writer' = x(Wri!StagePaths(writer.patch, R))
    BY <1>2, RestTyped DEF Wri!ListChanges, Wri!At, Wri!gitVars, Wri!ghostVars
  <2>2. PICK R : writer' = x(Wri!StagePaths(writer.patch, R)) BY <2>1
  <2>3. /\ writer'.pc = "read_tree" /\ writer'.patch = writer.patch
        /\ writer'.left = Wri!StagePaths(writer.patch, R)
    BY <1>0, <2>2 DEF Writers
  <2>4. \A f \in FilesOf[writer.patch] \ Wri!StagePaths(writer.patch, R) :
           index[f] = disk[f] /\ tree[f] = disk[f]
    BY DEF Wri!StagePaths
  <2>5. QED BY <2>1, <2>3, <2>4 DEF CommitFits
<1>3. CASE Wri!ReadTree
  <2>1. /\ UNCHANGED <<disk, tree, index, head, touched>> /\ writer.pc = "read_tree"
        /\ writer' = [writer EXCEPT !.pc = "add", !.scratch = tree, !.parent = head]
    BY <1>3, RestTyped DEF Wri!ReadTree, Wri!At, Wri!gitVars, Wri!ghostVars
  <2>2. /\ writer'.pc = "add" /\ writer'.patch = writer.patch /\ writer'.left = writer.left
        /\ writer'.scratch = tree /\ writer'.parent = head
    BY <1>0, <2>1 DEF Writers
  <2>3. QED BY <1>0, <2>1, <2>2 DEF CommitFits
<1>4. CASE Wri!AddFiles
  <2> DEFINE idx == Wri!WithFiles(writer.scratch, writer.left)
  <2>1. /\ UNCHANGED <<disk, tree, index, head, touched>> /\ writer.pc = "add"
        /\ writer' = [writer EXCEPT !.pc = "diff", !.scratch = idx]
    BY <1>0, <1>4, RestTyped DEF Wri!AddFiles, Wri!At, Wri!gitVars, Wri!ghostVars, Writers
  <2>2. /\ \A f \in Wri!Paths \ writer.left : idx[f] = writer.scratch[f]
        /\ \A f \in writer.left : idx[f] = disk[f]
    BY <1>0 DEF Wri!WithFiles, Writers
  <2> HIDE DEF idx
  <2>3. /\ writer'.pc = "diff" /\ writer'.patch = writer.patch /\ writer'.left = writer.left
        /\ writer'.scratch = idx /\ writer'.parent = writer.parent
    BY <1>0, <2>1 DEF Writers
  <2>4. FilesOf[writer.patch] \subseteq Wri!Paths BY <1>1, <2>1 DEF Wri!Committing
  <2>5. QED BY <2>1, <2>2, <2>3, <2>4 DEF CommitFits
<1>5. CASE Wri!DiffCached
  <2>1. /\ UNCHANGED <<disk, tree, index, head, touched>> /\ writer.pc = "diff"
        /\ Wri!Goto("commit_tree")
    BY <1>5, RestTyped DEF Wri!DiffCached, Wri!At, Wri!gitVars, Wri!ghostVars
  <2>2. /\ writer'.pc = "commit_tree" /\ writer'.patch = writer.patch /\ writer'.left = writer.left
        /\ writer'.scratch = writer.scratch /\ writer'.parent = writer.parent
    BY <1>0, <2>1, WriterGoes DEF Wri!PCs
  <2>3. QED BY <2>1, <2>2 DEF CommitFits
<1>6. CASE UNCHANGED <<disk, tree, index, head, touched, writer>> BY <1>6 DEF CommitFits
<1>7. CASE Wri!UserCommit
  <2>1. UNCHANGED <<disk, index, touched, writer>> /\ tree' = index /\ head' = head + 1
    BY <1>7 DEF Wri!UserCommit, Wri!ghostVars
  <2>2. writer.pc \in {"add", "diff", "commit_tree"} => writer.parent <= head' /\ head' # writer.parent
    BY <1>0, <2>1 DEF CommitFits, Writers
  <2>3. QED BY <2>1, <2>2 DEF CommitFits
<1>8. ASSUME NEW g \in Wri!Paths, Wri!UserEdit(g) PROVE CommitFits'
  <2>1. /\ UNCHANGED <<tree, index, head, writer>> /\ touched' = touched \union {g}
        /\ \A f \in Wri!Paths \ {g} : disk'[f] = disk[f]
    BY <1>0, <1>8 DEF Wri!UserEdit, Wri!gitVars, Trees
  <2>2. FilesOf[writer.patch] \subseteq Wri!Paths /\ writer.left \subseteq Wri!Paths
    BY <1>0, <1>1, <2>1 DEF Wri!Committing, Writers
  <2>3. QED BY <2>1, <2>2 DEF CommitFits
<1>9. ASSUME NEW files \in SUBSET Wri!Paths, Wri!UserStage(files) PROVE CommitFits'
  <2>1. /\ UNCHANGED <<disk, tree, head, touched, writer>>
        /\ \A f \in Wri!Paths : index'[f] \in {index[f], disk[f]}
    BY <1>0, <1>9 DEF Wri!UserStage, Wri!WithFiles, Wri!ghostVars, Trees
  <2>2. FilesOf[writer.patch] \subseteq Wri!Paths BY <1>1, <2>1 DEF Wri!Committing
  <2>3. QED BY <2>1, <2>2 DEF CommitFits
<1>10. QED BY <1>2, <1>3, <1>4, <1>5, <1>6, <1>7, <1>8, <1>9, CommitSteps

\* It holds in every behaviour of the composition.
LEMMA CommitAlways == Spec => []CommitFits
<1>1. Init => CommitFits BY RestTyped DEF Init, Wri!Init, CommitFits
<1>2. PatchInv /\ CommitFits /\ [Next]_vars => CommitFits'
  <2>1. [Next]_vars => Wri!Next \/ UNCHANGED writerState BY DEF Next, vars
  <2>2. CommitFits /\ UNCHANGED writerState => CommitFits' BY DEF CommitFits, writerState
  <2>3. QED BY <2>1, <2>2, CommitKept
<1>3. QED BY <1>1, <1>2, PatchAlways, PTL DEF Spec

\* A commit takes the listed files only, unless the user's came in between, and the
\* operation's files are all in it.
LEMMA OwnCommits ==
    PatchInv /\ CommitFits /\ Wri!Next => Wri!CommitsItsFiles /\ Wri!CommitsWhole
<1> SUFFICES ASSUME PatchInv, CommitFits, Wri!Next
    PROVE  Wri!CommitsItsFiles /\ Wri!CommitsWhole
  OBVIOUS
<1>0. /\ disk \in Trees /\ tree \in Trees /\ index \in Trees /\ head \in Nat /\ writer \in Writers
      /\ StageFits /\ ReadingsFit
  BY PatchFacts
<1>1. ASSUME writer.pc \in Wri!Committing, writer' # writer
      PROVE  \/ Wri!ListChanges \/ Wri!ReadTree \/ Wri!AddFiles \/ Wri!DiffCached
             \/ Wri!CommitTree \/ Wri!SyncIndex \/ Wri!Crash
  <2>1. \A p \in Wri!Patches :
           /\ ~Wri!PreviewPatch(p) /\ ~Wri!PreviewFileCreation(p) /\ ~Wri!PreviewFileRemoval(p)
           /\ ~Wri!ApplyCheck(p) /\ ~Wri!ApplyReplay(p) /\ ~Wri!RevertCheck(p)
    BY <1>1 DEF Wri!PreviewPatch, Wri!PreviewFileCreation, Wri!PreviewFileRemoval,
       Wri!WritePreviewBundle, Wri!ApplyCheck, Wri!ApplyReplay, Wri!RevertCheck, Wri!At,
       Wri!Committing
  <2>2. /\ ~Wri!ApplySnapshot /\ ~Wri!MarkApplying /\ ~Wri!WriteOp /\ ~Wri!MarkApplied
        /\ ~Wri!SaveResult /\ ~Wri!UndoOp /\ ~Wri!UndoDone /\ ~Wri!RestoreOp /\ ~Wri!RestoreDone
        /\ ~Wri!MarkFailed /\ ~Wri!RevertOp /\ ~Wri!MarkReverted /\ ~Wri!UserCommit
        /\ \A g : ~Wri!UserEdit(g) /\ ~Wri!UserStage(g)
    BY <1>1 DEF Wri!ApplySnapshot, Wri!MarkApplying, Wri!WriteOp, Wri!MarkApplied, Wri!SaveResult,
       Wri!UndoOp, Wri!UndoDone, Wri!RestoreOp, Wri!RestoreDone, Wri!MarkFailed, Wri!RevertOp,
       Wri!MarkReverted, Wri!UserCommit, Wri!UserEdit, Wri!UserStage, Wri!At, Wri!Committing
  <2>3. QED BY <2>1, <2>2 DEF Wri!Next
<1>2. ASSUME writer.pc = "commit", writer'.pc = "read_tree"
      PROVE  writer'.left \subseteq
               FilesOf[writer.patch] \union Wri!Partners(FilesOf[writer.patch], Wri!Renames)
  <2>1. Wri!ListChanges
    <3>1. writer.pc \in Wri!Committing /\ writer' # writer BY <1>2 DEF Wri!Committing
    <3>2. ~Wri!ReadTree /\ ~Wri!AddFiles /\ ~Wri!DiffCached /\ ~Wri!CommitTree /\ ~Wri!SyncIndex
          /\ ~Wri!Crash
      BY <1>2, RestTyped DEF Wri!ReadTree, Wri!AddFiles, Wri!DiffCached, Wri!CommitTree,
         Wri!SyncIndex, Wri!Crash, Wri!At, Wri!Committing
    <3>3. QED BY <1>1, <3>1, <3>2
  <2>2. PICK R \in Wri!Pairings : writer' = IF Wri!StagePaths(writer.patch, R) = {} THEN Wri!Idle
           ELSE [writer EXCEPT !.pc = "read_tree", !.left = Wri!StagePaths(writer.patch, R)]
    BY <1>2, <2>1, RestTyped DEF Wri!ListChanges
  <2>3. writer'.left = Wri!StagePaths(writer.patch, R) BY <1>0, <1>2, <2>2, RestTyped DEF Writers
  <2>4. R \subseteq Wri!Renames BY DEF Wri!Pairings
  <2>5. QED BY <2>3, <2>4 DEF Wri!StagePaths, Wri!Partners
<1>3. ASSUME writer.pc \in Wri!Committing, writer' # writer, NEW f \in Wri!Paths \ writer.left
      PROVE  (tree'[f] = tree[f] \/ head # writer.parent) /\ index'[f] = index[f]
  <2>1. CASE Wri!ListChanges \/ Wri!ReadTree \/ Wri!AddFiles \/ Wri!DiffCached \/ Wri!Crash
    BY <2>1 DEF Wri!ListChanges, Wri!ReadTree, Wri!AddFiles, Wri!DiffCached, Wri!Crash, Wri!gitVars
  <2>2. CASE Wri!CommitTree BY <1>3, <2>2 DEF Wri!CommitTree, Wri!At, CommitFits
  <2>3. CASE Wri!SyncIndex BY <1>0, <1>3, <2>3 DEF Wri!SyncIndex, Wri!WithFiles, Trees
  <2>4. QED BY <1>1, <1>3, <2>1, <2>2, <2>3
<1>4. Wri!CommitsWhole
  <2> SUFFICES ASSUME writer.pc = "commit_tree", head' # head, writer' # writer,
                      NEW f \in FilesOf[writer.patch] \ touched
      PROVE  tree'[f] = disk[f]
    BY DEF Wri!CommitsWhole, Wri!At
  <2>1. Wri!CommitTree
    <3>1. writer.pc \in Wri!Committing BY DEF Wri!Committing
    <3>2. ~Wri!ListChanges /\ ~Wri!ReadTree /\ ~Wri!AddFiles /\ ~Wri!DiffCached /\ ~Wri!SyncIndex
          /\ ~Wri!Crash
      BY DEF Wri!ListChanges, Wri!ReadTree, Wri!AddFiles, Wri!DiffCached,
         Wri!SyncIndex, Wri!Crash, Wri!At, Wri!gitVars
    <3>3. QED BY <1>1, <3>1, <3>2
  <2>2. tree' = writer.scratch BY <2>1 DEF Wri!CommitTree
  <2>3. QED BY <2>2 DEF CommitFits
<1>5. QED BY <1>2, <1>3, <1>4 DEF Wri!CommitsItsFiles, Wri!At

\* What a patch announces is on disk, what it replaces it has seen, its commit holds its
\* files and takes no others but the other ends of staged renames (a user's commit in
\* between is exempt), and it takes effect once (repo_writer.py, git_tools.py).
THEOREM PatchesStayTruthful == Spec => PatchesTruthful
<1>1. PatchInv /\ CommitFits /\ [Next]_vars =>
        [focus = "writer" => /\ Wri!AnnouncedIsOnDisk /\ Wri!SeenBeforeReplaced
                             /\ Wri!CommitsItsFiles /\ Wri!CommitsWhole
                             /\ Wri!TakesEffectOnce]_writerState
  <2>1. [Next]_vars => Wri!Next \/ UNCHANGED writerState BY DEF Next, vars
  <2>2. QED BY <2>1, StatusTruthful, FilesSeen, OwnCommits
<1>2. QED BY <1>1, PatchAlways, CommitAlways, PTL DEF Spec, PatchesTruthful

=============================================================================
