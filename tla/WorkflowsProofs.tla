-------------------------- MODULE WorkflowsProofs --------------------------
(***************************************************************************)
(* Proofs about Workflows, for any number of steps, any dependencies, any  *)
(* faults and any number of crashes and, except for what a cancellation    *)
(* promises, of cancelling clients.                                        *)
(*                                                                         *)
(* The inductive invariant says of every actor what its control state and  *)
(* the row it read last mean for the rows as they are now.  A row changes  *)
(* only together with its version (Evolves), so a row read earlier is      *)
(* either the row or older than it.                                        *)
(***************************************************************************)
EXTENDS Workflows, WellFoundedInduction, TLAPS

----
(* The inductive invariant. *)

\* Leases and launch attempts are counted together; a terminal row has an
\* outcome; a running one has a recorded worker.
RowOK(row) ==
    /\ row \in Rows
    /\ row.status = "none" => row = NoRow
    /\ row.status # "none" => row.lease \in Leases /\ row.att = row.lease
    /\ row.status \in Terminal <=> row.term # "none"
    /\ row.status = "running" => row.wpid # "none" /\ row.ver > 0

\* A row read earlier is the row, or older.
SnapOK(old, row) ==
    /\ RowOK(old)
    /\ old.ver <= row.ver /\ old.lease <= row.lease
    /\ old.status # "none" /\ old.ver = row.ver => old = row

\* What the control state says of an actor's own record.
StepPCs == {"child", "settle", "update", "skipping", "take", "announce", "note",
            "launch", "launched", "recording", "summary", "summarized"}
LocalPCs == {"replay", "summary", "summarized"}
ReadPCs == {"spawn", "record", "again", "event", "fail", "failing", "request"}
ControlOK(p) ==
    /\ p \in Procs
    /\ p.pc \in {"publish", "begin", "report"} => p.out \in {"exited", "done", "ready", "loop"}
    /\ p.pc \in {"finish", "commit"} => p.out \in Outcome \ {"cancelled"}
    /\ p.pc = "beat" => /\ p.out \in {"replay", "child", "skip", "recover"}
                        /\ p.out = "child" => p.step \in Steps
                        /\ p.out = "replay" => p.step \in Local
    /\ p.pc \in StepPCs => p.step \in Steps
    /\ p.pc \in LocalPCs => p.step \in Local
    /\ p.pc = "launch" => p.step \notin Local
    /\ p.pc \in ReadPCs => p.row.status # "none"
    /\ p.pc \in {"begin", "report"} => p.row.status \in Terminal
    /\ p.pc = "listed" => p.row.status \in {"queued", "running"}

\* A worker of a later lease does not exist yet, and one past its heartbeat has
\* the current lease of a workflow that was claimed.
EngagedPCs == {"replay", "child", "recover", "recovering", "settle", "update",
               "finish", "commit", "skip", "skipping", "next", "take", "announce",
               "note", "launch", "launched", "recording", "summary", "summarized"}
LeaseOK(n, p, row) ==
    /\ p.pc \notin {"idle", "exited"} => n <= row.lease
    /\ p.pc \in EngagedPCs => row.lease = n /\ row.status \notin {"none", "queued"}
    /\ p.pc \in {"publish", "begin", "report"} => p.out \in {"exited", "loop"}

\* What a worker concluded about the steps still holds while it owns them.
ChoosingPCs == {"skip", "next", "skipping", "take"}
PassedAll(st, s) == \A t \in DependsOn[s] : st[t] = "passed"
BlockedNow(st, s) == /\ \A t \in DependsOn[s] : st[t] \in StepEnded
                     /\ \E t \in DependsOn[s] : st[t] # "passed"
ViewOK(n, p, row, st) ==
    /\ p.pc \in ChoosingPCs \/ (p.pc = "beat" /\ p.out = "skip") =>
         (row.lease = n /\ row.status = "running" => \A s \in Steps : st[s] # "running")
    /\ p.pc = "take" /\ p.row.ver = row.ver => PassedAll(st, p.step)
    /\ p.pc = "skipping" /\ p.row.ver = row.ver => BlockedNow(st, p.step)

\* A worker about to launch a child has reserved it, and nobody launched it.
LaunchingPCs == {"announce", "note", "launch"}
ChildOK(p, row, begun, run) ==
    /\ p.pc \in LaunchingPCs /\ p.step \notin Local =>
         /\ begun[p.step].reserved = 1 /\ begun[p.step].launched = 0
         /\ row.status \notin Terminal => row.active = p.step
    /\ p.pc \in {"settle", "update"} => run[p.step] # "active"

ActorOK(a) == ControlOK(proc[a]) /\ SnapOK(proc[a].row, wf)
WorkerOK(n) ==
    /\ LeaseOK(n, proc[n], wf)
    /\ ViewOK(n, proc[n], wf, step)
    /\ ChildOK(proc[n], wf, starts, child)

\* The active child is the running step, and a child run is reserved once.
StepOK(s) ==
    /\ step[s] = "pending" /\ s \notin Local => starts[s].reserved = 0
    /\ starts[s].launched <= starts[s].reserved /\ starts[s].reserved <= 1
    /\ starts[s].launched = 0 => child[s] = "none"
    /\ wf.status \notin Terminal /\ child[s] = "active" => wf.active = s
Ownership(row, st) ==
    row.status \notin Terminal =>
        /\ \A s, t \in Steps : st[s] = "running" /\ st[t] = "running" => s = t
        /\ \A s \in Steps : st[s] = "running" => row.active = IF s \in Local THEN 0 ELSE s
        /\ row.active # 0 => st[row.active] = "running"

IInv ==
    /\ TypeOK
    /\ RowOK(wf)
    /\ \A a \in Actors : ActorOK(a)
    /\ \A n \in Leases : WorkerOK(n)
    /\ \A s \in Steps : StepOK(s)
    /\ Ownership(wf, step)

\* For at most one client: who cancels, and what a cancellation has stopped.
ActiveStopped == wf.active = 0 \/ child[wf.active] \in Outcome
Cancelling == wf.status = "cancellation_pending"
CancellerOK(a) ==
    Cancelling =>
        /\ proc[a].pc = "stopchild" =>
             proc[a].row.status = "cancellation_pending" /\ proc[a].row.active = wf.active
        /\ proc[a].pc = "stopworker" /\ proc[a].out # "retry" => ActiveStopped
        /\ proc[a].pc \in {"confirm", "finalize"} => ActiveStopped
ClientOK(k) ==
    /\ proc[k].pc \notin {"idle", "done"} => proc[Server].pc = "ready"
    /\ Cancelling => proc[k].pc \notin {"idle", "request"}
StoppedOK ==
    wf.term = "cancelled" =>
        /\ \A s \in Steps : child[s] # "active"
        /\ \A n \in Leases : proc[n].pc \in LaunchingPCs => proc[n].step \in Local
CInv ==
    /\ \A a \in Clients \cup {Server} : CancellerOK(a)
    /\ \A k \in Clients : ClientOK(k)
    /\ StoppedOK

----
(* Types. *)

\* The actors are numbered apart.
LEMMA ActorFacts ==
  /\ Leases = {1, 2} /\ Leases \subseteq Actors
  /\ Starter \in Actors /\ Server \in Actors /\ Clients \subseteq Actors
  /\ Starter \notin Leases /\ Server \notin Leases /\ Clients \cap Leases = {}
  /\ Starter # Server /\ Starter \notin Clients /\ Server \notin Clients
  BY BoundsAssumption DEF Leases, MaxLaunchAttempts, Actors, Threads, Starter, Server, Clients

\* The empty row and the idle actor have their types.
LEMMA IdleType == NoRow \in Rows /\ Idle \in Procs
<1>1. NoRow \in Rows BY DEF NoRow, Rows, Statuses, Marks, Leases, MaxLaunchAttempts
<1> QED BY <1>1 DEF Idle, Procs, PCs, Outs

\* A row stays a row when one field takes another value of its type.
LEMMA RowFields ==
  ASSUME NEW row \in Rows
  PROVE  /\ \A x \in Statuses : [row EXCEPT !.status = x] \in Rows
         /\ \A x \in {"none"} \cup Outcome : [row EXCEPT !.term = x] \in Rows
         /\ \A x \in Nat : [row EXCEPT !.ver = x] \in Rows
         /\ \A x \in {0} \cup Leases : [row EXCEPT !.lease = x] \in Rows
         /\ \A x \in 0..MaxLaunchAttempts : [row EXCEPT !.att = x] \in Rows
         /\ \A x \in Marks : [row EXCEPT !.lpid = x] \in Rows
         /\ \A x \in Marks : [row EXCEPT !.wpid = x] \in Rows
         /\ \A x \in {0} \cup Steps : [row EXCEPT !.active = x] \in Rows
         /\ \A x \in {"pending", "publishing", "published", "failed"} :
              [row EXCEPT !.pub = x] \in Rows
<1>1. \A x \in Statuses : [row EXCEPT !.status = x] \in Rows BY DEF Rows
<1>2. \A x \in {"none"} \cup Outcome : [row EXCEPT !.term = x] \in Rows BY DEF Rows
<1>3. \A x \in Nat : [row EXCEPT !.ver = x] \in Rows BY DEF Rows
<1>4. \A x \in {0} \cup Leases : [row EXCEPT !.lease = x] \in Rows BY DEF Rows
<1>5. \A x \in 0..MaxLaunchAttempts : [row EXCEPT !.att = x] \in Rows BY DEF Rows
<1>6. \A x \in Marks : [row EXCEPT !.lpid = x] \in Rows BY DEF Rows
<1>7. \A x \in Marks : [row EXCEPT !.wpid = x] \in Rows BY DEF Rows
<1>8. \A x \in {0} \cup Steps : [row EXCEPT !.active = x] \in Rows BY DEF Rows
<1>9. \A x \in {"pending", "publishing", "published", "failed"} :
       [row EXCEPT !.pub = x] \in Rows BY DEF Rows
<1> QED BY <1>1, <1>2, <1>3, <1>4, <1>5, <1>6, <1>7, <1>8, <1>9

\* An actor's record stays one when one field takes another value of its type.
LEMMA ProcFields ==
  ASSUME NEW p \in Procs
  PROVE  /\ \A x \in PCs : [p EXCEPT !.pc = x] \in Procs
         /\ \A x \in Rows : [p EXCEPT !.row = x] \in Procs
         /\ \A x \in Outs : [p EXCEPT !.out = x] \in Procs
<1>1. \A x \in PCs : [p EXCEPT !.pc = x] \in Procs BY DEF Procs
<1>2. \A x \in Rows : [p EXCEPT !.row = x] \in Procs BY DEF Procs
<1>3. \A x \in Outs : [p EXCEPT !.out = x] \in Procs BY DEF Procs
<1> QED BY <1>1, <1>2, <1>3

\* The literals the operations write have their types.
LEMMA Literals ==
  /\ Terminal \subseteq Statuses /\ Outcome \subseteq Terminal /\ ReadMarks \subseteq Marks
  /\ "queued" \in Statuses /\ "running" \in Statuses /\ "recovery_pending" \in Statuses
  /\ "cancellation_pending" \in Statuses /\ "reported" \in Statuses
  /\ "failed" \in Outcome /\ "cancelled" \in Outcome /\ "completed" \in Outcome
  /\ "none" \in Marks /\ "failed" \in Statuses /\ "cancelled" \in Statuses
  /\ "none" \notin ReadMarks
  BY DEF Terminal, Statuses, Outcome, Marks, ReadMarks

----
(* The operations on the workflow row. *)

\* How a row may change: to a new version, never to an earlier lease, never out of
\* a terminal status; the active child stands while the workflow is open.
Moves(row, new) ==
    /\ RowOK(new)
    /\ new.ver = row.ver + 1 /\ row.lease <= new.lease
    /\ new.status \notin Terminal => row.status \notin Terminal /\ new.active = row.active

\* A change that keeps the lease, and does not claim or queue the workflow.
Advances(row, new) ==
    /\ Moves(row, new)
    /\ new.lease = row.lease
    /\ row.status \notin {"none", "queued"} => new.status \notin {"none", "queued"}
    /\ new.status = "running" => row.status = "running"

\* Every row operation returns a row.
LEMMA RowOpTypes ==
  ASSUME NEW row \in Rows
  PROVE  /\ Bump(row) \in Rows
         /\ \A mark \in Marks : Launched(row, mark) \in Rows /\ ToRunning(row, mark) \in Rows
         /\ ToRecovery(row) \in Rows /\ ToCancelling(row) \in Rows
         /\ \A st \in Outcome : ToTerminal(row, st) \in Rows
         /\ ToFailed(row) \in Rows /\ ToCancelled(row) \in Rows
         /\ \A s \in {0} \cup Steps : [Bump(row) EXCEPT !.active = s] \in Rows
         /\ \A x \in {"publishing", "failed"} : [Bump(row) EXCEPT !.pub = x] \in Rows
         /\ [Bump(row) EXCEPT !.status = "reported", !.pub = "published"] \in Rows
<1>1. row.ver + 1 \in Nat BY DEF Rows
<1>2. Bump(row) \in Rows BY <1>1, RowFields, Zenon DEF Bump
<1>3. \A mark \in Marks : Launched(row, mark) \in Rows BY <1>2, RowFields, Zenon DEF Launched
<1>4. \A mark \in Marks : ToRunning(row, mark) \in Rows
  BY <1>2, RowFields, Literals, Zenon DEF ToRunning
<1>5. ToRecovery(row) \in Rows BY <1>2, RowFields, Literals, Zenon DEF ToRecovery
<1>6. ToCancelling(row) \in Rows BY <1>2, RowFields, Literals, Zenon DEF ToCancelling
<1>7. 0 \in {0} \cup Steps /\ \A st \in Outcome : st \in Statuses /\ st \in {"none"} \cup Outcome
  BY Literals
<1>8. \A st \in Outcome : ToTerminal(row, st) \in Rows
  BY <1>2, <1>7, RowFields, Zenon DEF ToTerminal
<1>9. ToFailed(row) \in Rows BY <1>2, <1>7, RowFields, Literals, Zenon DEF ToFailed
<1>10. ToCancelled(row) \in Rows BY <1>8, RowFields, Literals, Zenon DEF ToCancelled
<1>11. \A s \in {0} \cup Steps : [Bump(row) EXCEPT !.active = s] \in Rows BY <1>2, RowFields, Zenon
<1>12. \A x \in {"publishing", "failed"} : [Bump(row) EXCEPT !.pub = x] \in Rows
  BY <1>2, RowFields, Zenon
<1>13. [Bump(row) EXCEPT !.status = "reported", !.pub = "published"] \in Rows
  BY <1>2, RowFields, Literals, Zenon
<1> QED BY <1>2, <1>3, <1>4, <1>5, <1>6, <1>8, <1>9, <1>10, <1>11, <1>12, <1>13

\* A new version of a row that keeps the lease, the attempts and the active child.
LEMMA NewVersion ==
  ASSUME NEW row \in Rows, NEW new \in Rows, RowOK(row), row.status # "none",
         new.ver = row.ver + 1, new.lease = row.lease, new.att = row.att,
         new.status # "none",
         new.status \notin Terminal => row.status \notin Terminal /\ new.active = row.active,
         new.status \in Terminal <=> new.term # "none",
         new.status = "running" => new.wpid # "none"
  PROVE  Moves(row, new)
  BY DEF RowOK, Moves, Rows

\* Operations that keep the status.
LEMMA SmallOps ==
  ASSUME NEW row \in Rows, RowOK(row), row.status # "none"
  PROVE  /\ Advances(row, Bump(row))
         /\ \A mark \in ReadMarks : Advances(row, Launched(row, mark))
         /\ \A x \in {"publishing", "failed"} : Advances(row, [Bump(row) EXCEPT !.pub = x])
<1>1. Advances(row, Bump(row))
  <2> DEFINE new == Bump(row)
  <2>1. /\ new.ver = row.ver + 1 /\ new.status = row.status /\ new.term = row.term
        /\ new.lease = row.lease /\ new.att = row.att /\ new.wpid = row.wpid
        /\ new.active = row.active
    BY DEF Rows, Bump
  <2> QED BY <2>1, RowOpTypes, NewVersion DEF Advances, RowOK
<1>2. ASSUME NEW mark \in ReadMarks PROVE Advances(row, Launched(row, mark))
  <2> DEFINE new == Launched(row, mark)
  <2>1. /\ new.ver = row.ver + 1 /\ new.status = row.status /\ new.term = row.term
        /\ new.lease = row.lease /\ new.att = row.att /\ new.wpid = row.wpid
        /\ new.active = row.active
    BY DEF Rows, Bump, Launched
  <2> QED BY <2>1, RowOpTypes, NewVersion, Literals DEF Advances, RowOK
<1>3. ASSUME NEW x \in {"publishing", "failed"} PROVE Advances(row, [Bump(row) EXCEPT !.pub = x])
  <2> DEFINE new == [Bump(row) EXCEPT !.pub = x]
  <2>1. /\ new.ver = row.ver + 1 /\ new.status = row.status /\ new.term = row.term
        /\ new.lease = row.lease /\ new.att = row.att /\ new.wpid = row.wpid
        /\ new.active = row.active
    BY DEF Rows, Bump
  <2> QED BY <2>1, RowOpTypes, NewVersion DEF Advances, RowOK
<1> QED BY <1>1, <1>2, <1>3

\* Operations that close the workflow, or take it out of the workers' hands.
LEMMA StatusOps ==
  ASSUME NEW row \in Rows, RowOK(row), row.status # "none"
  PROVE  /\ row.status \notin Terminal =>
              Advances(row, ToRecovery(row)) /\ Advances(row, ToCancelling(row))
         /\ \A st \in Outcome : Advances(row, ToTerminal(row, st))
         /\ Advances(row, ToFailed(row))
         /\ Advances(row, ToCancelled(row))
         /\ row.status \in Terminal =>
              Advances(row, [Bump(row) EXCEPT !.status = "reported", !.pub = "published"])
<1>0. /\ "recovery_pending" \notin Terminal /\ "cancellation_pending" \notin Terminal
      /\ "none" \notin Terminal /\ "queued" \notin Terminal /\ "running" \notin Terminal
      /\ "none" \notin Outcome
  BY DEF Terminal, Outcome
<1>1. ASSUME row.status \notin Terminal PROVE Advances(row, ToRecovery(row))
  <2> DEFINE new == ToRecovery(row)
  <2>1. /\ new.ver = row.ver + 1 /\ new.status = "recovery_pending" /\ new.term = row.term
        /\ new.lease = row.lease /\ new.att = row.att /\ new.active = row.active
    BY DEF Rows, Bump, ToRecovery
  <2> QED BY <1>0, <1>1, <2>1, RowOpTypes, NewVersion DEF Advances, RowOK
<1>2. ASSUME row.status \notin Terminal PROVE Advances(row, ToCancelling(row))
  <2> DEFINE new == ToCancelling(row)
  <2>1. /\ new.ver = row.ver + 1 /\ new.status = "cancellation_pending" /\ new.term = row.term
        /\ new.lease = row.lease /\ new.att = row.att /\ new.active = row.active
    BY DEF Rows, Bump, ToCancelling
  <2> QED BY <1>0, <1>2, <2>1, RowOpTypes, NewVersion DEF Advances, RowOK
<1>3. ASSUME NEW st \in Outcome PROVE Advances(row, ToTerminal(row, st))
  <2> DEFINE new == ToTerminal(row, st)
  <2>1. /\ new.ver = row.ver + 1 /\ new.status = st /\ new.term = st
        /\ new.lease = row.lease /\ new.att = row.att
    BY DEF Rows, Bump, ToTerminal
  <2>2. st \in Terminal BY Literals
  <2> QED BY <1>0, <2>1, <2>2, RowOpTypes, NewVersion DEF Advances
<1>4. Advances(row, ToFailed(row))
  <2> DEFINE new == ToFailed(row)
  <2>1. /\ new.ver = row.ver + 1 /\ new.status = "failed" /\ new.term = "failed"
        /\ new.lease = row.lease /\ new.att = row.att
    BY DEF Rows, Bump, ToFailed
  <2>2. "failed" \in Terminal BY Literals
  <2> QED BY <1>0, <2>1, <2>2, RowOpTypes, NewVersion DEF Advances
<1>5. Advances(row, ToCancelled(row))
  <2> DEFINE new == ToCancelled(row)
  <2>1. /\ new.ver = row.ver + 1 /\ new.status = "cancelled" /\ new.term = "cancelled"
        /\ new.lease = row.lease /\ new.att = row.att
    BY DEF Rows, Bump, ToTerminal, ToCancelled
  <2>2. "cancelled" \in Terminal BY Literals
  <2> QED BY <1>0, <2>1, <2>2, RowOpTypes, NewVersion DEF Advances
<1>6. ASSUME row.status \in Terminal
      PROVE  Advances(row, [Bump(row) EXCEPT !.status = "reported", !.pub = "published"])
  <2> DEFINE new == [Bump(row) EXCEPT !.status = "reported", !.pub = "published"]
  <2>1. /\ new.ver = row.ver + 1 /\ new.status = "reported" /\ new.term = row.term
        /\ new.lease = row.lease /\ new.att = row.att
    BY DEF Rows, Bump
  <2>2. "reported" \in Terminal BY DEF Terminal
  <2> QED BY <1>0, <1>6, <2>1, <2>2, RowOpTypes, NewVersion DEF Advances, RowOK
<1> QED BY <1>1, <1>2, <1>3, <1>4, <1>5, <1>6

\* Claiming a queued workflow, relaunching it, and the operations on the active child.
LEMMA LeaseOps ==
  ASSUME NEW row \in Rows, RowOK(row), row.status # "none", row.status \notin Terminal
  PROVE  /\ \A mark \in ReadMarks :
              LET new == ToRunning(row, mark)
              IN  Moves(row, new) /\ new.lease = row.lease /\ new.status = "running"
         /\ row.att < MaxLaunchAttempts =>
              LET new == Reserved(row)
              IN  Moves(row, new) /\ new.lease = row.lease + 1 /\ new.status = "queued"
         /\ \A s \in {0} \cup Steps :
              LET new == [Bump(row) EXCEPT !.active = s]
              IN  /\ new \in Rows /\ RowOK(new) /\ new.ver = row.ver + 1 /\ new.active = s
                  /\ new.lease = row.lease /\ new.status = row.status /\ new.term = row.term
<1>1. ASSUME NEW mark \in ReadMarks
      PROVE  LET new == ToRunning(row, mark)
             IN  Moves(row, new) /\ new.lease = row.lease /\ new.status = "running"
  <2> DEFINE new == ToRunning(row, mark)
  <2>1. /\ new.ver = row.ver + 1 /\ new.status = "running" /\ new.term = row.term
        /\ new.lease = row.lease /\ new.att = row.att /\ new.wpid = mark
        /\ new.active = row.active
    BY DEF Rows, Bump, ToRunning
  <2>2. mark # "none" /\ mark \in Marks BY Literals
  <2>3. "running" \notin Terminal BY DEF Terminal, Outcome
  <2> QED BY <2>1, <2>2, <2>3, RowOpTypes, NewVersion DEF RowOK
<1>2. ASSUME row.att < MaxLaunchAttempts
      PROVE  LET new == Reserved(row)
             IN  Moves(row, new) /\ new.lease = row.lease + 1 /\ new.status = "queued"
  <2> DEFINE new == Reserved(row)
  <2>1. /\ new.ver = row.ver + 1 /\ new.status = "queued" /\ new.term = row.term
        /\ new.lease = row.lease + 1 /\ new.att = row.att + 1 /\ new.active = row.active
    BY DEF Rows, Bump, Reserved
  <2>2. /\ row.lease \in Leases /\ row.att = row.lease /\ row.ver \in Nat
        /\ row.lease + 1 \in Leases /\ row.att + 1 \in 0..MaxLaunchAttempts
    BY <1>2 DEF RowOK, Rows, Leases, MaxLaunchAttempts
  <2>3. new \in Rows
    <3>1. row.lease + 1 \in {0} \cup Leases BY <2>2
    <3>2. [Bump(row) EXCEPT !.status = "queued"] \in Rows BY RowOpTypes, RowFields, Literals, Zenon
    <3> DEFINE r1 == [Bump(row) EXCEPT !.status = "queued"]
               r2 == [r1 EXCEPT !.lease = row.lease + 1]
               r3 == [r2 EXCEPT !.att = row.att + 1]
               r4 == [r3 EXCEPT !.lpid = "none"]
               r5 == [r4 EXCEPT !.wpid = "none"]
    <3>3. r2 \in Rows BY <3>1, <3>2, RowFields, Zenon
    <3>4. r3 \in Rows BY <2>2, <3>3, RowFields, Zenon
    <3>5. r4 \in Rows BY <3>4, RowFields, Literals, Zenon
    <3>6. r5 \in Rows BY <3>5, RowFields, Literals, Zenon
    <3>7. new = r5 BY DEF Reserved, Bump, Rows
    <3> QED BY <3>6, <3>7
  <2>4. "queued" \notin Terminal BY DEF Terminal, Outcome
  <2>5. row.lease \in Nat BY <2>2 DEF Leases, MaxLaunchAttempts
  <2> QED BY <2>1, <2>2, <2>3, <2>4, <2>5 DEF Moves, RowOK
<1>3. ASSUME NEW s \in {0} \cup Steps
      PROVE  LET new == [Bump(row) EXCEPT !.active = s]
             IN  /\ new \in Rows /\ RowOK(new) /\ new.ver = row.ver + 1 /\ new.active = s
                 /\ new.lease = row.lease /\ new.status = row.status /\ new.term = row.term
  <2> DEFINE new == [Bump(row) EXCEPT !.active = s]
  <2>1. /\ new.ver = row.ver + 1 /\ new.status = row.status /\ new.term = row.term
        /\ new.lease = row.lease /\ new.att = row.att /\ new.wpid = row.wpid /\ new.active = s
    BY DEF Rows, Bump
  <2>2. new \in Rows BY RowOpTypes
  <2>3. row.ver \in Nat BY DEF Rows
  <2> QED BY <2>1, <2>2, <2>3 DEF RowOK
<1> QED BY <1>1, <1>2, <1>3

----
(* How an actor moves, and what carries over to the others. *)

\* Only actor a moves; its record then has these fields.
MovedTo(a, pc, row, s, out) ==
    /\ proc' \in [Actors -> Procs]
    /\ \A b \in Actors : b # a => proc'[b] = proc[b]
    /\ proc'[a].pc = pc /\ proc'[a].row = row /\ proc'[a].step = s /\ proc'[a].out = out

\* An idle record at another control state.
LEMMA IdleAt ==
  ASSUME NEW pc \in PCs, NEW out \in Outs
  PROVE  /\ [Idle EXCEPT !.pc = pc] \in Procs
         /\ [Idle EXCEPT !.pc = pc].pc = pc /\ [Idle EXCEPT !.pc = pc].row = NoRow
         /\ [Idle EXCEPT !.pc = pc].step = 0 /\ [Idle EXCEPT !.pc = pc].out = "none"
         /\ [Idle EXCEPT !.pc = pc, !.out = out] \in Procs
         /\ [Idle EXCEPT !.pc = pc, !.out = out].pc = pc
         /\ [Idle EXCEPT !.pc = pc, !.out = out].row = NoRow
         /\ [Idle EXCEPT !.pc = pc, !.out = out].step = 0
         /\ [Idle EXCEPT !.pc = pc, !.out = out].out = out
<1>1. [Idle EXCEPT !.pc = pc] \in Procs BY IdleType, ProcFields, Zenon
<1>2. [Idle EXCEPT !.pc = pc, !.out = out] \in Procs BY <1>1, ProcFields, Zenon
<1> QED BY <1>1, <1>2 DEF Idle

\* Every way an actor moves.
LEMMA GotoMoves ==
  ASSUME proc \in [Actors -> Procs], NEW a \in Actors, NEW pc \in PCs, Goto(a, pc)
  PROVE  MovedTo(a, pc, proc[a].row, proc[a].step, proc[a].out)
<1>1. proc' = [proc EXCEPT ![a] = [proc[a] EXCEPT !.pc = pc]] BY DEF Goto
<1>2. [proc[a] EXCEPT !.pc = pc] \in Procs BY ProcFields
<1> QED BY <1>1, <1>2 DEF MovedTo, Procs

\* An actor that goes on with a row it has read.
LEMMA GotoRowMoves ==
  ASSUME proc \in [Actors -> Procs], NEW a \in Actors, NEW pc \in PCs, NEW row \in Rows,
         GotoRow(a, pc, row)
  PROVE  MovedTo(a, pc, row, proc[a].step, proc[a].out)
<1>1. proc' = [proc EXCEPT ![a] = [proc[a] EXCEPT !.pc = pc, !.row = row]] BY DEF GotoRow
<1>2. [proc[a] EXCEPT !.pc = pc, !.row = row] \in Procs BY ProcFields, Zenon
<1> QED BY <1>1, <1>2 DEF MovedTo, Procs

\* An actor that goes on with a result.
LEMMA GotoOutMoves ==
  ASSUME proc \in [Actors -> Procs], NEW a \in Actors, NEW pc \in PCs, NEW out \in Outs,
         proc' = [proc EXCEPT ![a].pc = pc, ![a].out = out]
  PROVE  MovedTo(a, pc, proc[a].row, proc[a].step, out)
<1>1. proc' = [proc EXCEPT ![a] = [proc[a] EXCEPT !.pc = pc, !.out = out]]
  OBVIOUS
<1>2. [proc[a] EXCEPT !.pc = pc, !.out = out] \in Procs BY ProcFields, Zenon
<1> QED BY <1>1, <1>2 DEF MovedTo, Procs

\* A worker that goes on with a step and the row as it is.
LEMMA GotoStepMoves ==
  ASSUME proc \in [Actors -> Procs], wf \in Rows, NEW a \in Actors, NEW pc \in PCs,
         NEW s \in {0} \cup Steps, NEW out \in Outs, GotoStep(a, pc, s, out)
  PROVE  MovedTo(a, pc, wf, s, out)
  BY DEF GotoStep, MovedTo, Procs

\* An actor that forgets what it read.
LEMMA IdleMoves ==
  ASSUME proc \in [Actors -> Procs], NEW a \in Actors, NEW pc \in PCs,
         proc' = [proc EXCEPT ![a] = [Idle EXCEPT !.pc = pc]]
  PROVE  MovedTo(a, pc, NoRow, 0, "none")
<1> DEFINE q == [Idle EXCEPT !.pc = pc]
<1>1. q \in Procs /\ q.pc = pc /\ q.row = NoRow /\ q.step = 0 /\ q.out = "none" BY IdleAt DEF Outs
<1> HIDE DEF q
<1>2. proc' = [proc EXCEPT ![a] = q] BY DEF q
<1> QED BY <1>1, <1>2 DEF MovedTo

\* An actor that forgets what it read but for a result.
LEMMA IdleOutMoves ==
  ASSUME proc \in [Actors -> Procs], NEW a \in Actors, NEW pc \in PCs, NEW out \in Outs,
         proc' = [proc EXCEPT ![a] = [Idle EXCEPT !.pc = pc, !.out = out]]
  PROVE  MovedTo(a, pc, NoRow, 0, out)
<1> DEFINE q == [Idle EXCEPT !.pc = pc, !.out = out]
<1>1. q \in Procs /\ q.pc = pc /\ q.row = NoRow /\ q.step = 0 /\ q.out = out BY IdleAt
<1> HIDE DEF q
<1>2. proc' = [proc EXCEPT ![a] = q] BY DEF q
<1> QED BY <1>1, <1>2 DEF MovedTo

\* The named ways to end, to loop, to publish and to go back.
LEMMA NamedMovements ==
  ASSUME proc \in [Actors -> Procs], NEW a \in Actors
  PROVE  /\ End(a) => MovedTo(a, Rest(a), NoRow, 0, "none")
         /\ Loop(a) => MovedTo(a, "loop", NoRow, 0, "none")
         /\ \A back \in Outs : Publish(a, back) => MovedTo(a, "publish", NoRow, 0, back)
         /\ proc[a].out \in PCs /\ Back(a) => MovedTo(a, proc[a].out, NoRow, 0, "none")
<1>1. Rest(a) \in PCs /\ "loop" \in PCs /\ "publish" \in PCs BY DEF Rest, PCs
<1>2. ASSUME End(a) PROVE MovedTo(a, Rest(a), NoRow, 0, "none")
  BY <1>1, <1>2, IdleMoves DEF End, Finished
<1>3. ASSUME Loop(a) PROVE MovedTo(a, "loop", NoRow, 0, "none") BY <1>1, <1>3, IdleMoves DEF Loop
<1>4. ASSUME NEW back \in Outs, Publish(a, back) PROVE MovedTo(a, "publish", NoRow, 0, back)
  BY <1>1, <1>4, IdleOutMoves DEF Publish
<1>5. ASSUME proc[a].out \in PCs, Back(a) PROVE MovedTo(a, proc[a].out, NoRow, 0, "none")
  BY <1>5, IdleMoves DEF Back
<1> QED BY <1>2, <1>3, <1>4, <1>5

\* A row read now, or never, is a good snapshot; it stays one when the row moves.
LEMMA Snaps ==
  ASSUME NEW row \in Rows, RowOK(row)
  PROVE  /\ SnapOK(row, row) /\ SnapOK(NoRow, row)
         /\ \A old, new \in Rows : SnapOK(old, row) /\ Moves(row, new) => SnapOK(old, new)
<1>1. SnapOK(row, row) BY DEF SnapOK, Rows, Leases, MaxLaunchAttempts
<1>2. SnapOK(NoRow, row)
  <2>1. NoRow.status = "none" /\ NoRow.term = "none" /\ NoRow.ver = 0 /\ NoRow.lease = 0
    BY DEF NoRow
  <2>2. row.ver \in Nat /\ row.lease \in Nat BY DEF Rows, Leases, MaxLaunchAttempts
  <2> QED BY <2>1, <2>2, IdleType DEF SnapOK, RowOK, Terminal, Outcome
<1>3. ASSUME NEW old \in Rows, NEW new \in Rows, SnapOK(old, row), Moves(row, new)
      PROVE  SnapOK(old, new)
  <2>1. /\ old.ver \in Nat /\ row.ver \in Nat /\ old.lease \in Nat /\ row.lease \in Nat
        /\ new.lease \in Nat
    BY DEF Rows, Leases, MaxLaunchAttempts
  <2> QED BY <1>3, <2>1 DEF SnapOK, Moves
<1> QED BY <1>1, <1>2, <1>3

\* Control states that say nothing of the record.
FreePCs == {"idle", "done", "boot", "claim", "loop", "exited", "recover", "recovering",
            "skip", "next", "stopchild", "stopworker", "retry", "confirm", "finalize",
            "down", "ready"}
\* Such a control state meets ControlOK.
LEMMA FreeControl ==
  ASSUME NEW p \in Procs, p.pc \in FreePCs
  PROVE  ControlOK(p)
  BY DEF FreePCs, ControlOK, StepPCs, LocalPCs, ReadPCs

\* What is said of the workers, of one that is not engaged.
LEMMA Disengaged ==
  ASSUME NEW n \in Leases, NEW p \in Procs, NEW row \in Rows, NEW st, NEW begun, NEW run,
         p.pc \notin EngagedPCs, p.pc # "beat",
         p.pc \in {"idle", "exited"} \/ n <= row.lease,
         p.pc \in {"publish", "begin", "report"} => p.out \in {"exited", "loop"}
  PROVE  LeaseOK(n, p, row) /\ ViewOK(n, p, row, st) /\ ChildOK(p, row, begun, run)
  BY DEF EngagedPCs, LeaseOK, ViewOK, ChildOK, ChoosingPCs, LaunchingPCs

\* What holds of one actor.
Good(a) == ActorOK(a) /\ (a \in Leases => WorkerOK(a))

\* A worker that ends has exited.
LEMMA Ends ==
  ASSUME NEW n \in Leases PROVE Rest(n) = "exited"
  BY DEF Rest

\* A step that leaves every row and every child run as it is.
LEMMA ProcOnly ==
  ASSUME IInv, UNCHANGED <<wf, step, child, starts>>, proc' \in [Actors -> Procs],
         beaten' \in BOOLEAN, crashes' \in 0..MaxCrashes,
         \A a \in Actors : proc'[a] = proc[a] \/ Good(a)'
  PROVE  IInv'
<1>1. TypeOK' /\ RowOK(wf)' /\ Ownership(wf, step)' BY DEF IInv, TypeOK
<1>2. \A s \in Steps : StepOK(s)' BY DEF IInv, StepOK
<1>3. ASSUME NEW a \in Actors PROVE ActorOK(a)' BY DEF IInv, ActorOK, Good
<1>4. ASSUME NEW n \in Leases PROVE WorkerOK(n)' BY ActorFacts DEF IInv, WorkerOK, Good
<1> QED BY <1>1, <1>2, <1>3, <1>4 DEF IInv

\* A step that moves the row.  A worker that stays where it is was not engaged, or
\* finds the lease and the claim as they were.
KeptWorker(n) ==
    /\ proc[n].pc \in EngagedPCs =>
         wf'.lease = wf.lease /\ wf'.status \notin {"none", "queued"}
    /\ wf'.status = "running" /\ wf'.lease = n => wf.status = "running" /\ wf.lease = n
\* The invariant is kept by a step that moves the row.
LEMMA RowMoves ==
  ASSUME IInv, UNCHANGED <<step, child, starts>>, proc' \in [Actors -> Procs],
         wf' \in Rows, Moves(wf, wf'), beaten' \in BOOLEAN, crashes' \in 0..MaxCrashes,
         \A a \in Actors : proc'[a] = proc[a] \/ Good(a)',
         \A n \in Leases : proc'[n] = proc[n] => KeptWorker(n)
  PROVE  IInv'
<1>1. TypeOK' /\ RowOK(wf)' BY DEF IInv, TypeOK, Moves
<1>2. Ownership(wf, step)' BY DEF IInv, Ownership, Moves
<1>3. \A s \in Steps : StepOK(s)' BY DEF IInv, StepOK, Moves
<1>4. ASSUME NEW a \in Actors PROVE ActorOK(a)'
  <2>1. CASE proc'[a] = proc[a]
    <3>1. proc[a].row \in Rows /\ wf \in Rows BY DEF IInv, TypeOK, Procs
    <3>2. SnapOK(proc[a].row, wf') BY <3>1, Snaps DEF IInv, ActorOK
    <3> QED BY <2>1, <3>2 DEF IInv, ActorOK
  <2> QED BY <2>1 DEF Good
<1>5. ASSUME NEW n \in Leases PROVE WorkerOK(n)'
  <2>1. CASE proc'[n] = proc[n]
    <3> DEFINE p == proc[n]
    <3>1. /\ p.row.ver \in Nat /\ wf.ver \in Nat /\ wf.lease \in Nat /\ wf'.lease \in Nat
          /\ n \in Nat /\ p \in Procs
      BY ActorFacts DEF IInv, TypeOK, Procs, Rows, Leases, MaxLaunchAttempts
    <3>2. wf'.ver = wf.ver + 1 /\ wf.lease <= wf'.lease BY DEF Moves
    <3>3. WorkerOK(n) /\ ActorOK(n) BY ActorFacts DEF IInv
    <3>4. p.row.ver # wf'.ver BY <3>1, <3>2, <3>3 DEF ActorOK, SnapOK
    <3>5. KeptWorker(n) BY <2>1
    <3>6. LeaseOK(n, p, wf') BY <3>1, <3>2, <3>3, <3>5 DEF WorkerOK, LeaseOK, KeptWorker
    <3>7. ViewOK(n, p, wf', step) BY <3>3, <3>4, <3>5 DEF WorkerOK, ViewOK, KeptWorker
    <3>8. ChildOK(p, wf', starts, child) BY <3>3 DEF WorkerOK, ChildOK, Moves
    <3> QED BY <2>1, <3>6, <3>7, <3>8 DEF WorkerOK
  <2> QED BY <2>1, ActorFacts DEF Good
<1> QED BY <1>1, <1>2, <1>3, <1>4, <1>5 DEF IInv

\* The same for a change that keeps the lease and does not claim or queue.
LEMMA RowAdvances ==
  ASSUME IInv, UNCHANGED <<step, child, starts, beaten, crashes>>,
         proc' \in [Actors -> Procs], wf' = wf \/ Advances(wf, wf'),
         \A a \in Actors : proc'[a] = proc[a] \/ Good(a)'
  PROVE  IInv'
<1>1. beaten' \in BOOLEAN /\ crashes' \in 0..MaxCrashes BY DEF IInv, TypeOK
<1>2. CASE wf' = wf BY <1>1, <1>2, ProcOnly
<1>3. CASE Advances(wf, wf')
  <2>1. Moves(wf, wf') /\ wf' \in Rows BY <1>3 DEF Advances, Moves, RowOK
  <2>2. \A n \in Leases : KeptWorker(n)
    BY <1>3, ActorFacts DEF IInv, WorkerOK, LeaseOK, KeptWorker, Advances
  <2> QED BY <1>1, <2>1, <2>2, RowMoves
<1> QED BY <1>2, <1>3

\* One actor moves, while the row stays or advances.
LEMMA OneActor ==
  ASSUME IInv, UNCHANGED <<step, child, starts, beaten, crashes>>,
         wf' = wf \/ Advances(wf, wf'), NEW a \in Actors, NEW pc, NEW row, NEW s, NEW out,
         MovedTo(a, pc, row, s, out),
         ControlOK(proc'[a]), SnapOK(row, wf'),
         a \in Leases => /\ LeaseOK(a, proc'[a], wf')
                         /\ ViewOK(a, proc'[a], wf', step)
                         /\ ChildOK(proc'[a], wf', starts, child)
  PROVE  IInv'
<1>1. proc' \in [Actors -> Procs] /\ \A b \in Actors : b # a => proc'[b] = proc[b] BY DEF MovedTo
<1>2. Good(a)' BY DEF Good, ActorOK, WorkerOK, MovedTo
<1> QED BY <1>1, <1>2, RowAdvances

\* An actor that forgets what it read and is not engaged: it ended, loops, or begins
\* to publish.
RestPCs == {"idle", "done", "exited", "ready", "down"}
\* The invariant is kept by an actor that rests, loops, boots or begins to publish.
LEMMA OneRests ==
  ASSUME IInv, UNCHANGED <<step, child, starts, beaten, crashes>>,
         wf' = wf \/ Advances(wf, wf'), NEW a \in Actors, NEW pc, NEW out,
         MovedTo(a, pc, NoRow, 0, out),
         \/ pc \in RestPCs /\ (a \in Leases => pc = "exited")
         \/ pc \in {"loop", "boot"} /\ (a \in Leases => proc[a].pc \notin {"idle", "exited"})
         \/ /\ pc = "publish" /\ out \in {"exited", "done", "ready", "loop"}
            /\ a \in Leases => /\ proc[a].pc \notin {"idle", "exited"}
                               /\ out \in {"exited", "loop"}
  PROVE  IInv'
<1> DEFINE p == proc'[a]
<1>1. p \in Procs /\ p.pc = pc /\ p.row = NoRow /\ p.out = out BY DEF MovedTo
<1>2. wf \in Rows /\ wf' \in Rows /\ RowOK(wf) /\ RowOK(wf')
  BY DEF IInv, TypeOK, Advances, Moves, RowOK
<1>3. ControlOK(p)
  <2>1. CASE pc \in FreePCs BY <1>1, <2>1, FreeControl
  <2>2. CASE pc = "publish" BY <1>1, <2>2 DEF ControlOK, StepPCs, LocalPCs, ReadPCs, RestPCs
  <2> QED BY <2>1, <2>2 DEF RestPCs, FreePCs
<1>4. SnapOK(NoRow, wf') BY <1>2, Snaps
<1>5. ASSUME a \in Leases
      PROVE  /\ LeaseOK(a, p, wf') /\ ViewOK(a, p, wf', step)
             /\ ChildOK(p, wf', starts, child)
  <2>1. /\ pc \notin EngagedPCs /\ pc # "beat"
        /\ pc \in {"publish", "begin", "report"} => out \in {"exited", "loop"}
    BY <1>5 DEF EngagedPCs, RestPCs
  <2>2. proc[a].pc \notin {"idle", "exited"} => a <= wf'.lease
    <3>1. wf.lease \in Nat /\ wf'.lease \in Nat /\ a \in Nat
      BY <1>2, <1>5, ActorFacts DEF Rows, Leases, MaxLaunchAttempts
    <3>2. wf.lease <= wf'.lease BY <3>1 DEF Advances, Moves
    <3> QED BY <1>5, <3>1, <3>2 DEF IInv, WorkerOK, LeaseOK
  <2>3. CASE proc[a].pc \notin {"idle", "exited"}
    <3>1. a <= wf'.lease BY <2>2, <2>3
    <3> QED BY <1>1, <1>2, <1>5, <2>1, <3>1, Disengaged
  <2>4. CASE pc \in {"idle", "exited"} BY <1>1, <1>2, <1>5, <2>1, <2>4, Disengaged
  <2> QED BY <1>5, <2>3, <2>4
<1> QED BY <1>3, <1>4, <1>5, OneActor

----
(* Starting and launching. *)

\* What the invariant says of one actor.
LEMMA ActorAt ==
  ASSUME IInv, NEW a \in Actors
  PROVE  /\ wf \in Rows /\ RowOK(wf) /\ proc \in [Actors -> Procs] /\ proc[a] \in Procs
         /\ proc[a].row \in Rows /\ RowOK(proc[a].row) /\ SnapOK(proc[a].row, wf)
         /\ ControlOK(proc[a])
         /\ a \in Leases => WorkerOK(a)
         /\ wf.lease \in Nat /\ wf.ver \in Nat
  BY DEF IInv, TypeOK, ActorOK, SnapOK, Procs, Rows, Leases, MaxLaunchAttempts

\* The initial state.
LEMMA Initially == Init => IInv
<1> SUFFICES ASSUME Init PROVE IInv
  OBVIOUS
<1>0. RowOK(NoRow) /\ NoRow.status = "none" /\ NoRow.active = 0 /\ NoRow.ver = 0
  BY IdleType DEF NoRow, RowOK, Terminal, Outcome
<1>1. \A a \in Actors : /\ proc[a] \in Procs /\ proc[a].pc \in {"idle", "ready"}
                        /\ proc[a].row = NoRow /\ (a \in Leases => proc[a].pc = "idle")
  <2>1. "ready" \in PCs /\ "idle" \in PCs /\ "none" \in Outs BY DEF PCs, Outs
  <2>2. /\ [Idle EXCEPT !.pc = "ready"] \in Procs
        /\ [Idle EXCEPT !.pc = "ready"].pc = "ready"
        /\ [Idle EXCEPT !.pc = "ready"].row = NoRow
    BY <2>1, IdleAt, Zenon
  <2>3. Idle \in Procs /\ Idle.pc = "idle" /\ Idle.row = NoRow BY IdleType DEF Idle
  <2> QED BY <2>2, <2>3, ActorFacts DEF Init
<1>2. TypeOK
  <2>1. proc \in [Actors -> Procs] BY <1>1 DEF Init
  <2>2. step \in [Steps -> {"pending", "running"} \cup StepEnded] BY DEF Init
  <2>3. child \in [Steps -> {"none", "active"} \cup Outcome] BY DEF Init
  <2>4. starts \in [Steps -> [reserved : Nat, launched : Nat]] BY DEF Init
  <2>5. wf \in Rows /\ beaten \in BOOLEAN BY IdleType, Zenon DEF Init
  <2>6. crashes \in 0..MaxCrashes BY BoundsAssumption DEF Init
  <2> QED BY <2>1, <2>2, <2>3, <2>4, <2>5, <2>6 DEF TypeOK
<1>3. ASSUME NEW a \in Actors PROVE ActorOK(a)
  <2>1. ControlOK(proc[a]) BY <1>1, FreeControl DEF FreePCs
  <2>2. SnapOK(NoRow, wf) BY <1>0, IdleType, Snaps DEF Init
  <2> QED BY <1>1, <2>1, <2>2 DEF ActorOK
<1>4. ASSUME NEW n \in Leases PROVE WorkerOK(n)
  <2>1. /\ proc[n] \in Procs /\ proc[n].pc \notin EngagedPCs /\ proc[n].pc # "beat"
        /\ proc[n].pc \in {"idle", "exited"} /\ wf \in Rows
    BY <1>1, ActorFacts, IdleType DEF EngagedPCs, Init
  <2> QED BY <2>1, Disengaged DEF WorkerOK
<1>5. \A s \in Steps : StepOK(s) BY <1>0 DEF Init, StepOK
<1>6. Ownership(wf, step) BY <1>0 DEF Init, Ownership
<1> QED BY <1>0, <1>2, <1>3, <1>4, <1>5, <1>6 DEF IInv, Init

\* The row of a new workflow.
LEMMA NewRowOK ==
  /\ NewRow \in Rows /\ RowOK(NewRow) /\ NewRow.status = "queued" /\ NewRow.lease = 1
  /\ NewRow.ver = 0 /\ NewRow.active = 0
<1>1. /\ NewRow.status = "queued" /\ NewRow.lease = 1 /\ NewRow.att = 1 /\ NewRow.term = "none"
      /\ NewRow.ver = 0 /\ NewRow.active = 0
  BY DEF NewRow, NoRow
<1>2. 1 \in Leases /\ 1 \in {0} \cup Leases /\ 1 \in 0..MaxLaunchAttempts
  BY DEF Leases, MaxLaunchAttempts
<1>3. NewRow \in Rows BY <1>2, IdleType, RowFields, Literals, Zenon DEF NewRow
<1> QED BY <1>1, <1>2, <1>3 DEF RowOK, Terminal, Outcome

\* CreateWorkflow: nobody is engaged in a workflow that does not exist.
LEMMA CreateStep ==
  ASSUME IInv, CreateWorkflow PROVE IInv'
<1>0. wf.status = "none" /\ wf' = NewRow /\ UNCHANGED <<step, child, starts, beaten, crashes>>
  BY DEF CreateWorkflow
<1>1. wf = NoRow /\ wf.active = 0 /\ wf.ver = 0 /\ wf.lease = 0 BY <1>0 DEF IInv, RowOK, NoRow
<1>2. \A old \in Rows : SnapOK(old, wf) => SnapOK(old, NewRow)
  BY <1>1, NewRowOK DEF SnapOK, Rows, NoRow, Leases, MaxLaunchAttempts
<1>3. \A n \in Leases : proc[n].pc \in {"idle", "exited"}
  BY <1>1, ActorFacts DEF IInv, WorkerOK, LeaseOK
<1>4. /\ proc' \in [Actors -> Procs]
      /\ \A b \in Actors : b # Starter => proc'[b] = proc[b]
      /\ ControlOK(proc'[Starter]) /\ SnapOK(proc'[Starter].row, NewRow)
  <2>0. proc \in [Actors -> Procs] /\ wf \in Rows BY DEF IInv, TypeOK
  <2>1. CASE GotoRow(Starter, "spawn", NewRow)
    <3>1. MovedTo(Starter, "spawn", NewRow, proc[Starter].step, proc[Starter].out)
      BY <2>0, <2>1, ActorFacts, GotoRowMoves, NewRowOK DEF PCs
    <3>2. ControlOK(proc'[Starter])
      BY <3>1, NewRowOK, ActorFacts DEF MovedTo, ControlOK, StepPCs, LocalPCs, ReadPCs
    <3> QED BY <3>1, <3>2, NewRowOK, Snaps DEF MovedTo
  <2>2. CASE End(Starter)
    <3>1. MovedTo(Starter, "done", NoRow, 0, "none")
      BY <2>0, <2>2, ActorFacts, NamedMovements DEF Rest
    <3>2. ControlOK(proc'[Starter]) BY <3>1, FreeControl, ActorFacts DEF MovedTo, FreePCs
    <3> QED BY <3>1, <3>2, NewRowOK, Snaps DEF MovedTo
  <2> QED BY <2>1, <2>2 DEF CreateWorkflow
<1>5. TypeOK' BY <1>0, <1>4, NewRowOK DEF IInv, TypeOK
<1>6. ASSUME NEW a \in Actors PROVE ActorOK(a)'
  <2>1. CASE a = Starter BY <1>0, <1>4, <2>1 DEF ActorOK
  <2>2. CASE a # Starter
    <3>1. SnapOK(proc[a].row, NewRow) BY <1>2, ActorAt
    <3> QED BY <1>0, <1>4, <2>2, <3>1 DEF ActorOK, IInv
  <2> QED BY <2>1, <2>2
<1>7. ASSUME NEW n \in Leases PROVE WorkerOK(n)'
  <2>1. proc'[n] = proc[n] /\ proc[n] \in Procs BY <1>4, ActorFacts DEF IInv, TypeOK
  <2>2. proc[n].pc \notin EngagedPCs /\ proc[n].pc # "beat" BY <1>3 DEF EngagedPCs
  <2> QED BY <1>0, <1>3, <2>1, <2>2, NewRowOK, Disengaged DEF WorkerOK
<1>8. ASSUME NEW s \in Steps PROVE StepOK(s)'
  <2>1. s # 0 BY DEF Steps
  <2> QED BY <1>0, <1>1, <2>1 DEF IInv, StepOK, Terminal, Outcome
<1>9. Ownership(wf, step)' BY <1>0, <1>1, NewRowOK DEF IInv, Ownership, Terminal, Outcome
<1> QED BY <1>0, <1>5, <1>6, <1>7, <1>8, <1>9, NewRowOK DEF IInv

\* SpawnWorker: the worker of the lease that was reserved.
LEMMA SpawnStep ==
  ASSUME IInv, NEW a \in {Starter, Server}, SpawnWorker(a) PROVE IInv'
<1>0. a \in Actors /\ a \notin Leases BY ActorFacts
<1>1. /\ proc[a].pc = "spawn" /\ UNCHANGED <<wf, step, child, starts, beaten, crashes>>
      /\ proc[a].row.status # "none"
  BY <1>0, ActorAt DEF SpawnWorker, At, ControlOK, ReadPCs
<1>2. CASE Goto(a, "fail")
  <2>1. MovedTo(a, "fail", proc[a].row, proc[a].step, proc[a].out)
    BY <1>0, <1>2, ActorAt, GotoMoves DEF PCs
  <2>2. ControlOK(proc'[a]) BY <1>0, <1>1, <2>1 DEF MovedTo, ControlOK, StepPCs, LocalPCs, ReadPCs
  <2> QED BY <1>0, <1>1, <2>1, <2>2, ActorAt, OneActor
<1>3. CASE proc' = [proc EXCEPT ![a].pc = "record",
                               ![proc[a].row.lease] = [Idle EXCEPT !.pc = "boot"]]
  <2>0. PICK n \in Leases : n = proc[a].row.lease BY <1>0, <1>1, ActorAt DEF RowOK
  <2> DEFINE p == [proc[a] EXCEPT !.pc = "record"]
             q == [Idle EXCEPT !.pc = "boot"]
  <2>1. n \in Leases /\ n \in Actors /\ n # a /\ n <= wf.lease
    BY <1>0, <2>0, ActorAt, ActorFacts DEF SnapOK
  <2>2. /\ p \in Procs /\ p.pc = "record" /\ p.row = proc[a].row
        /\ q \in Procs /\ q.pc = "boot" /\ q.row = NoRow
    <3>1. "record" \in PCs /\ "boot" \in PCs /\ "none" \in Outs BY DEF PCs, Outs
    <3>2. proc[a] \in Procs BY <1>0, ActorAt
    <3>3. p \in Procs BY <3>1, <3>2, ProcFields
    <3>4. p.pc = "record" /\ p.row = proc[a].row BY <3>2 DEF Procs
    <3> QED BY <3>1, <3>3, <3>4, IdleAt, Zenon
  <2> HIDE DEF p, q
  <2>3. proc' = [[proc EXCEPT ![a] = p] EXCEPT ![n] = q] BY <1>3, <2>0 DEF p, q
  <2>4. /\ proc' \in [Actors -> Procs] /\ proc'[a] = p /\ proc'[n] = q
        /\ \A b \in Actors : b # a /\ b # n => proc'[b] = proc[b]
    <3>1. proc \in [Actors -> Procs] BY <1>0, ActorAt
    <3> QED BY <1>0, <2>1, <2>2, <2>3, <3>1
  <2>5. Good(a)'
    <3>1. ControlOK(p) BY <1>1, <2>2 DEF ControlOK, StepPCs, LocalPCs, ReadPCs
    <3> QED BY <1>0, <1>1, <2>2, <2>4, <3>1, ActorAt DEF Good, ActorOK
  <2>6. Good(n)'
    <3>1. ControlOK(q) BY <2>2, FreeControl DEF FreePCs
    <3>2. SnapOK(NoRow, wf) BY <1>0, ActorAt, Snaps
    <3>3. q.pc \notin EngagedPCs /\ q.pc # "beat" BY <2>2 DEF EngagedPCs
    <3>4. LeaseOK(n, q, wf) /\ ViewOK(n, q, wf, step) /\ ChildOK(q, wf, starts, child)
      BY <1>0, <2>1, <2>2, <3>3, ActorAt, Disengaged
    <3> QED BY <1>1, <2>2, <2>4, <3>1, <3>2, <3>4 DEF Good, ActorOK, WorkerOK
  <2>7. beaten' \in BOOLEAN /\ crashes' \in 0..MaxCrashes BY <1>1 DEF IInv, TypeOK
  <2> QED BY <1>1, <2>4, <2>5, <2>6, <2>7, ProcOnly
<1> QED BY <1>2, <1>3 DEF SpawnWorker

\* RecordLaunch: the row keeps its status; a lost launch may kill its worker.
LEMMA RecordStep ==
  ASSUME IInv, NEW a \in {Starter, Server}, RecordLaunch(a) PROVE IInv'
<1>0. a \in Actors /\ a \notin Leases BY ActorFacts
<1>1. /\ proc[a].pc \in {"record", "again"} /\ proc[a].row.status # "none"
      /\ UNCHANGED <<step, child, starts, beaten, crashes>>
  BY <1>0, ActorAt DEF RecordLaunch, ControlOK, ReadPCs
<1>2. PICK n \in Leases : n = proc[a].row.lease BY <1>0, <1>1, ActorAt DEF RowOK
<1>3. wf' = wf \/ Advances(wf, wf')
  <2>1. Held(wf, n) => wf.status # "none" BY DEF Held
  <2> QED BY <1>0, <1>2, <2>1, ActorAt, SmallOps DEF RecordLaunch
<1>4. RowOK(wf') /\ wf' \in Rows BY <1>0, <1>3, ActorAt DEF Advances, Moves, RowOK
<1>5. SnapOK(proc[a].row, wf') BY <1>0, <1>3, <1>4, ActorAt, Snaps DEF Advances
<1>6. CASE Goto(a, "event")
  <2>1. MovedTo(a, "event", proc[a].row, proc[a].step, proc[a].out)
    BY <1>0, <1>6, ActorAt, GotoMoves DEF PCs
  <2>2. ControlOK(proc'[a]) BY <1>0, <1>1, <2>1 DEF MovedTo, ControlOK, StepPCs, LocalPCs, ReadPCs
  <2> QED BY <1>0, <1>1, <1>3, <1>5, <2>1, <2>2, OneActor
<1>7. CASE Held(wf, n) /\ GotoRow(a, "again", wf)
  <2>1. MovedTo(a, "again", wf, proc[a].step, proc[a].out)
    BY <1>0, <1>7, ActorAt, GotoRowMoves DEF PCs
  <2>2. ControlOK(proc'[a])
    BY <1>0, <1>7, <2>1 DEF MovedTo, ControlOK, StepPCs, LocalPCs, ReadPCs, Held
  <2>3. SnapOK(wf, wf') BY <1>0, <1>3, <1>4, ActorAt, Snaps DEF Advances
  <2> QED BY <1>0, <1>1, <1>3, <2>1, <2>2, <2>3, OneActor
<1>8. CASE Abandon(a, n)
  <2> DEFINE q == Finished(n)
             p == IF a = Server THEN Finished(a) ELSE [proc[a] EXCEPT !.pc = "fail"]
  <2>1. /\ q \in Procs /\ q.pc = "exited" /\ q.row = NoRow
        /\ p \in Procs
        /\ (p.pc = "ready" /\ p.row = NoRow) \/ (p.pc = "fail" /\ p.row = proc[a].row)
    <3>1. "exited" \in PCs /\ "ready" \in PCs /\ "fail" \in PCs /\ "none" \in Outs BY DEF PCs, Outs
    <3>2. q \in Procs /\ q.pc = "exited" /\ q.row = NoRow
      <4>1. q = [Idle EXCEPT !.pc = "exited"] BY Ends DEF Finished
      <4> HIDE DEF p, q
      <4> QED BY <3>1, <4>1, IdleAt, Zenon
    <3>3. CASE a = Server
      <4>1. p = [Idle EXCEPT !.pc = "ready"] BY <3>3, <1>0 DEF Finished, Rest
      <4> HIDE DEF p, q
      <4>2. p \in Procs /\ p.pc = "ready" /\ p.row = NoRow BY <3>1, <4>1, IdleAt, Zenon
      <4> QED BY <3>2, <4>2
    <3>4. CASE a # Server
      <4>1. p = [proc[a] EXCEPT !.pc = "fail"] /\ proc[a] \in Procs BY <1>0, <3>4, ActorAt
      <4>2. p \in Procs BY <3>1, <4>1, ProcFields
      <4>3. p.pc = "fail" /\ p.row = proc[a].row BY <4>1 DEF Procs
      <4> QED BY <3>2, <4>2, <4>3
    <3> QED BY <3>3, <3>4
  <2> HIDE DEF p, q
  <2>2. /\ proc' \in [Actors -> Procs] /\ proc'[a] = p
        /\ proc'[n] = proc[n] \/ proc'[n] = q
        /\ \A b \in Actors : b # a /\ b # n => proc'[b] = proc[b]
    <3>0. proc \in [Actors -> Procs] /\ n \in Actors /\ n # a BY <1>0, ActorAt, ActorFacts
    <3>1. PICK c \in BOOLEAN :
            proc' = [[proc EXCEPT ![n] = IF c THEN q ELSE proc[n]] EXCEPT ![a] = p]
      <4>1. \A mark \in ReadMarks, killed \in KillOutcomes :
              (mark = "verified" /\ killed /\ Alive(n)) \in BOOLEAN
        BY DEF KillOutcomes
      <4>2. PICK mark \in ReadMarks, killed \in KillOutcomes :
              proc' = [proc EXCEPT
                ![n] = IF mark = "verified" /\ killed /\ Alive(n) THEN q ELSE @, ![a] = p]
        BY <1>0, <1>8, <3>0 DEF Abandon, p, q
      <4> QED BY <3>0, <4>1, <4>2
    <3> QED BY <1>0, <2>1, <3>0, <3>1
  <2>3. Good(a)'
    <3>1. ControlOK(p) BY <1>1, <2>1, FreeControl DEF ControlOK, StepPCs, LocalPCs, ReadPCs, FreePCs
    <3>2. SnapOK(NoRow, wf') BY <1>4, Snaps
    <3> QED BY <1>0, <1>5, <2>1, <2>2, <3>1, <3>2 DEF Good, ActorOK
  <2>4. proc'[n] = q => Good(n)'
    <3>1. ControlOK(q) /\ SnapOK(NoRow, wf') BY <1>4, <2>1, FreeControl, Snaps DEF FreePCs
    <3>2. q.pc \notin EngagedPCs /\ q.pc # "beat" BY <2>1 DEF EngagedPCs
    <3>3. LeaseOK(n, q, wf') /\ ViewOK(n, q, wf', step') /\ ChildOK(q, wf', starts', child')
      BY <1>4, <2>1, <3>2, Disengaged
    <3> QED BY <2>1, <2>2, <3>1, <3>3 DEF Good, ActorOK, WorkerOK
  <2> QED BY <1>1, <1>3, <2>2, <2>3, <2>4, RowAdvances
<1> QED BY <1>2, <1>6, <1>7, <1>8 DEF RecordLaunch

\* LaunchEvent and the except blocks.
LEMMA LaunchEndStep ==
  ASSUME IInv, NEW a \in {Starter, Server}, LaunchEvent(a) \/ FailRead(a) \/ FailWrite(a)
  PROVE  IInv'
<1>0. a \in Actors /\ a \notin Leases BY ActorFacts
<1>1. /\ proc[a].pc \in {"event", "fail", "failing"} /\ proc[a].row.status # "none"
      /\ UNCHANGED <<step, child, starts, beaten, crashes>>
  BY <1>0, ActorAt DEF LaunchEvent, FailRead, FailWrite, At, ControlOK, ReadPCs
<1>2. Rest(a) \in {"done", "ready"} BY <1>0 DEF Rest
<1>3. wf.status # "none"
  <2>1. proc[a].row.lease \in Leases /\ proc[a].row.lease <= wf.lease
    BY <1>0, <1>1, ActorAt DEF RowOK, SnapOK
  <2>2. NoRow.lease = 0 BY DEF NoRow
  <2> QED BY <1>0, <2>1, <2>2, ActorAt, ActorFacts DEF RowOK
<1>4. CASE End(a) /\ wf' = wf
  <2>1. MovedTo(a, Rest(a), NoRow, 0, "none") BY <1>0, <1>4, ActorAt, NamedMovements
  <2> QED BY <1>0, <1>1, <1>2, <1>4, <2>1, OneRests DEF RestPCs
<1>5. CASE Goto(a, "fail") /\ wf' = wf
  <2>1. MovedTo(a, "fail", proc[a].row, proc[a].step, proc[a].out)
    BY <1>0, <1>5, ActorAt, GotoMoves DEF PCs
  <2>2. ControlOK(proc'[a]) BY <1>0, <1>1, <2>1 DEF MovedTo, ControlOK, StepPCs, LocalPCs, ReadPCs
  <2> QED BY <1>0, <1>1, <1>5, <2>1, <2>2, ActorAt, OneActor
<1>6. CASE GotoRow(a, "failing", wf) /\ wf' = wf
  <2>1. MovedTo(a, "failing", wf, proc[a].step, proc[a].out)
    BY <1>0, <1>6, ActorAt, GotoRowMoves DEF PCs
  <2>2. ControlOK(proc'[a]) BY <1>0, <1>3, <2>1 DEF MovedTo, ControlOK, StepPCs, LocalPCs, ReadPCs
  <2>3. SnapOK(wf, wf') BY <1>0, <1>6, ActorAt, Snaps
  <2> QED BY <1>0, <1>1, <1>6, <2>1, <2>2, <2>3, OneActor
<1>7. CASE wf' = ToFailed(wf) /\ Publish(a, Rest(a))
  <2>1. MovedTo(a, "publish", NoRow, 0, Rest(a))
    BY <1>0, <1>2, <1>7, ActorAt, NamedMovements DEF Outs
  <2>2. Advances(wf, wf') BY <1>0, <1>3, <1>7, ActorAt, StatusOps
  <2> QED BY <1>0, <1>1, <1>2, <2>1, <2>2, OneRests
<1> QED BY <1>4, <1>5, <1>6, <1>7 DEF LaunchEvent, FailRead, FailWrite

\* Publication, by any actor.
LEMMA PublishSteps ==
  ASSUME IInv, NEW a \in Actors, PublishStep(a) PROVE IInv'
<1>1. /\ proc[a].pc \in {"publish", "begin", "report"}
      /\ proc[a].out \in {"exited", "done", "ready", "loop"}
      /\ proc[a].pc # "publish" => proc[a].row.status \in Terminal
      /\ UNCHANGED <<step, child, starts, beaten, crashes>>
  BY ActorAt DEF PublishStep, PublishRead, PublishBegin, PublishReport, At, ControlOK
<1>2. ASSUME Back(a), wf' = wf \/ Advances(wf, wf') PROVE IInv'
  <2>1. proc[a].out \in PCs BY <1>1 DEF PCs
  <2>2. MovedTo(a, proc[a].out, NoRow, 0, "none") BY <1>2, <2>1, ActorAt, NamedMovements
  <2>3. CASE proc[a].out = "loop" BY <1>1, <1>2, <2>2, <2>3, OneRests
  <2>4. CASE proc[a].out # "loop"
    <3>1. a \in Leases => proc[a].out = "exited" BY <1>1, <2>4, ActorAt DEF WorkerOK, LeaseOK
    <3> QED BY <1>1, <1>2, <2>2, <2>4, <3>1, OneRests DEF RestPCs
  <2> QED BY <2>3, <2>4
<1>3. ASSUME NEW pc \in {"begin", "report"}, GotoRow(a, pc, wf'), wf'.status \in Terminal,
             wf' = wf \/ Advances(wf, wf')
      PROVE  IInv'
  <2>1. wf' \in Rows /\ RowOK(wf') BY <1>3, ActorAt DEF Advances, Moves, RowOK
  <2>2. MovedTo(a, pc, wf', proc[a].step, proc[a].out) BY <1>3, <2>1, ActorAt, GotoRowMoves DEF PCs
  <2>3. ControlOK(proc'[a]) BY <1>1, <1>3, <2>2 DEF MovedTo, ControlOK, StepPCs, LocalPCs, ReadPCs
  <2>4. SnapOK(wf', wf') BY <2>1, Snaps
  <2>5. ASSUME a \in Leases
        PROVE  /\ LeaseOK(a, proc'[a], wf') /\ ViewOK(a, proc'[a], wf', step)
               /\ ChildOK(proc'[a], wf', starts, child)
    <3>1. a \in Nat /\ wf.lease \in Nat /\ wf'.lease \in Nat /\ wf.lease <= wf'.lease
      BY <1>3, <2>1, <2>5, ActorFacts, ActorAt DEF Rows, Leases, MaxLaunchAttempts, Advances, Moves
    <3>2. a <= wf'.lease /\ proc[a].out \in {"exited", "loop"}
      BY <1>1, <2>5, <3>1, ActorAt DEF WorkerOK, LeaseOK
    <3>3. pc \notin EngagedPCs /\ pc # "beat" BY DEF EngagedPCs
    <3>4. /\ proc'[a] \in Procs /\ proc'[a].pc = pc /\ proc'[a].out = proc[a].out
      BY <2>2 DEF MovedTo
    <3> QED BY <2>1, <2>5, <3>2, <3>3, <3>4, Disengaged
  <2> QED BY <1>1, <1>3, <2>2, <2>3, <2>4, <2>5, OneActor
<1>4. CASE PublishRead(a)
  <2>1. Back(a) \/ (IsTerminal(wf) /\ GotoRow(a, "begin", wf)) BY <1>4 DEF PublishRead
  <2>2. wf' = wf BY <1>4 DEF PublishRead
  <2> QED BY <1>2, <1>3, <2>1, <2>2 DEF IsTerminal
<1>5. CASE PublishBegin(a)
  <2> DEFINE row == [Bump(wf) EXCEPT !.pub = "publishing"]
  <2>0. "none" \notin Terminal BY DEF Terminal, Outcome
  <2>1. CASE wf.status = proc[a].row.status /\ wf' = row /\ GotoRow(a, "report", row)
    <3>1. wf.status \in Terminal BY <1>1, <1>5, <2>1 DEF PublishBegin, At
    <3>2. Advances(wf, row) BY <2>0, <3>1, ActorAt, SmallOps
    <3>3. row.status = wf.status BY ActorAt DEF Rows, Bump
    <3> QED BY <1>3, <2>1, <3>1, <3>2, <3>3
  <2>2. CASE Back(a) /\ wf' = wf BY <1>2, <2>2
  <2> QED BY <1>5, <2>1, <2>2 DEF PublishBegin
<1>6. CASE PublishReport(a)
  <2>0. "none" \notin Terminal BY DEF Terminal, Outcome
  <2>1. CASE wf.status = proc[a].row.status /\ wf' \in ReportOutcomes(wf)
    <3>1. wf.status \in Terminal BY <1>1, <1>6, <2>1 DEF PublishReport, At
    <3>2. Advances(wf, wf') BY <2>0, <2>1, <3>1, ActorAt, SmallOps, StatusOps DEF ReportOutcomes
    <3> QED BY <1>2, <1>6, <3>2 DEF PublishReport
  <2>2. CASE wf' = wf BY <1>2, <1>6, <2>2 DEF PublishReport
  <2> QED BY <1>6, <2>1, <2>2 DEF PublishReport
<1> QED BY <1>4, <1>5, <1>6 DEF PublishStep

----
(* The worker: claiming, reading, and giving up. *)

\* The first of a set of steps is one of them.
LEMMA FirstIn ==
  ASSUME NEW S, S \subseteq Nat, S # {}
  PROVE  First(S) \in S
<1>1. PICK x \in S : \A y \in S : ~(<<y, x>> \in OpToRel(<, Nat))
  BY NatLessThanWellFounded, WFMin, Zenon
<1>2. \A y \in S : ~(y < x) BY <1>1 DEF OpToRel
<1>3. \A y \in S : x <= y BY <1>2
<1> QED BY <1>3 DEF First

\* What the invariant says of a worker that exists.
LEMMA WorkerAt ==
  ASSUME IInv, NEW n \in Leases, proc[n].pc \notin {"idle", "exited"}
  PROVE  /\ n \in Actors /\ n \in Nat /\ n <= wf.lease /\ Rest(n) = "exited"
         /\ wf \in Rows /\ RowOK(wf) /\ proc \in [Actors -> Procs] /\ proc[n] \in Procs
         /\ wf.status # "none" /\ wf.lease \in Leases
         /\ proc[n].pc \in EngagedPCs => wf.lease = n /\ wf.status # "queued"
         /\ ControlOK(proc[n]) /\ SnapOK(proc[n].row, wf)
         /\ ViewOK(n, proc[n], wf, step) /\ ChildOK(proc[n], wf, starts, child)
<1>1. n \in Actors /\ n \in Nat /\ Rest(n) = "exited" BY ActorFacts, Ends
<1>2. n <= wf.lease BY <1>1, ActorAt DEF WorkerOK, LeaseOK
<1>3. wf.status # "none"
  <2>1. NoRow.lease = 0 BY DEF NoRow
  <2> QED BY <1>1, <1>2, <2>1, ActorAt, ActorFacts DEF RowOK
<1>4. wf.lease \in Leases BY <1>1, <1>3, ActorAt DEF RowOK
<1> QED BY <1>1, <1>2, <1>3, <1>4, ActorAt DEF WorkerOK, LeaseOK

\* A worker that ends, loops or publishes, while the row stays or advances.
LEMMA WorkerLeaves ==
  ASSUME IInv, UNCHANGED <<step, child, starts, beaten, crashes>>,
         wf' = wf \/ Advances(wf, wf'), NEW n \in Leases, proc[n].pc \notin {"idle", "exited"},
         End(n) \/ Loop(n) \/ Publish(n, "exited") \/ Publish(n, "loop")
  PROVE  IInv'
<1>1. n \in Actors /\ proc \in [Actors -> Procs] /\ Rest(n) = "exited" BY WorkerAt
<1>2. CASE End(n)
  <2>1. MovedTo(n, "exited", NoRow, 0, "none") BY <1>1, <1>2, NamedMovements
  <2> QED BY <1>1, <2>1, OneRests DEF RestPCs
<1>3. CASE Loop(n)
  <2>1. MovedTo(n, "loop", NoRow, 0, "none") BY <1>1, <1>3, NamedMovements
  <2> QED BY <1>1, <2>1, OneRests
<1>4. ASSUME NEW back \in {"exited", "loop"}, Publish(n, back) PROVE IInv'
  <2>1. MovedTo(n, "publish", NoRow, 0, back) BY <1>1, <1>4, NamedMovements DEF Outs
  <2> QED BY <1>1, <1>4, <2>1, OneRests
<1> QED BY <1>2, <1>3, <1>4

\* A worker that moves on without writing anything.
LEMMA WorkerGoes ==
  ASSUME IInv, UNCHANGED <<wf, step, child, starts, beaten, crashes>>,
         NEW n \in Leases, proc[n].pc \notin {"idle", "exited"},
         NEW pc, NEW row, NEW s, NEW out, MovedTo(n, pc, row, s, out),
         row = wf \/ row = NoRow \/ row = proc[n].row,
         ControlOK(proc'[n]),
         pc \in EngagedPCs => wf.lease = n /\ wf.status \notin {"none", "queued"},
         pc \notin {"publish", "begin", "report"},
         ViewOK(n, proc'[n], wf, step), ChildOK(proc'[n], wf, starts, child)
  PROVE  IInv'
<1>1. SnapOK(row, wf') BY WorkerAt, Snaps
<1>2. LeaseOK(n, proc'[n], wf') BY WorkerAt DEF MovedTo, LeaseOK
<1> QED BY <1>1, <1>2, WorkerAt, OneActor

\* WorkerBoot: the status decides, nothing is written.
LEMMA BootStep ==
  ASSUME IInv, NEW n \in Leases, WorkerBoot(n) PROVE IInv'
<1>1. proc[n].pc = "boot" /\ UNCHANGED <<wf, step, child, starts, beaten, crashes>>
  BY DEF WorkerBoot, At
<1>2. CASE GotoRow(n, "claim", wf)
  <2>1. MovedTo(n, "claim", wf, proc[n].step, proc[n].out)
    BY <1>1, <1>2, WorkerAt, GotoRowMoves DEF PCs
  <2>2. proc'[n] \in Procs /\ proc'[n].pc = "claim" BY <1>1, <2>1, WorkerAt DEF MovedTo
  <2>3. ControlOK(proc'[n]) BY <2>2, FreeControl DEF FreePCs
  <2>4. "claim" \notin EngagedPCs /\ "claim" # "beat" BY DEF EngagedPCs
  <2>5. n <= wf.lease /\ wf \in Rows BY <1>1, WorkerAt
  <2>6. ViewOK(n, proc'[n], wf, step) /\ ChildOK(proc'[n], wf, starts, child)
    BY <2>2, <2>4, <2>5, Disengaged
  <2> QED BY <1>1, <2>1, <2>3, <2>4, <2>6, WorkerGoes
<1>3. CASE End(n) \/ Loop(n) \/ Publish(n, "exited") BY <1>1, <1>3, WorkerLeaves
<1> QED BY <1>2, <1>3 DEF WorkerBoot

\* ClaimWorker: nobody is engaged in a queued workflow.
LEMMA ClaimWorkerStep ==
  ASSUME IInv, NEW n \in Leases, ClaimWorker(n) PROVE IInv'
<1>1. proc[n].pc = "claim" /\ UNCHANGED <<step, child, starts, beaten, crashes>>
  BY DEF ClaimWorker, At
<1>2. CASE End(n) /\ wf' = wf BY <1>1, <1>2, WorkerLeaves
<1>3. CASE /\ wf.status = "queued" /\ wf.lease = n /\ Loop(n)
           /\ \E mark \in ReadMarks : wf' = ToRunning(wf, mark)
  <2>1. PICK mark \in ReadMarks : wf' = ToRunning(wf, mark) BY <1>3
  <2>2. Moves(wf, wf') /\ wf'.lease = n /\ wf'.status = "running" /\ wf' \in Rows
    BY <1>1, <1>3, <2>1, WorkerAt, LeaseOps DEF Moves, RowOK, Terminal, Outcome
  <2>3. MovedTo(n, "loop", NoRow, 0, "none") BY <1>1, <1>3, WorkerAt, NamedMovements
  <2>4. proc'[n] \in Procs /\ proc'[n].pc = "loop" /\ proc'[n].row = NoRow
    BY <1>1, <2>3, WorkerAt DEF MovedTo
  <2>5. Good(n)'
    <3>1. ControlOK(proc'[n]) BY <2>4, FreeControl DEF FreePCs
    <3>2. SnapOK(NoRow, wf') BY <2>2, Snaps DEF Moves
    <3>3. proc'[n].pc \notin EngagedPCs /\ proc'[n].pc # "beat" BY <2>4 DEF EngagedPCs
    <3>4. /\ LeaseOK(n, proc'[n], wf') /\ ViewOK(n, proc'[n], wf', step')
          /\ ChildOK(proc'[n], wf', starts', child')
      <4>1. n <= wf'.lease BY <1>1, <2>2, WorkerAt
      <4> QED BY <2>2, <2>4, <3>3, <4>1, Disengaged
    <3> QED BY <2>4, <3>1, <3>2, <3>4 DEF Good, ActorOK, WorkerOK
  <2>6. ASSUME NEW m \in Leases, proc'[m] = proc[m] PROVE KeptWorker(m)
    <3>1. m # n BY <1>1, <2>4, <2>6
    <3>2. proc[m].pc \notin EngagedPCs BY <1>3 DEF IInv, WorkerOK, LeaseOK
    <3> QED BY <2>2, <3>1, <3>2 DEF KeptWorker
  <2>7. beaten' \in BOOLEAN /\ crashes' \in 0..MaxCrashes BY <1>1 DEF IInv, TypeOK
  <2>8. proc' \in [Actors -> Procs] /\ \A b \in Actors : b # n => proc'[b] = proc[b]
    BY <2>3 DEF MovedTo
  <2> QED BY <1>1, <2>2, <2>5, <2>6, <2>7, <2>8, RowMoves
<1> QED BY <1>2, <1>3 DEF ClaimWorker

\* LoopRead: with nothing to replay and no active child, no step is running.
LEMMA LoopStep ==
  ASSUME IInv, NEW n \in Leases, LoopRead(n) PROVE IInv'
<1>1. proc[n].pc = "loop" /\ UNCHANGED <<wf, step, child, starts, beaten, crashes>>
  BY DEF LoopRead, At
<1>2. CASE End(n) \/ Publish(n, "exited") BY <1>1, <1>2, WorkerLeaves
<1>3. CASE \E s \in {0} \cup Steps, out \in {"replay", "skip", "child", "recover"} :
             /\ GotoStep(n, "beat", s, out)
             /\ out = "replay" => s \in Local
             /\ out = "child" => s \in Steps
             /\ out = "skip" => Replayable = {} /\ wf.active = 0
  <2>1. PICK s \in {0} \cup Steps, out \in {"replay", "skip", "child", "recover"} :
             /\ GotoStep(n, "beat", s, out)
             /\ out = "replay" => s \in Local
             /\ out = "child" => s \in Steps
             /\ out = "skip" => Replayable = {} /\ wf.active = 0
    BY <1>3
  <2>2. MovedTo(n, "beat", wf, s, out) BY <1>1, <2>1, WorkerAt, GotoStepMoves DEF PCs, Outs
  <2>3. /\ proc'[n] \in Procs /\ proc'[n].pc = "beat" /\ proc'[n].step = s
        /\ proc'[n].out = out
    BY <1>1, <2>2, WorkerAt DEF MovedTo
  <2>4. ControlOK(proc'[n]) BY <2>1, <2>3 DEF ControlOK, StepPCs, LocalPCs, ReadPCs
  <2>5. ViewOK(n, proc'[n], wf, step)
    <3>1. ASSUME out = "skip", wf.status = "running", NEW t \in Steps PROVE step[t] # "running"
      <4>1. wf.status \notin Terminal BY <3>1 DEF Terminal, Outcome
      <4>2. t # 0 BY DEF Steps
      <4> QED BY <2>1, <3>1, <4>1, <4>2 DEF IInv, Ownership, Replayable
    <3> QED BY <2>3, <3>1 DEF ViewOK, ChoosingPCs
  <2>6. ChildOK(proc'[n], wf, starts, child) BY <2>3 DEF ChildOK, LaunchingPCs
  <2>7. "beat" \notin EngagedPCs BY DEF EngagedPCs
  <2> QED BY <1>1, <2>2, <2>4, <2>5, <2>6, <2>7, WorkerGoes
<1>4. Replayable # {} => First(Replayable) \in Local /\ First(Replayable) \in Steps
  <2>1. Replayable \subseteq Local /\ Local \subseteq Steps BY StepsAssumption DEF Replayable
  <2>2. Replayable \subseteq Nat BY <2>1 DEF Steps
  <2> QED BY <2>1, <2>2, FirstIn
<1>5. wf.active \in {0} \cup Steps BY <1>1, WorkerAt DEF Rows
<1> QED BY <1>2, <1>3, <1>4, <1>5 DEF LoopRead

\* Heartbeat: from here on the worker is engaged under the lease it checked.
LEMMA HeartbeatStep ==
  ASSUME IInv, NEW n \in Leases, Heartbeat(n) PROVE IInv'
<1>1. proc[n].pc = "beat" /\ UNCHANGED <<wf, step, child, starts, crashes>> BY DEF Heartbeat, At
<1>2. CASE End(n) /\ UNCHANGED beaten BY <1>1, <1>2, WorkerLeaves
<1>3. CASE /\ wf.status = "running" /\ wf.lease = n
           /\ Goto(n, proc[n].out) /\ beaten' = TRUE
  <2> DEFINE out == proc[n].out
  <2>1. /\ out \in {"replay", "child", "skip", "recover"}
        /\ out = "child" => proc[n].step \in Steps
        /\ out = "replay" => proc[n].step \in Local
    BY <1>1, WorkerAt DEF ControlOK
  <2>2. MovedTo(n, out, proc[n].row, proc[n].step, out)
    BY <1>1, <1>3, <2>1, WorkerAt, GotoMoves DEF PCs
  <2>3. /\ proc'[n] \in Procs /\ proc'[n].pc = out /\ proc'[n].step = proc[n].step
        /\ proc'[n].row = proc[n].row
    BY <1>1, <2>2, WorkerAt DEF MovedTo
  <2>4. ControlOK(proc'[n])
    <3>1. Local \subseteq Steps BY StepsAssumption
    <3> QED BY <2>1, <2>3, <3>1 DEF ControlOK, StepPCs, LocalPCs, ReadPCs
  <2>5. ViewOK(n, proc'[n], wf, step) BY <1>1, <2>1, <2>3, WorkerAt DEF ViewOK, ChoosingPCs
  <2>6. ChildOK(proc'[n], wf, starts, child) BY <2>1, <2>3 DEF ChildOK, LaunchingPCs
  <2>7. LeaseOK(n, proc'[n], wf) BY <1>1, <1>3, <2>1, <2>3, WorkerAt DEF LeaseOK
  <2>8. Good(n)' BY <1>1, <2>3, <2>4, <2>5, <2>6, <2>7, WorkerAt DEF Good, ActorOK, WorkerOK
  <2>9. proc' \in [Actors -> Procs] /\ \A b \in Actors : b # n => proc'[b] = proc[b]
    BY <2>2 DEF MovedTo
  <2>10. beaten' \in BOOLEAN BY <1>3, Zenon
  <2>11. crashes' \in 0..MaxCrashes BY <1>1 DEF IInv, TypeOK
  <2> QED BY <1>1, <2>8, <2>9, <2>10, <2>11, ProcOnly
<1> QED BY <1>2, <1>3 DEF Heartbeat

\* PollChild and the reads before an update of the engaged worker.
LEMMA ReadSteps ==
  ASSUME IInv, NEW n \in Leases,
         PollChild(n) \/ MarkRecoveryRead(n) \/ SettleRead(n) \/ FinishRead(n)
           \/ AnnounceRead(n) \/ Announce(n) \/ ResultRead(n)
  PROVE  IInv'
<1>0. /\ UNCHANGED <<wf, step, child, starts, beaten, crashes>>
      /\ proc[n].pc \in {"child", "recover", "settle", "finish", "announce", "note",
                         "launched", "summary"}
  BY DEF PollChild, MarkRecoveryRead, SettleRead, FinishRead, AnnounceRead, Announce,
         ResultRead, At
<1>1. /\ proc[n].pc \notin {"idle", "exited"} /\ proc[n].pc \in EngagedPCs BY <1>0 DEF EngagedPCs
<1>2. /\ wf.lease = n /\ wf.status \notin {"none", "queued"} BY <1>1, WorkerAt
<1>3. /\ proc[n].pc \in StepPCs => proc[n].step \in Steps
      /\ proc[n].pc \in LocalPCs => proc[n].step \in Local
      /\ proc[n].pc = "finish" => proc[n].out \in Outcome \ {"cancelled"}
      /\ proc[n] \in Procs
  BY <1>1, WorkerAt DEF ControlOK
<1>4. ASSUME End(n) \/ Loop(n) PROVE IInv' BY <1>0, <1>1, <1>4, WorkerLeaves
<1>5. ASSUME NEW pc \in {"recover", "recovering", "update", "commit", "note", "summary",
                         "launch", "recording", "summarized"},
             MovedTo(n, pc, wf, proc[n].step, proc[n].out)
                \/ MovedTo(n, pc, proc[n].row, proc[n].step, proc[n].out),
             pc \in StepPCs => proc[n].pc \in StepPCs,
             pc \in LocalPCs => proc[n].pc \in LocalPCs \/ proc[n].step \in Local,
             pc = "launch" => proc[n].pc = "note" /\ proc[n].step \notin Local,
             pc = "commit" => proc[n].pc = "finish",
             pc = "update" => proc[n].pc = "settle",
             pc = "note" => proc[n].pc = "announce"
      PROVE  IInv'
  <2>1. PICK row \in {wf, proc[n].row} : MovedTo(n, pc, row, proc[n].step, proc[n].out) BY <1>5
  <2>2. /\ proc'[n] \in Procs /\ proc'[n].pc = pc /\ proc'[n].step = proc[n].step
        /\ proc'[n].out = proc[n].out
    BY <1>1, <2>1, WorkerAt DEF MovedTo
  <2>3. ControlOK(proc'[n]) BY <1>3, <1>5, <2>2 DEF ControlOK, StepPCs, LocalPCs, ReadPCs
  <2>4. ViewOK(n, proc'[n], wf, step) BY <1>5, <2>2 DEF ViewOK, ChoosingPCs
  <2>5. ChildOK(proc'[n], wf, starts, child) BY <1>1, <1>5, <2>2, WorkerAt DEF ChildOK, LaunchingPCs
  <2>6. pc \notin {"publish", "begin", "report"} BY <1>5
  <2> QED BY <1>0, <1>1, <1>2, <2>1, <2>3, <2>4, <2>5, <2>6, WorkerGoes
<1>6. ASSUME NEW pc \in PCs
      PROVE  /\ Goto(n, pc) => MovedTo(n, pc, proc[n].row, proc[n].step, proc[n].out)
             /\ GotoRow(n, pc, wf) => MovedTo(n, pc, wf, proc[n].step, proc[n].out)
  BY <1>1, WorkerAt, GotoMoves, GotoRowMoves
<1>7. /\ "recover" \in PCs /\ "recovering" \in PCs /\ "update" \in PCs /\ "commit" \in PCs
      /\ "note" \in PCs /\ "summary" \in PCs /\ "launch" \in PCs /\ "recording" \in PCs
      /\ "summarized" \in PCs /\ "settle" \in PCs
  BY DEF PCs
<1>8. CASE PollChild(n)
  <2>0. proc[n].pc = "child" BY <1>8 DEF PollChild, At
  <2>1. CASE Goto(n, "recover") BY <1>5, <1>6, <1>7, <2>1 DEF StepPCs, LocalPCs
  <2>2. CASE /\ child[proc[n].step] \in Outcome
             /\ proc' = [proc EXCEPT ![n].pc = "settle", ![n].out = child[proc[n].step]]
    <3> DEFINE c == child[proc[n].step]
    <3>1. c \in Outs /\ c # "active" BY <2>2 DEF Outcome, Outs
    <3>2. MovedTo(n, "settle", proc[n].row, proc[n].step, c)
      BY <1>1, <1>7, <2>2, <3>1, WorkerAt, GotoOutMoves
    <3>3. /\ proc'[n] \in Procs /\ proc'[n].pc = "settle" /\ proc'[n].step = proc[n].step
          /\ proc'[n].out = c
      BY <1>1, <3>2, WorkerAt DEF MovedTo
    <3>4. ControlOK(proc'[n]) BY <1>3, <2>0, <3>3 DEF ControlOK, StepPCs, LocalPCs, ReadPCs
    <3>5. ViewOK(n, proc'[n], wf, step) BY <3>3 DEF ViewOK, ChoosingPCs
    <3>6. ChildOK(proc'[n], wf, starts, child) BY <3>1, <3>3 DEF ChildOK, LaunchingPCs
    <3> HIDE DEF c
    <3> QED BY <1>0, <1>1, <1>2, <3>2, <3>4, <3>5, <3>6, WorkerGoes
  <2> QED BY <1>4, <1>8, <2>1, <2>2 DEF PollChild
<1>9. CASE MarkRecoveryRead(n) BY <1>5, <1>6, <1>7, <1>9 DEF MarkRecoveryRead, At, StepPCs, LocalPCs
<1>10. CASE SettleRead(n) BY <1>4, <1>5, <1>6, <1>7, <1>10 DEF SettleRead, At, StepPCs, LocalPCs
<1>11. CASE FinishRead(n) BY <1>5, <1>6, <1>7, <1>11 DEF FinishRead, At, StepPCs, LocalPCs
<1>12. CASE AnnounceRead(n) BY <1>4, <1>5, <1>6, <1>7, <1>12 DEF AnnounceRead, At, StepPCs, LocalPCs
<1>13. CASE Announce(n) BY <1>4, <1>5, <1>6, <1>7, <1>13 DEF Announce, At, StepPCs, LocalPCs
<1>14. CASE ResultRead(n) BY <1>5, <1>6, <1>7, <1>14 DEF ResultRead, At, StepPCs, LocalPCs
<1> QED BY <1>8, <1>9, <1>10, <1>11, <1>12, <1>13, <1>14

\* The worker's updates of the workflow's status.
LEMMA WorkerStatusSteps ==
  ASSUME IInv, NEW n \in Leases, MarkRecovery(n) \/ FinishWorkflow(n)
  PROVE  IInv'
<1>1. /\ UNCHANGED <<step, child, starts, beaten, crashes>>
      /\ proc[n].pc \in {"recovering", "commit"} /\ proc[n].pc \notin {"idle", "exited"}
  BY DEF MarkRecovery, FinishWorkflow, At
<1>2. CASE MarkRecovery(n)
  <2>1. Owned(n) => wf.status \notin Terminal BY DEF Owned, Terminal, Outcome
  <2>2. wf' = wf \/ Advances(wf, wf') BY <1>1, <1>2, <2>1, WorkerAt, StatusOps DEF MarkRecovery
  <2> QED BY <1>1, <1>2, <2>2, WorkerLeaves DEF MarkRecovery
<1>3. CASE FinishWorkflow(n)
  <2>1. proc[n].out \in Outcome BY <1>1, <1>3, WorkerAt DEF FinishWorkflow, At, ControlOK
  <2>2. CASE wf' = ToTerminal(wf, proc[n].out) /\ Publish(n, "loop")
    <3>1. Advances(wf, wf') BY <1>1, <2>1, <2>2, WorkerAt, StatusOps
    <3> QED BY <1>1, <2>2, <3>1, WorkerLeaves
  <2>3. CASE Loop(n) /\ wf' = wf BY <1>1, <2>3, WorkerLeaves
  <2> QED BY <1>3, <2>2, <2>3 DEF FinishWorkflow
<1> QED BY <1>2, <1>3

\* Choosing the next step: what the worker saw still holds.
LEMMA ChoosingSteps ==
  ASSUME IInv, NEW n \in Leases, SkipRead(n) \/ NextStep(n)
  PROVE  IInv'
<1>0. /\ UNCHANGED <<wf, step, child, starts, beaten, crashes>>
      /\ proc[n].pc \in {"skip", "next"} /\ proc[n].pc \notin {"idle", "exited"}
  BY DEF SkipRead, NextStep, At
<1>1. proc[n].pc \in EngagedPCs /\ proc[n].pc \in ChoosingPCs BY <1>0 DEF EngagedPCs, ChoosingPCs
<1>2. /\ wf.lease = n /\ wf.status \notin {"none", "queued"} /\ n \in Actors
      /\ proc \in [Actors -> Procs] /\ wf \in Rows
  BY <1>0, <1>1, WorkerAt
<1>3. wf.status = "running" => \A s \in Steps : step[s] # "running"
  BY <1>0, <1>1, <1>2, WorkerAt DEF ViewOK
<1>4. ASSUME NEW s \in Steps, NEW pc \in {"skipping", "take"}, GotoStep(n, pc, s, "none"),
             pc = "take" => PassedAll(step, s),
             pc = "skipping" => BlockedNow(step, s)
      PROVE  IInv'
  <2>1. MovedTo(n, pc, wf, s, "none") BY <1>2, <1>4, GotoStepMoves DEF PCs, Outs
  <2>2. proc'[n] \in Procs /\ proc'[n].pc = pc /\ proc'[n].step = s BY <1>2, <2>1 DEF MovedTo
  <2>3. ControlOK(proc'[n]) BY <1>4, <2>2 DEF ControlOK, StepPCs, LocalPCs, ReadPCs
  <2>4. ViewOK(n, proc'[n], wf, step) BY <1>3, <1>4, <2>2 DEF ViewOK, ChoosingPCs
  <2>5. ChildOK(proc'[n], wf, starts, child) BY <1>4, <2>2 DEF ChildOK, LaunchingPCs
  <2>6. pc \notin {"publish", "begin", "report"} BY <1>4
  <2> QED BY <1>0, <1>2, <2>1, <2>3, <2>4, <2>5, <2>6, WorkerGoes
<1>5. ASSUME NEW S, S \subseteq Steps, S # {} PROVE First(S) \in S
  <2>1. S \subseteq Nat BY <1>5 DEF Steps
  <2> QED BY <1>5, <2>1, FirstIn
<1>6. CASE SkipRead(n)
  <2> DEFINE blocked == {s \in Steps : Blocked(s)}
  <2>1. CASE blocked # {} /\ GotoStep(n, "skipping", First(blocked), "none")
    <3>1. First(blocked) \in blocked BY <1>5, <2>1
    <3>2. First(blocked) \in Steps /\ BlockedNow(step, First(blocked))
      BY <3>1 DEF Blocked, BlockedNow
    <3> HIDE DEF blocked
    <3> QED BY <1>4, <2>1, <3>2
  <2>2. CASE Goto(n, "next")
    <3>1. MovedTo(n, "next", proc[n].row, proc[n].step, proc[n].out)
      BY <1>2, <2>2, GotoMoves DEF PCs
    <3>2. proc'[n] \in Procs /\ proc'[n].pc = "next" BY <1>2, <3>1 DEF MovedTo
    <3>3. ControlOK(proc'[n]) BY <3>2, FreeControl DEF FreePCs
    <3>4. ViewOK(n, proc'[n], wf, step) BY <1>3, <3>2 DEF ViewOK, ChoosingPCs
    <3>5. ChildOK(proc'[n], wf, starts, child) BY <3>2 DEF ChildOK, LaunchingPCs
    <3> QED BY <1>0, <1>2, <3>1, <3>3, <3>4, <3>5, WorkerGoes
  <2> QED BY <1>6, <2>1, <2>2 DEF SkipRead
<1>7. CASE NextStep(n)
  <2> DEFINE ready == {s \in Steps : Startable(s)}
  <2>1. CASE ready # {} /\ GotoStep(n, "take", First(ready), "none")
    <3>1. First(ready) \in ready BY <1>5, <2>1
    <3>2. First(ready) \in Steps /\ PassedAll(step, First(ready)) BY <3>1 DEF Startable, PassedAll
    <3> HIDE DEF ready
    <3> QED BY <1>4, <2>1, <3>2
  <2>2. CASE Loop(n) BY <1>0, <2>2, WorkerLeaves
  <2>3. CASE proc' = [proc EXCEPT ![n] = [Idle EXCEPT !.pc = "finish", !.out = "completed"]]
    <3>1. MovedTo(n, "finish", NoRow, 0, "completed")
      BY <1>2, <2>3, IdleOutMoves DEF PCs, Outs, Outcome
    <3>2. proc'[n] \in Procs /\ proc'[n].pc = "finish" /\ proc'[n].out = "completed"
      BY <1>2, <3>1 DEF MovedTo
    <3>3. ControlOK(proc'[n]) BY <3>2, Literals DEF ControlOK, StepPCs, LocalPCs, ReadPCs
    <3>4. ViewOK(n, proc'[n], wf, step) BY <3>2 DEF ViewOK, ChoosingPCs
    <3>5. ChildOK(proc'[n], wf, starts, child) BY <3>2 DEF ChildOK, LaunchingPCs
    <3> QED BY <1>0, <1>2, <3>1, <3>3, <3>4, <3>5, WorkerGoes
  <2> QED BY <1>7, <2>1, <2>2, <2>3 DEF NextStep
<1> QED BY <1>6, <1>7

----
(* The worker's updates of the steps. *)

\* A step of the engaged worker: the other workers are not engaged, and hold another
\* lease.
LEMMA OwnerStep ==
  ASSUME IInv, NEW n \in Leases, proc[n].pc \in EngagedPCs,
         wf' \in Rows, RowOK(wf'), wf'.lease = wf.lease, wf'.status = wf.status,
         wf' = wf \/ wf'.ver = wf.ver + 1,
         step' \in [Steps -> {"pending", "running"} \cup StepEnded],
         child' \in [Steps -> {"none", "active"} \cup Outcome],
         starts' \in [Steps -> [reserved : Nat, launched : Nat]],
         UNCHANGED <<beaten, crashes>>,
         NEW pc, NEW row, NEW s, NEW out, MovedTo(n, pc, row, s, out),
         row \in {wf, NoRow, proc[n].row},
         ControlOK(proc'[n]), pc \notin {"publish", "begin", "report"},
         ViewOK(n, proc'[n], wf', step'), ChildOK(proc'[n], wf', starts', child'),
         \A t \in Steps : StepOK(t)', Ownership(wf', step')
  PROVE  IInv'
<1>0. proc[n].pc \notin {"idle", "exited"} BY DEF EngagedPCs
<1>1. wf.lease = n /\ n \in Actors /\ wf \in Rows /\ RowOK(wf) BY <1>0, WorkerAt
<1>2. proc' \in [Actors -> Procs] /\ \A b \in Actors : b # n => proc'[b] = proc[b] BY DEF MovedTo
<1>3. TypeOK' BY <1>2 DEF IInv, TypeOK
<1>4. ASSUME NEW old \in Rows, SnapOK(old, wf) PROVE SnapOK(old, wf')
  <2>1. old.ver \in Nat /\ wf.ver \in Nat /\ old.lease \in Nat /\ wf.lease \in Nat
    BY <1>1 DEF Rows, Leases, MaxLaunchAttempts
  <2> QED BY <1>4, <2>1 DEF SnapOK
<1>5. ASSUME NEW a \in Actors PROVE ActorOK(a)'
  <2>1. proc[a].row \in Rows /\ SnapOK(proc[a].row, wf) /\ ControlOK(proc[a]) BY ActorAt
  <2>2. CASE a # n BY <1>2, <1>4, <2>1, <2>2 DEF ActorOK
  <2>3. CASE a = n
    <3>1. SnapOK(wf, wf) /\ SnapOK(NoRow, wf) BY <1>1, Snaps
    <3>2. SnapOK(row, wf) /\ row \in Rows BY <1>1, <2>1, <2>3, <3>1, IdleType
    <3> QED BY <1>4, <2>3, <3>2 DEF ActorOK, MovedTo
  <2> QED BY <2>2, <2>3
<1>6. ASSUME NEW m \in Leases PROVE WorkerOK(m)'
  <2>1. CASE m = n
    <3>1. LeaseOK(n, proc'[n], wf')
      <4>1. n <= wf'.lease /\ wf'.status \notin {"none", "queued"} BY <1>0, <1>1, WorkerAt
      <4> QED BY <1>1, <4>1 DEF LeaseOK, MovedTo
    <3> QED BY <2>1, <3>1 DEF WorkerOK
  <2>2. CASE m # n
    <3>1. proc'[m] = proc[m] /\ WorkerOK(m) BY <1>2, <2>2, ActorFacts DEF IInv
    <3>2. proc[m].pc \notin EngagedPCs BY <1>1, <2>2, <3>1 DEF WorkerOK, LeaseOK
    <3>3. LeaseOK(m, proc[m], wf') BY <3>1, <3>2 DEF WorkerOK, LeaseOK
    <3>4. ViewOK(m, proc[m], wf', step') BY <1>1, <2>2, <3>2 DEF ViewOK, ChoosingPCs, EngagedPCs
    <3>5. ChildOK(proc[m], wf', starts', child') BY <3>2 DEF ChildOK, LaunchingPCs, EngagedPCs
    <3> QED BY <3>1, <3>3, <3>4, <3>5 DEF WorkerOK
  <2> QED BY <2>1, <2>2
<1> QED BY <1>3, <1>5, <1>6 DEF IInv

\* The engaged worker writes a new version of the row and the steps, and loops.
LEMMA OwnerLoops ==
  ASSUME IInv, NEW n \in Leases, proc[n].pc \in EngagedPCs, Owned(n),
         NEW s \in {0} \cup Steps, wf' = [Bump(wf) EXCEPT !.active = s],
         step' \in [Steps -> {"pending", "running"} \cup StepEnded],
         UNCHANGED <<child, starts, beaten, crashes>>, Loop(n),
         \A t \in Steps : StepOK(t)', Ownership(wf', step')
  PROVE  IInv'
<1>0. proc[n].pc \notin {"idle", "exited"} BY DEF EngagedPCs
<1>1. /\ wf' \in Rows /\ RowOK(wf') /\ wf'.lease = wf.lease /\ wf'.status = wf.status
      /\ wf'.ver = wf.ver + 1
  BY <1>0, WorkerAt, LeaseOps DEF Owned, Terminal, Outcome
<1>2. MovedTo(n, "loop", NoRow, 0, "none") BY <1>0, WorkerAt, NamedMovements
<1>3. proc'[n] \in Procs /\ proc'[n].pc = "loop" BY <1>0, <1>2, WorkerAt DEF MovedTo
<1>4. ControlOK(proc'[n]) BY <1>3, FreeControl DEF FreePCs
<1>5. ViewOK(n, proc'[n], wf', step') BY <1>3 DEF ViewOK, ChoosingPCs
<1>6. ChildOK(proc'[n], wf', starts', child') BY <1>3 DEF ChildOK, LaunchingPCs
<1>7. /\ child' \in [Steps -> {"none", "active"} \cup Outcome]
      /\ starts' \in [Steps -> [reserved : Nat, launched : Nat]]
  BY DEF IInv, TypeOK
<1> QED BY <1>1, <1>2, <1>4, <1>5, <1>6, <1>7, OwnerStep

\* A new version with the same active child.
LEMMA BumpSame ==
  ASSUME NEW row \in Rows
  PROVE  Bump(row) = [Bump(row) EXCEPT !.active = row.active]
  BY DEF Rows, Bump

\* Replay, SkipStep and RecordResult: a step that is not the active child changes.
LEMMA OtherSteps ==
  ASSUME IInv, NEW n \in Leases, Replay(n) \/ SkipStep(n) \/ RecordResult(n)
  PROVE  IInv'
<1>0. /\ UNCHANGED <<child, starts, beaten, crashes>>
      /\ proc[n].pc \in {"replay", "skipping", "recording", "summarized"}
  BY DEF Replay, SkipStep, RecordResult, At
<1>1. proc[n].pc \notin {"idle", "exited"} /\ proc[n].pc \in EngagedPCs BY <1>0 DEF EngagedPCs
<1>2. /\ wf.lease = n /\ wf \in Rows /\ proc[n].step \in Steps
      /\ proc[n].pc \in LocalPCs => proc[n].step \in Local
  <2>1. Local \subseteq Steps BY StepsAssumption
  <2> QED BY <1>0, <1>1, <2>1, WorkerAt DEF ControlOK, StepPCs, LocalPCs
<1>3. step \in [Steps -> {"pending", "running"} \cup StepEnded] BY DEF IInv, TypeOK
<1>4. CASE UNCHANGED <<wf, step>> /\ (Loop(n) \/ End(n)) BY <1>0, <1>1, <1>4, WorkerLeaves
<1>5. ASSUME Owned(n), wf' = Bump(wf), Loop(n), NEW s \in Steps,
             NEW x \in {"pending", "passed", "skipped"},
             step' = [step EXCEPT ![s] = x] \/ step' = step,
             step[s] = "pending" \/ s \in Local,
             x = "pending" => s \in Local
      PROVE  IInv'
  <2>1. wf.status \notin Terminal BY <1>5 DEF Owned, Terminal, Outcome
  <2>2. wf.active \in {0} \cup Steps BY <1>2 DEF Rows
  <2>3. wf' = [Bump(wf) EXCEPT !.active = wf.active] BY <1>2, <1>5, BumpSame
  <2>4. wf'.active = wf.active /\ wf'.status = wf.status BY <1>2, <1>5 DEF Rows, Bump
  <2>5. step' \in [Steps -> {"pending", "running"} \cup StepEnded] BY <1>3, <1>5 DEF StepEnded
  <2>6. \A t \in Steps : t # s => step'[t] = step[t] BY <1>3, <1>5
  <2>7. step'[s] = x \/ step' = step BY <1>3, <1>5
  <2>8. \A t \in Steps : StepOK(t)' BY <1>0, <1>5, <2>1, <2>4, <2>6, <2>7 DEF IInv, StepOK
  <2>9. Ownership(wf', step')
    <3>1. Ownership(wf, step) BY DEF IInv
    <3>2. wf.active # s \/ step' = step
      <4>1. s # 0 BY DEF Steps
      <4> QED BY <1>5, <2>1, <3>1, <4>1 DEF Ownership
    <3>3. ASSUME NEW t \in Steps, step'[t] = "running" PROVE step[t] = "running"
      BY <1>5, <2>6, <2>7, <3>3
    <3>4. wf.active # 0 => step'[wf.active] = step[wf.active] BY <2>2, <2>6, <3>2
    <3> QED BY <2>1, <2>4, <3>1, <3>3, <3>4 DEF Ownership
  <2> QED BY <1>0, <1>1, <1>5, <2>2, <2>3, <2>5, <2>8, <2>9, OwnerLoops
<1>6. CASE Replay(n) BY <1>2, <1>4, <1>5, <1>6 DEF Replay, At, LocalPCs
<1>7. CASE SkipStep(n) BY <1>2, <1>4, <1>5, <1>7 DEF SkipStep
<1>8. CASE RecordResult(n)
  <2>1. CASE proc[n].pc = "summarized"
    BY <1>2, <1>4, <1>5, <1>8, <2>1 DEF RecordResult, At, LocalPCs
  <2>2. CASE proc[n].pc = "recording"
    <3>1. CASE Owned(n) /\ wf' = Bump(wf) /\ Loop(n) /\ step' = step
      <4>1. wf.status \notin Terminal BY <3>1 DEF Owned, Terminal, Outcome
      <4>2. Advances(wf, wf') BY <1>1, <3>1, WorkerAt, SmallOps
      <4> QED BY <1>0, <1>1, <3>1, <4>2, WorkerLeaves
    <3> QED BY <1>4, <1>8, <2>2, <3>1 DEF RecordResult, At
  <2> QED BY <1>8, <2>1, <2>2 DEF RecordResult, At
<1> QED BY <1>6, <1>7, <1>8

\* SettleStep: the active child has ended, and is released with its step.
LEMMA SettlingStep ==
  ASSUME IInv, NEW n \in Leases, SettleStep(n) PROVE IInv'
<1>0. proc[n].pc = "update" /\ UNCHANGED <<child, starts, beaten, crashes>> BY DEF SettleStep, At
<1>1. proc[n].pc \notin {"idle", "exited"} /\ proc[n].pc \in EngagedPCs BY <1>0 DEF EngagedPCs
<1>2. PICK s \in Steps : s = proc[n].step /\ child[s] # "active"
  BY <1>0, <1>1, WorkerAt DEF ControlOK, StepPCs, ChildOK
<1>3. CASE End(n) /\ UNCHANGED <<wf, step>> BY <1>0, <1>1, <1>3, WorkerLeaves
<1>4. ASSUME Owned(n), step[s] = "running", wf.active = s, wf' = Cleared(wf),
             NEW x \in {"passed", "failed"}, step' = [step EXCEPT ![s] = x]
      PROVE  /\ step' \in [Steps -> {"pending", "running"} \cup StepEnded]
             /\ wf' = [Bump(wf) EXCEPT !.active = 0]
             /\ \A t \in Steps : StepOK(t)'
             /\ Ownership(wf', step')
  <2>1. wf.status \notin Terminal BY <1>4 DEF Owned, Terminal, Outcome
  <2>2. step \in [Steps -> {"pending", "running"} \cup StepEnded] BY DEF IInv, TypeOK
  <2>3. wf'.active = 0 /\ wf'.status = wf.status BY <1>1, <1>4, WorkerAt DEF Cleared, Bump, Rows
  <2>4. step' \in [Steps -> {"pending", "running"} \cup StepEnded] BY <1>4, <2>2 DEF StepEnded
  <2>5. step'[s] = x /\ \A t \in Steps : t # s => step'[t] = step[t] BY <1>4, <2>2
  <2>6. ASSUME NEW t \in Steps PROVE StepOK(t)'
    <3>1. child[t] = "active" => t = s BY <1>4, <2>1 DEF IInv, StepOK
    <3>2. child[t] # "active" BY <1>2, <3>1
    <3> QED BY <1>0, <1>4, <2>5, <3>2 DEF IInv, StepOK
  <2>7. Ownership(wf', step')
    <3>1. \A t \in Steps : step'[t] # "running" BY <1>4, <2>1, <2>5 DEF IInv, Ownership
    <3> QED BY <2>3, <3>1 DEF Ownership
  <2> QED BY <1>4, <2>4, <2>6, <2>7 DEF Cleared
<1>5. CASE /\ Owned(n) /\ step[s] = "running" /\ wf.active = s /\ wf' = Cleared(wf)
           /\ \E x \in {"passed", "failed"} : step' = [step EXCEPT ![s] = x]
           /\ Loop(n)
  <2>1. PICK x \in {"passed", "failed"} : step' = [step EXCEPT ![s] = x] BY <1>5
  <2>2. 0 \in {0} \cup Steps OBVIOUS
  <2> QED BY <1>0, <1>1, <1>4, <1>5, <2>1, <2>2, OwnerLoops
<1>6. CASE /\ Owned(n) /\ step[s] = "running" /\ wf.active = s /\ wf' = Cleared(wf)
           /\ \E x \in {"passed", "failed"} : step' = [step EXCEPT ![s] = x]
           /\ FailureTarget(s, proc[n].out) # "none"
           /\ proc' = [proc EXCEPT ![n] =
                         [Idle EXCEPT !.pc = "finish", !.out = FailureTarget(s, proc[n].out)]]
  <2>1. PICK x \in {"passed", "failed"} : step' = [step EXCEPT ![s] = x] BY <1>6
  <2>2. PICK out \in Outcome \ {"cancelled"} : out = FailureTarget(s, proc[n].out)
    BY <1>6 DEF FailureTarget, Outcome
  <2>3. MovedTo(n, "finish", NoRow, 0, out)
    <3>1. "finish" \in PCs /\ out \in Outs BY DEF PCs, Outs
    <3>2. n \in Actors /\ proc \in [Actors -> Procs] BY <1>1, WorkerAt
    <3>3. proc' = [proc EXCEPT ![n] = [Idle EXCEPT !.pc = "finish", !.out = out]] BY <1>6, <2>2
    <3> QED BY <3>1, <3>2, <3>3, IdleOutMoves
  <2>4. proc'[n] \in Procs /\ proc'[n].pc = "finish" /\ proc'[n].out = out
    BY <1>1, <2>3, WorkerAt DEF MovedTo
  <2>5. ControlOK(proc'[n]) BY <2>4 DEF ControlOK, StepPCs, LocalPCs, ReadPCs
  <2>6. ViewOK(n, proc'[n], wf', step') BY <2>4 DEF ViewOK, ChoosingPCs
  <2>7. ChildOK(proc'[n], wf', starts', child') BY <2>4 DEF ChildOK, LaunchingPCs
  <2>8. /\ step' \in [Steps -> {"pending", "running"} \cup StepEnded]
        /\ wf' = [Bump(wf) EXCEPT !.active = 0]
        /\ \A t \in Steps : StepOK(t)'
        /\ Ownership(wf', step')
    BY <1>4, <1>6, <2>1
  <2>9. /\ wf' \in Rows /\ RowOK(wf') /\ wf'.lease = wf.lease /\ wf'.status = wf.status
        /\ wf'.ver = wf.ver + 1
    <3>1. 0 \in {0} \cup Steps OBVIOUS
    <3>2. wf.status \notin Terminal BY <1>6 DEF Owned, Terminal, Outcome
    <3>3. wf \in Rows /\ RowOK(wf) /\ wf.status # "none" BY <1>1, WorkerAt
    <3> QED BY <2>8, <3>1, <3>2, <3>3, LeaseOps
  <2>10. /\ child' \in [Steps -> {"none", "active"} \cup Outcome]
         /\ starts' \in [Steps -> [reserved : Nat, launched : Nat]]
    BY <1>0 DEF IInv, TypeOK
  <2> QED BY <1>0, <1>1, <2>3, <2>5, <2>6, <2>7, <2>8, <2>9, <2>10, OwnerStep
<1> QED BY <1>2, <1>3, <1>5, <1>6 DEF SettleStep

\* ClaimStep: no step was running, so the step taken is the only one; a child run is
\* reserved for a step that reserved none.
LEMMA TakingStep ==
  ASSUME IInv, NEW n \in Leases, ClaimStep(n) PROVE IInv'
<1>0. proc[n].pc = "take" /\ UNCHANGED <<child, beaten, crashes>> BY DEF ClaimStep, At
<1>1. proc[n].pc \notin {"idle", "exited"} /\ proc[n].pc \in EngagedPCs BY <1>0 DEF EngagedPCs
<1>2. PICK s \in Steps : s = proc[n].step BY <1>0, <1>1, WorkerAt DEF ControlOK, StepPCs
<1>3. CASE End(n) /\ UNCHANGED <<wf, step, starts>> BY <1>0, <1>1, <1>3, WorkerLeaves
<1>4. CASE /\ Owned(n) /\ wf.active = 0 /\ step[s] = "pending"
           /\ wf' = [Bump(wf) EXCEPT !.active = IF s \in Local THEN 0 ELSE s]
           /\ step' = [step EXCEPT ![s] = "running"]
           /\ starts' = IF s \in Local THEN starts
                        ELSE [starts EXCEPT ![s].reserved = @ + 1]
           /\ Goto(n, "announce")
  <2>1. wf.status \notin Terminal /\ wf.status = "running" /\ wf.lease = n
    BY <1>4 DEF Owned, Terminal, Outcome
  <2>2. \A t \in Steps : step[t] # "running" BY <1>0, <1>1, <2>1, WorkerAt DEF ViewOK, ChoosingPCs
  <2>3. PICK x \in {0} \cup Steps : x = IF s \in Local THEN 0 ELSE s
    OBVIOUS
  <2>4. /\ wf' \in Rows /\ RowOK(wf') /\ wf'.lease = wf.lease /\ wf'.status = wf.status
        /\ wf'.ver = wf.ver + 1 /\ wf'.active = x
    <3>1. wf \in Rows /\ RowOK(wf) /\ wf.status # "none" BY <1>1, WorkerAt
    <3> QED BY <1>4, <2>1, <2>3, <3>1, LeaseOps
  <2>5. /\ step \in [Steps -> {"pending", "running"} \cup StepEnded]
        /\ starts \in [Steps -> [reserved : Nat, launched : Nat]]
        /\ child' \in [Steps -> {"none", "active"} \cup Outcome]
    BY <1>0 DEF IInv, TypeOK
  <2>6. /\ step' \in [Steps -> {"pending", "running"} \cup StepEnded]
        /\ step'[s] = "running" /\ \A t \in Steps : t # s => step'[t] = step[t]
    BY <1>4, <2>5
  <2>7. /\ starts' \in [Steps -> [reserved : Nat, launched : Nat]]
        /\ \A t \in Steps : t # s => starts'[t] = starts[t]
        /\ s \in Local => starts'[s] = starts[s]
        /\ s \notin Local => /\ starts'[s].reserved = starts[s].reserved + 1
                             /\ starts'[s].launched = starts[s].launched
    BY <1>4, <2>5
  <2>8. s \notin Local => starts[s].reserved = 0 /\ starts[s].launched = 0
    <3>1. starts[s].launched \in Nat BY <2>5
    <3> QED BY <1>4, <3>1 DEF IInv, StepOK
  <2>9. ASSUME NEW t \in Steps PROVE StepOK(t)'
    <3>1. child[t] # "active"
      <4>1. t # 0 BY DEF Steps
      <4> QED BY <1>4, <2>1, <4>1 DEF IInv, StepOK
    <3>2. CASE t = s /\ s \notin Local BY <1>0, <2>6, <2>7, <2>8, <3>1, <3>2 DEF IInv, StepOK
    <3>3. CASE t # s \/ s \in Local
      <4>1. starts'[t] = starts[t] /\ (step'[t] = "pending" => step[t] = "pending")
        BY <2>6, <2>7, <3>3
      <4> QED BY <1>0, <3>1, <4>1 DEF IInv, StepOK
    <3> QED BY <3>2, <3>3
  <2>10. Ownership(wf', step')
    <3>1. \A t \in Steps : step'[t] = "running" => t = s BY <2>2, <2>6
    <3> QED BY <2>3, <2>4, <2>6, <3>1 DEF Ownership
  <2>11. MovedTo(n, "announce", proc[n].row, s, proc[n].out)
    BY <1>1, <1>2, <1>4, WorkerAt, GotoMoves DEF PCs
  <2>12. proc'[n] \in Procs /\ proc'[n].pc = "announce" /\ proc'[n].step = s
    BY <1>1, <2>11, WorkerAt DEF MovedTo
  <2>13. ControlOK(proc'[n]) BY <2>12 DEF ControlOK, StepPCs, LocalPCs, ReadPCs
  <2>14. ViewOK(n, proc'[n], wf', step') BY <2>12 DEF ViewOK, ChoosingPCs
  <2>15. ChildOK(proc'[n], wf', starts', child')
    BY <2>3, <2>4, <2>7, <2>8, <2>12 DEF ChildOK, LaunchingPCs
  <2> QED BY <1>0, <1>1, <2>4, <2>5, <2>6, <2>7, <2>9, <2>10, <2>11, <2>13, <2>14, <2>15,
             OwnerStep
<1> QED BY <1>2, <1>3, <1>4 DEF ClaimStep

\* LaunchChild: the child run was reserved and not launched, and is the active one.
LEMMA LaunchingStep ==
  ASSUME IInv, NEW n \in Leases, LaunchChild(n) PROVE IInv'
<1>0. proc[n].pc = "launch" /\ UNCHANGED <<wf, step, beaten, crashes>> BY DEF LaunchChild, At
<1>1. proc[n].pc \notin {"idle", "exited"} /\ proc[n].pc \in EngagedPCs BY <1>0 DEF EngagedPCs
<1>2. PICK s \in Steps :
         /\ s = proc[n].step /\ s \notin Local
         /\ starts[s].reserved = 1 /\ starts[s].launched = 0
         /\ wf.status \notin Terminal => wf.active = s
  BY <1>0, <1>1, WorkerAt DEF ControlOK, StepPCs, ChildOK, LaunchingPCs
<1>3. /\ wf \in Rows /\ RowOK(wf) /\ wf.lease = n /\ wf.status \notin {"none", "queued"}
      /\ n \in Actors /\ proc \in [Actors -> Procs]
  BY <1>1, WorkerAt
<1>4. /\ step \in [Steps -> {"pending", "running"} \cup StepEnded]
      /\ starts \in [Steps -> [reserved : Nat, launched : Nat]]
      /\ child \in [Steps -> {"none", "active"} \cup Outcome]
  BY DEF IInv, TypeOK
<1>5. CASE /\ child' = [child EXCEPT ![s] = "active"]
           /\ starts' = [starts EXCEPT ![s].launched = @ + 1]
           /\ Goto(n, "launched")
  <2>1. /\ child' \in [Steps -> {"none", "active"} \cup Outcome]
        /\ \A t \in Steps : t # s => child'[t] = child[t]
    BY <1>4, <1>5
  <2>2. /\ starts' \in [Steps -> [reserved : Nat, launched : Nat]]
        /\ \A t \in Steps : t # s => starts'[t] = starts[t]
        /\ starts'[s].reserved = 1 /\ starts'[s].launched = 1
    BY <1>2, <1>4, <1>5
  <2>3. step[s] = "pending" => FALSE BY <1>2 DEF IInv, StepOK
  <2>4. ASSUME NEW t \in Steps PROVE StepOK(t)'
    <3>1. CASE t = s BY <1>0, <1>2, <2>2, <2>3, <3>1 DEF StepOK
    <3>2. CASE t # s BY <1>0, <2>1, <2>2, <3>2 DEF IInv, StepOK
    <3> QED BY <3>1, <3>2
  <2>5. Ownership(wf', step') BY <1>0 DEF IInv
  <2>6. MovedTo(n, "launched", proc[n].row, s, proc[n].out) BY <1>2, <1>3, <1>5, GotoMoves DEF PCs
  <2>7. proc'[n] \in Procs /\ proc'[n].pc = "launched" /\ proc'[n].step = s
    BY <1>3, <2>6 DEF MovedTo
  <2>8. ControlOK(proc'[n]) BY <2>7 DEF ControlOK, StepPCs, LocalPCs, ReadPCs
  <2>9. ViewOK(n, proc'[n], wf', step') BY <2>7 DEF ViewOK, ChoosingPCs
  <2>10. ChildOK(proc'[n], wf', starts', child') BY <2>7 DEF ChildOK, LaunchingPCs
  <2>11. /\ wf' \in Rows /\ RowOK(wf') /\ wf'.lease = wf.lease /\ wf'.status = wf.status
         /\ wf' = wf /\ step' \in [Steps -> {"pending", "running"} \cup StepEnded]
    BY <1>0, <1>3, <1>4
  <2> QED BY <1>0, <1>1, <2>1, <2>2, <2>4, <2>5, <2>6, <2>8, <2>9, <2>10, <2>11, OwnerStep
<1>6. CASE /\ \E out \in {"refused", "needs_approval"} :
                 proc' = [proc EXCEPT ![n].pc = "settle", ![n].out = out]
           /\ UNCHANGED <<child, starts>>
  <2>1. PICK out \in {"refused", "needs_approval"} :
          proc' = [proc EXCEPT ![n].pc = "settle", ![n].out = out]
    BY <1>6
  <2>2. "settle" \in PCs /\ out \in Outs BY DEF PCs, Outs, Outcome
  <2>3. MovedTo(n, "settle", proc[n].row, proc[n].step, out) BY <1>3, <2>1, <2>2, GotoOutMoves
  <2>4. proc'[n] \in Procs /\ proc'[n].pc = "settle" /\ proc'[n].step = s
    BY <1>2, <1>3, <2>3 DEF MovedTo
  <2>5. child[s] # "active" BY <1>2 DEF IInv, StepOK
  <2>6. ControlOK(proc'[n]) BY <2>4 DEF ControlOK, StepPCs, LocalPCs, ReadPCs
  <2>7. ViewOK(n, proc'[n], wf, step) BY <2>4 DEF ViewOK, ChoosingPCs
  <2>8. ChildOK(proc'[n], wf, starts, child) BY <2>4, <2>5 DEF ChildOK, LaunchingPCs
  <2> QED BY <1>0, <1>1, <1>3, <1>6, <2>3, <2>6, <2>7, <2>8, WorkerGoes
<1> QED BY <1>2, <1>5, <1>6 DEF LaunchChild

----
(* Cancellation. *)

\* A thread of the server that moves, while the row stays or advances.
LEMMA ThreadMoves ==
  ASSUME IInv, UNCHANGED <<step, child, starts, beaten, crashes>>,
         wf' = wf \/ Advances(wf, wf'), NEW a \in Clients \cup {Server},
         NEW pc, NEW row, NEW s, NEW out, MovedTo(a, pc, row, s, out),
         row \in {wf, wf', NoRow, proc[a].row}, ControlOK(proc'[a])
  PROVE  IInv'
<1>0. a \in Actors /\ a \notin Leases BY ActorFacts
<1>1. wf \in Rows /\ RowOK(wf) /\ wf' \in Rows /\ RowOK(wf')
  BY <1>0, ActorAt DEF Advances, Moves, RowOK
<1>2. SnapOK(wf', wf') /\ SnapOK(NoRow, wf') /\ SnapOK(wf, wf) BY <1>1, Snaps
<1>3. SnapOK(wf, wf') /\ SnapOK(proc[a].row, wf') BY <1>0, <1>1, <1>2, ActorAt, Snaps DEF Advances
<1> QED BY <1>0, <1>2, <1>3, OneActor

\* Reading, requesting, retrying and confirming.
LEMMA CancelRows ==
  ASSUME IInv, NEW a \in Clients \cup {Server},
         \/ a \in Clients /\ (CancelRead(a) \/ RequestCancel(a))
         \/ MarkRetry(a) \/ ConfirmRead(a)
  PROVE  IInv'
<1>0. a \in Actors /\ a \notin Leases BY ActorFacts
<1>1. UNCHANGED <<step, child, starts, beaten, crashes>>
  BY DEF CancelRead, RequestCancel, MarkRetry, ConfirmRead
<1>2. Rest(a) \in {"done", "ready"} BY <1>0 DEF Rest
<1>3. ASSUME End(a), wf' = wf \/ Advances(wf, wf') PROVE IInv'
  <2>1. MovedTo(a, Rest(a), NoRow, 0, "none") BY <1>0, <1>3, ActorAt, NamedMovements
  <2> QED BY <1>0, <1>1, <1>2, <1>3, <2>1, OneRests DEF RestPCs
<1>4. ASSUME NEW pc \in {"stopchild", "request", "finalize"}, GotoRow(a, pc, wf'),
             wf' = wf \/ Advances(wf, wf'), pc = "request" => wf'.status # "none"
      PROVE  IInv'
  <2>1. wf' \in Rows BY <1>0, <1>4, ActorAt DEF Advances, Moves, RowOK
  <2>2. pc \in PCs BY DEF PCs
  <2>3. MovedTo(a, pc, wf', proc[a].step, proc[a].out)
    BY <1>0, <1>4, <2>1, <2>2, ActorAt, GotoRowMoves
  <2>4. proc'[a] \in Procs /\ proc'[a].pc = pc /\ proc'[a].row = wf' BY <1>0, <2>3 DEF MovedTo
  <2>5. ControlOK(proc'[a])
    <3>1. CASE pc = "request" BY <1>4, <2>4, <3>1 DEF ControlOK, StepPCs, LocalPCs, ReadPCs
    <3>2. CASE pc # "request" BY <2>4, <3>2, FreeControl DEF FreePCs
    <3> QED BY <3>1, <3>2
  <2> QED BY <1>1, <1>4, <2>3, <2>5, ThreadMoves
<1>5. CASE CancelRead(a)
  <2>1. wf' = wf /\ wf.status # "none" BY <1>5 DEF CancelRead
  <2>2. End(a) \/ \E pc \in {"stopchild", "request"} : GotoRow(a, pc, wf) BY <1>5 DEF CancelRead
  <2> QED BY <1>3, <1>4, <2>1, <2>2
<1>6. CASE RequestCancel(a)
  <2>1. proc[a].row.status # "none" BY <1>0, <1>6, ActorAt DEF RequestCancel, At, ControlOK, ReadPCs
  <2>2. wf' = wf \/ Advances(wf, wf')
    BY <1>0, <1>6, <2>1, ActorAt, StatusOps DEF RequestCancel, MatchesOpen, Matches, IsTerminal
  <2>3. GotoRow(a, "stopchild", wf') BY <1>6 DEF RequestCancel
  <2> QED BY <1>4, <2>2, <2>3
<1>7. CASE MarkRetry(a)
  <2>1. wf' = wf \/ Advances(wf, wf')
    <3>1. wf.status = "cancellation_pending" => Advances(wf, Bump(wf)) BY <1>0, ActorAt, SmallOps
    <3> QED BY <1>7, <3>1 DEF MarkRetry
  <2> QED BY <1>3, <1>7, <2>1 DEF MarkRetry
<1>8. CASE ConfirmRead(a) BY <1>4, <1>8 DEF ConfirmRead
<1> QED BY <1>5, <1>6, <1>7, <1>8

\* A child run ends, or its cancellation does: it does not become active.
LEMMA ChildEnds ==
  ASSUME IInv, UNCHANGED <<wf, step, starts, beaten, crashes>>,
         child' \in [Steps -> {"none", "active"} \cup Outcome],
         \A s \in Steps : \/ child'[s] = child[s]
                          \/ child[s] = "active" /\ child'[s] # "active",
         proc' \in [Actors -> Procs],
         \A a \in Actors : proc'[a] = proc[a] \/ (a \notin Leases /\ ActorOK(a)')
  PROVE  IInv'
<1>1. TypeOK' /\ RowOK(wf)' /\ Ownership(wf, step)' BY DEF IInv, TypeOK
<1>2. \A s \in Steps : StepOK(s)' BY DEF IInv, StepOK
<1>3. \A a \in Actors : ActorOK(a)' BY DEF IInv, ActorOK
<1>4. ASSUME NEW n \in Leases PROVE WorkerOK(n)'
  <2>1. proc'[n] = proc[n] /\ WorkerOK(n) BY ActorFacts DEF IInv
  <2>2. proc[n].pc \in {"settle", "update"} => proc[n].step \in Steps
    BY ActorFacts DEF IInv, ActorOK, ControlOK, StepPCs
  <2>3. ChildOK(proc[n], wf, starts, child') BY <2>1, <2>2 DEF WorkerOK, ChildOK
  <2> QED BY <2>1, <2>3 DEF WorkerOK
<1> QED BY <1>1, <1>2, <1>3, <1>4 DEF IInv

\* ChildExit: a child run ends by itself.
LEMMA ChildExitStep ==
  ASSUME IInv, NEW s \in Steps, ChildExit(s) PROVE IInv'
<1>1. PICK out \in Outcomes : child' = [child EXCEPT ![s] = out] BY DEF ChildExit
<1>2. out \in Outcome /\ out # "active" BY OutcomesAssumption DEF Outcome
<1>3. child \in [Steps -> {"none", "active"} \cup Outcome] /\ proc \in [Actors -> Procs]
  BY DEF IInv, TypeOK
<1> QED BY <1>1, <1>2, <1>3, ChildEnds DEF ChildExit

\* StopChild: the active child of the row that was read is cancelled.
LEMMA StopChildStep ==
  ASSUME IInv, NEW a \in Clients \cup {Server}, StopChild(a) PROVE IInv'
<1>0. a \in Actors /\ a \notin Leases BY ActorFacts
<1>1. UNCHANGED <<wf, step, starts, beaten, crashes>> BY DEF StopChild
<1>2. CASE Goto(a, "stopworker") /\ UNCHANGED child
  <2>1. MovedTo(a, "stopworker", proc[a].row, proc[a].step, proc[a].out)
    BY <1>0, <1>2, ActorAt, GotoMoves DEF PCs
  <2>2. proc'[a] \in Procs /\ proc'[a].pc = "stopworker" BY <1>0, <2>1 DEF MovedTo
  <2>3. ControlOK(proc'[a]) BY <2>2, FreeControl DEF FreePCs
  <2> QED BY <1>1, <1>2, <2>1, <2>3, ThreadMoves
<1>3. ASSUME NEW s \in Steps, NEW c \in Cancellation(child[s]),
             child' = [child EXCEPT ![s] = c],
             proc' = [proc EXCEPT ![a].pc = "stopworker", ![a].out = ChildReason(c)]
      PROVE  IInv'
  <2>1. child \in [Steps -> {"none", "active"} \cup Outcome] BY DEF IInv, TypeOK
  <2>2. /\ c = child[s] \/ (child[s] = "active" /\ c = "cancelled")
        /\ c \in {"none", "active"} \cup Outcome
    <3>1. c = child[s] \/ (child[s] = "active" /\ c = "cancelled") BY DEF Cancellation
    <3>2. child[s] \in {"none", "active"} \cup Outcome BY <2>1
    <3> QED BY <3>1, <3>2, Literals
  <2>3. MovedTo(a, "stopworker", proc[a].row, proc[a].step, ChildReason(c))
    <3>1. "stopworker" \in PCs /\ ChildReason(c) \in Outs BY DEF PCs, Outs, ChildReason
    <3>2. proc \in [Actors -> Procs] BY <1>0, ActorAt
    <3> HIDE DEF ChildReason
    <3> QED BY <1>0, <1>3, <3>1, <3>2, GotoOutMoves
  <2>4. /\ proc' \in [Actors -> Procs] /\ \A b \in Actors : b # a => proc'[b] = proc[b]
        /\ proc'[a] \in Procs /\ proc'[a].pc = "stopworker" /\ proc'[a].row = proc[a].row
    BY <1>0, <2>3 DEF MovedTo
  <2>5. ControlOK(proc'[a]) BY <2>4, FreeControl DEF FreePCs
  <2>6. ActorOK(a)' BY <1>0, <1>1, <2>4, <2>5, ActorAt DEF ActorOK
  <2>7. /\ child' \in [Steps -> {"none", "active"} \cup Outcome]
        /\ \A t \in Steps : \/ child'[t] = child[t]
                            \/ child[t] = "active" /\ child'[t] # "active"
    BY <1>3, <2>1, <2>2
  <2> QED BY <1>0, <1>1, <2>4, <2>6, <2>7, ChildEnds
<1>4. proc[a].row.active \in {0} \cup Steps BY <1>0, ActorAt DEF Rows
<1> QED BY <1>2, <1>3, <1>4 DEF StopChild

\* StopWorker: the recorded worker may be killed.
LEMMA StopWorkerStep ==
  ASSUME IInv, NEW a \in Clients \cup {Server}, StopWorker(a) PROVE IInv'
<1>0. a \in Actors /\ a \notin Leases BY ActorFacts
<1>1. UNCHANGED <<wf, step, child, starts, beaten, crashes>> BY DEF StopWorker
<1>2. ASSUME NEW n PROVE IdentityState(n, proc[a].row.wpid) = "active" \/
                         IdentityState(n, proc[a].row.lpid) = "active" => n \in Leases
  BY DEF IdentityState, Alive
<1>3. /\ proc' \in [Actors -> Procs]
      /\ proc'[a].pc \in {"retry", "confirm"} /\ proc'[a].row = proc[a].row
      /\ \A b \in Actors : b # a => \/ proc'[b] = proc[b]
                                    \/ b \in Leases /\ proc'[b] = Finished(b)
  <2> DEFINE n == proc[a].row.lease
             W == IdentityState(n, proc[a].row.wpid)
             L == IdentityState(n, proc[a].row.lpid)
             attempt == "active" \in {W, L}
             unsure == W = "uncertain" \/ (W = "absent" /\ L = "uncertain")
  <2>1. attempt => n \in Leases BY <1>2
  <2> HIDE DEF n, W, L
  <2>2. PICK killed \in KillOutcomes :
          LET reason == proc[a].out = "retry" \/ unsure \/ (attempt /\ ~killed)
          IN  proc' = [x \in Actors |->
                IF x = a THEN [proc[a] EXCEPT !.pc = IF reason THEN "retry" ELSE "confirm"]
                ELSE IF x = n /\ attempt /\ killed THEN Finished(n) ELSE proc[x]]
    BY DEF StopWorker, n, W, L
  <2> HIDE DEF attempt, unsure
  <2>3. PICK pc \in {"retry", "confirm"}, kill \in BOOLEAN :
          /\ proc' = [x \in Actors |->
                IF x = a THEN [proc[a] EXCEPT !.pc = pc]
                ELSE IF x = n /\ kill THEN Finished(n) ELSE proc[x]]
          /\ kill => n \in Leases
    <3>1. (attempt /\ killed) \in BOOLEAN BY DEF attempt
    <3> DEFINE reason == proc[a].out = "retry" \/ unsure \/ (attempt /\ ~killed)
    <3>2. (IF reason THEN "retry" ELSE "confirm") \in {"retry", "confirm"} OBVIOUS
    <3>3. proc' = [x \in Actors |->
                IF x = a THEN [proc[a] EXCEPT !.pc = IF reason THEN "retry" ELSE "confirm"]
                ELSE IF x = n /\ (attempt /\ killed) THEN Finished(n) ELSE proc[x]]
      BY <2>2, Zenon
    <3> HIDE DEF reason
    <3>4. WITNESS (IF reason THEN "retry" ELSE "confirm") \in {"retry", "confirm"},
                  (attempt /\ killed) \in BOOLEAN
    <3> QED BY <2>1, <3>3, Zenon
  <2>4. proc[a] \in Procs /\ proc \in [Actors -> Procs] /\ pc \in PCs BY <1>0, ActorAt DEF PCs
  <2> DEFINE p == [proc[a] EXCEPT !.pc = pc]
             q == Finished(n)
  <2>5. p \in Procs /\ p.pc = pc /\ p.row = proc[a].row
    <3>1. p \in Procs BY <2>4, ProcFields
    <3>2. p.pc = pc /\ p.row = proc[a].row BY <2>4 DEF Procs
    <3> QED BY <3>1, <3>2
  <2>6. kill => q \in Procs
    <3>1. "exited" \in PCs /\ "none" \in Outs BY DEF PCs, Outs
    <3>2. [Idle EXCEPT !.pc = "exited"] \in Procs BY <3>1, IdleAt, Zenon
    <3>3. kill => q = [Idle EXCEPT !.pc = "exited"] BY <2>3, Ends DEF Finished
    <3> HIDE DEF q
    <3> QED BY <3>2, <3>3
  <2>7. /\ proc' = [x \in Actors |-> IF x = a THEN p ELSE IF x = n /\ kill THEN q ELSE proc[x]]
        /\ kill => n \in Leases
    BY <2>3
  <2>8. q = Finished(n) OBVIOUS
  <2> HIDE DEF p, q
  <2> QED BY <1>0, <2>4, <2>5, <2>6, <2>7, <2>8
<1>4. Good(a)'
  <2>1. proc'[a] \in Procs BY <1>0, <1>3
  <2>2. ControlOK(proc'[a]) BY <1>3, <2>1, FreeControl DEF FreePCs
  <2> QED BY <1>0, <1>1, <1>3, <2>2, ActorAt DEF Good, ActorOK
<1>5. ASSUME NEW b \in Leases, proc'[b] = Finished(b) PROVE Good(b)'
  <2>1. proc'[b] \in Procs /\ proc'[b].pc = "exited" /\ proc'[b].row = NoRow
    <3>1. "exited" \in PCs /\ "none" \in Outs BY DEF PCs, Outs
    <3> DEFINE q == [Idle EXCEPT !.pc = "exited"]
    <3>2. proc'[b] = q BY <1>5, Ends DEF Finished
    <3>3. q \in Procs /\ q.pc = "exited" /\ q.row = NoRow BY <3>1, IdleAt, Zenon
    <3> HIDE DEF q
    <3> QED BY <3>2, <3>3
  <2>2. ControlOK(proc'[b]) BY <2>1, FreeControl DEF FreePCs
  <2>3. wf \in Rows /\ RowOK(wf) /\ SnapOK(NoRow, wf) BY <1>0, ActorAt, Snaps
  <2>4. proc'[b].pc \notin EngagedPCs /\ proc'[b].pc # "beat" BY <2>1 DEF EngagedPCs
  <2>5. /\ LeaseOK(b, proc'[b], wf) /\ ViewOK(b, proc'[b], wf, step)
        /\ ChildOK(proc'[b], wf, starts, child)
    BY <2>1, <2>3, <2>4, Disengaged
  <2> QED BY <1>1, <2>1, <2>2, <2>3, <2>5 DEF Good, ActorOK, WorkerOK
<1>6. beaten' \in BOOLEAN /\ crashes' \in 0..MaxCrashes BY <1>1 DEF IInv, TypeOK
<1>7. \A b \in Actors : proc'[b] = proc[b] \/ Good(b)' BY <1>3, <1>4, <1>5
<1> QED BY <1>1, <1>3, <1>6, <1>7, ProcOnly

\* FinalizeCancel: the workflow is closed with its open steps.
LEMMA FinalizeStep ==
  ASSUME IInv, NEW a \in Clients \cup {Server}, FinalizeCancel(a) PROVE IInv'
<1>0. a \in Actors /\ a \notin Leases BY ActorFacts
<1>1. proc[a].pc = "finalize" /\ UNCHANGED <<child, starts, beaten, crashes>>
  BY DEF FinalizeCancel, At
<1>2. Rest(a) \in {"done", "ready"} BY <1>0 DEF Rest
<1>3. CASE End(a) /\ UNCHANGED <<wf, step>>
  <2>1. MovedTo(a, Rest(a), NoRow, 0, "none") BY <1>0, <1>3, ActorAt, NamedMovements
  <2> QED BY <1>0, <1>1, <1>2, <1>3, <2>1, OneRests DEF RestPCs
<1>4. CASE /\ wf.status = "cancellation_pending" /\ wf' = ToCancelled(wf)
           /\ step' = [s \in Steps |-> IF s \in OpenSteps THEN "cancelled" ELSE step[s]]
           /\ Publish(a, Rest(a))
  <2>1. wf \in Rows /\ RowOK(wf) /\ wf.lease \in Nat /\ wf.ver \in Nat BY <1>0, ActorAt
  <2>2. Advances(wf, wf') BY <1>4, <2>1, StatusOps
  <2>3. wf'.status \in Terminal /\ wf'.status = "cancelled"
    BY <1>4, <2>1, Literals DEF ToCancelled, ToTerminal, Bump, Rows
  <2>4. Moves(wf, wf') /\ RowOK(wf') /\ wf' \in Rows /\ wf'.lease = wf.lease
        /\ wf'.ver = wf.ver + 1
    BY <2>2 DEF Advances, Moves, RowOK
  <2>5. MovedTo(a, "publish", NoRow, 0, Rest(a))
    BY <1>0, <1>2, <1>4, ActorAt, NamedMovements DEF Outs
  <2>6. /\ proc' \in [Actors -> Procs] /\ \A b \in Actors : b # a => proc'[b] = proc[b]
        /\ proc'[a] \in Procs /\ proc'[a].pc = "publish" /\ proc'[a].row = NoRow
        /\ proc'[a].out = Rest(a)
    BY <1>0, <2>5 DEF MovedTo
  <2>7. step' \in [Steps -> {"pending", "running"} \cup StepEnded]
        /\ \A s \in Steps : step'[s] # "pending"
    BY <1>4 DEF IInv, TypeOK, StepEnded, OpenSteps
  <2>8. TypeOK' BY <1>1, <2>4, <2>6, <2>7 DEF IInv, TypeOK
  <2>9. ASSUME NEW b \in Actors PROVE ActorOK(b)'
    <3>1. CASE b = a
      <4>1. ControlOK(proc'[a]) BY <1>2, <2>6 DEF ControlOK, StepPCs, LocalPCs, ReadPCs
      <4>2. SnapOK(NoRow, wf') BY <2>4, Snaps
      <4> QED BY <2>6, <3>1, <4>1, <4>2 DEF ActorOK
    <3>2. CASE b # a
      <4>1. SnapOK(proc[b].row, wf') BY <2>1, <2>4, ActorAt, Snaps
      <4> QED BY <2>6, <3>2, <4>1, ActorAt DEF ActorOK
    <3> QED BY <3>1, <3>2
  <2>10. ASSUME NEW n \in Leases PROVE WorkerOK(n)'
    <3>1. proc'[n] = proc[n] /\ WorkerOK(n) /\ n \in Actors BY <1>0, <2>6, ActorFacts DEF IInv
    <3>2. proc[n].row.ver # wf'.ver
      <4>1. proc[n].row.ver \in Nat /\ proc[n].row.ver <= wf.ver BY <3>1, ActorAt DEF SnapOK, Rows
      <4> QED BY <2>1, <2>4, <4>1
    <3>3. LeaseOK(n, proc[n], wf') BY <1>4, <2>3, <2>4, <3>1 DEF WorkerOK, LeaseOK
    <3>4. ViewOK(n, proc[n], wf', step') BY <2>3, <3>2 DEF ViewOK
    <3>5. ChildOK(proc[n], wf', starts', child') BY <1>1, <2>3, <3>1 DEF WorkerOK, ChildOK
    <3> QED BY <3>1, <3>3, <3>4, <3>5 DEF WorkerOK
  <2>11. \A s \in Steps : StepOK(s)' BY <1>1, <2>3, <2>7 DEF IInv, StepOK
  <2>12. Ownership(wf, step)' BY <2>3 DEF Ownership
  <2> QED BY <2>4, <2>8, <2>9, <2>10, <2>11, <2>12 DEF IInv
<1> QED BY <1>3, <1>4 DEF FinalizeCancel

----
(* Crashes, restart and reconciliation. *)

\* The server, or a worker, dies.
LEMMA CrashSteps ==
  ASSUME IInv, ServerCrash \/ \E n \in Leases : WorkerCrash(n)
  PROVE  IInv'
<1>1. CASE ServerCrash
  <2>1. /\ UNCHANGED <<wf, step, child, starts, beaten>> /\ crashes < MaxCrashes
        /\ crashes' = crashes + 1
    BY <1>1 DEF ServerCrash
  <2>2. beaten' \in BOOLEAN /\ crashes' \in 0..MaxCrashes BY <2>1, BoundsAssumption DEF IInv, TypeOK
  <2> DEFINE d == [Idle EXCEPT !.pc = "down"]
             e == [Idle EXCEPT !.pc = "done"]
  <2>3. /\ d \in Procs /\ d.pc = "down" /\ d.row = NoRow
        /\ e \in Procs /\ e.pc = "done" /\ e.row = NoRow
    <3>1. "down" \in PCs /\ "done" \in PCs /\ "none" \in Outs BY DEF PCs, Outs
    <3> QED BY <3>1, IdleAt, Zenon
  <2>4. \A a \in Actors : a \notin Leases /\ a # Server => Finished(a) = e BY DEF Finished, Rest
  <2> HIDE DEF d, e
  <2>5. proc' = [a \in Actors |-> IF a \in Leases THEN proc[a]
                  ELSE IF a = Server THEN d
                  ELSE IF At(a, "idle") THEN proc[a] ELSE Finished(a)]
    BY <1>1 DEF ServerCrash, d
  <2>6. /\ proc' \in [Actors -> Procs]
        /\ \A a \in Actors : proc'[a] = proc[a] \/ (a \notin Leases /\ proc'[a] \in {d, e})
    <3>1. \A a \in Actors : proc'[a] = proc[a] \/ (a \notin Leases /\ proc'[a] \in {d, e})
      BY <2>4, <2>5, ActorFacts
    <3>2. proc \in [Actors -> Procs] BY DEF IInv, TypeOK
    <3>3. \A a \in Actors : proc'[a] \in Procs BY <2>3, <3>1, <3>2
    <3> QED BY <2>5, <3>1, <3>3
  <2>7. ASSUME NEW a \in Actors, a \notin Leases, proc'[a] \in {d, e} PROVE Good(a)'
    <3>1. ControlOK(proc'[a]) BY <2>3, <2>7, FreeControl DEF FreePCs
    <3>2. SnapOK(NoRow, wf) BY ActorAt, Snaps
    <3> QED BY <2>1, <2>3, <2>7, <3>1, <3>2 DEF Good, ActorOK
  <2> QED BY <2>1, <2>2, <2>6, <2>7, ProcOnly
<1>2. ASSUME NEW n \in Leases, WorkerCrash(n) PROVE IInv'
  <2>1. /\ UNCHANGED <<wf, step, child, starts, beaten, crashes>> /\ End(n)
        /\ proc[n].pc \notin {"idle", "exited"}
    BY <1>2 DEF WorkerCrash, Alive
  <2> QED BY <2>1, WorkerLeaves
<1> QED BY <1>1, <1>2

\* ServerRestart: the row is listed as it is.
LEMMA RestartStep ==
  ASSUME IInv, ServerRestart PROVE IInv'
<1>0. Server \in Actors /\ Server \notin Leases /\ Rest(Server) = "ready" BY ActorFacts DEF Rest
<1>1. UNCHANGED <<wf, step, child, starts, crashes>> /\ beaten' = FALSE BY DEF ServerRestart
<1>2. /\ wf \in Rows /\ RowOK(wf) /\ SnapOK(wf, wf) /\ SnapOK(NoRow, wf)
      /\ proc \in [Actors -> Procs]
  BY <1>0, ActorAt, Snaps
<1>3. \E pc \in PCs, row \in {wf, NoRow}, s \in {0} \cup Steps, out \in Outs :
        MovedTo(Server, pc, row, s, out) /\ ControlOK(proc'[Server])
  <2>1. CASE End(Server)
    <3>1. MovedTo(Server, "ready", NoRow, 0, "none") BY <1>0, <1>2, <2>1, NamedMovements
    <3>2. ControlOK(proc'[Server])
      <4>1. proc'[Server] \in Procs /\ proc'[Server].pc = "ready" BY <1>0, <3>1 DEF MovedTo
      <4> QED BY <4>1, FreeControl DEF FreePCs
    <3>3. "ready" \in PCs /\ "none" \in Outs BY DEF PCs, Outs
    <3> QED BY <3>1, <3>2, <3>3
  <2>2. CASE Publish(Server, "ready")
    <3>1. "publish" \in PCs /\ "ready" \in Outs BY DEF PCs, Outs
    <3>2. MovedTo(Server, "publish", NoRow, 0, "ready") BY <1>0, <1>2, <2>2, <3>1, NamedMovements
    <3>3. ControlOK(proc'[Server]) BY <1>0, <3>2 DEF MovedTo, ControlOK, StepPCs, LocalPCs, ReadPCs
    <3> QED BY <3>1, <3>2, <3>3
  <2>3. CASE GotoRow(Server, "stopchild", wf)
    <3>1. "stopchild" \in PCs BY DEF PCs
    <3>2. MovedTo(Server, "stopchild", wf, proc[Server].step, proc[Server].out)
      BY <1>0, <1>2, <2>3, <3>1, GotoRowMoves
    <3>3. ControlOK(proc'[Server])
      <4>1. proc'[Server] \in Procs /\ proc'[Server].pc = "stopchild" BY <1>0, <3>2 DEF MovedTo
      <4> QED BY <4>1, FreeControl DEF FreePCs
    <3>4. proc[Server].step \in {0} \cup Steps /\ proc[Server].out \in Outs BY <1>0, <1>2 DEF Procs
    <3> QED BY <3>1, <3>2, <3>3, <3>4
  <2>4. CASE /\ wf.status \in {"queued", "running"}
             /\ proc' = [proc EXCEPT ![Server] =
                          [pc |-> "listed", row |-> wf, step |-> 0,
                           out |-> IF OwnershipProblem THEN "recover" ELSE "none"]]
    <3>1. PICK out \in Outs : out = IF OwnershipProblem THEN "recover" ELSE "none" BY DEF Outs
    <3>2. GotoStep(Server, "listed", 0, out) BY <2>4, <3>1 DEF GotoStep
    <3>3. "listed" \in PCs /\ 0 \in {0} \cup Steps BY DEF PCs
    <3>4. MovedTo(Server, "listed", wf, 0, out) BY <1>0, <1>2, <3>2, <3>3, GotoStepMoves
    <3>5. ControlOK(proc'[Server])
      BY <1>0, <2>4, <3>4 DEF MovedTo, ControlOK, StepPCs, LocalPCs, ReadPCs
    <3> QED BY <3>3, <3>4, <3>5
  <2>5. wf.status \notin {"none", "recovery_pending", "cancellation_pending"} /\ wf.status \notin Terminal
          => wf.status \in {"queued", "running"}
    BY <1>2 DEF Rows, Statuses
  <2> QED BY <2>1, <2>2, <2>3, <2>4, <2>5 DEF ServerRestart
<1>4. /\ proc' \in [Actors -> Procs] /\ \A b \in Actors : b # Server => proc'[b] = proc[b]
      /\ ControlOK(proc'[Server]) /\ proc'[Server].row \in {wf, NoRow}
  BY <1>3 DEF MovedTo
<1>5. Good(Server)' BY <1>0, <1>1, <1>2, <1>4 DEF Good, ActorOK
<1>6. beaten' \in BOOLEAN BY <1>1, Zenon
<1>7. crashes' \in 0..MaxCrashes BY <1>1 DEF IInv, TypeOK
<1> QED BY <1>1, <1>4, <1>5, <1>6, <1>7, ProcOnly

\* What the reconciler listed, when the version still matches, is the row.
LEMMA ListedIsRow ==
  ASSUME IInv, InHand, MatchesOpen(Listed)
  PROVE  wf = Listed /\ wf.status \in {"queued", "running"} /\ wf.status \notin Terminal
<1>1. Server \in Actors BY ActorFacts
<1>2. Listed.status \in {"queued", "running"} /\ SnapOK(Listed, wf)
  BY <1>1, ActorAt DEF InHand, At, ControlOK, Listed
<1> QED BY <1>2 DEF MatchesOpen, Matches, SnapOK, IsTerminal

\* Adopting, holding and giving up.
LEMMA ReconcileSteps ==
  ASSUME IInv, ReconcileAdopt \/ ReconcileHold \/ ReconcileExhausted
  PROVE  IInv'
<1>0. Server \in Actors /\ Server \notin Leases /\ Rest(Server) = "ready" BY ActorFacts DEF Rest
<1>1. UNCHANGED <<step, child, starts, beaten, crashes>> /\ InHand
  BY DEF ReconcileAdopt, ReconcileHold, ReconcileExhausted, NobodyRuns, Sound
<1>2. wf \in Rows /\ RowOK(wf) /\ proc \in [Actors -> Procs] BY <1>0, ActorAt
<1>3. MatchesOpen(Listed) => /\ wf.status # "none" /\ Advances(wf, Bump(wf))
                             /\ Advances(wf, ToRecovery(wf)) /\ Advances(wf, ToFailed(wf))
  BY <1>1, <1>2, ListedIsRow, SmallOps, StatusOps
<1>4. ASSUME End(Server), wf' = wf \/ Advances(wf, wf') PROVE IInv'
  <2>1. MovedTo(Server, "ready", NoRow, 0, "none") BY <1>0, <1>2, <1>4, NamedMovements
  <2> QED BY <1>0, <1>1, <1>4, <2>1, OneRests DEF RestPCs
<1>5. CASE ReconcileAdopt BY <1>3, <1>4, <1>5 DEF ReconcileAdopt, MatchesListed
<1>6. CASE ReconcileHold BY <1>3, <1>4, <1>6 DEF ReconcileHold
<1>7. CASE ReconcileExhausted
  <2>1. CASE MatchesListed /\ wf' = ToFailed(wf) /\ Publish(Server, "ready")
    <3>1. "ready" \in Outs BY DEF Outs
    <3>2. MovedTo(Server, "publish", NoRow, 0, "ready") BY <1>0, <1>2, <2>1, <3>1, NamedMovements
    <3>3. Advances(wf, wf') BY <1>3, <2>1 DEF MatchesListed
    <3> QED BY <1>0, <1>1, <3>2, <3>3, OneRests
  <2>2. CASE End(Server) /\ wf' = wf BY <1>4, <2>2
  <2> QED BY <1>7, <2>1, <2>2 DEF ReconcileExhausted
<1> QED BY <1>5, <1>6, <1>7

\* ReconcileReserve: the row is the one listed, whose worker is gone or never claimed
\* it: nobody is engaged when the new lease is written.
LEMMA ReserveStep ==
  ASSUME IInv, ReconcileReserve PROVE IInv'
<1>0. Server \in Actors /\ Server \notin Leases /\ Rest(Server) = "ready" BY ActorFacts DEF Rest
<1>1. /\ UNCHANGED <<step, child, starts, beaten, crashes>> /\ InHand
      /\ WorkerState = "absent" /\ Listed.att < MaxLaunchAttempts
  BY DEF ReconcileReserve, NobodyRuns, Sound
<1>2. wf \in Rows /\ RowOK(wf) /\ proc \in [Actors -> Procs] BY <1>0, ActorAt
<1>3. CASE End(Server) /\ wf' = wf
  <2>1. MovedTo(Server, "ready", NoRow, 0, "none") BY <1>0, <1>2, <1>3, NamedMovements
  <2> QED BY <1>0, <1>1, <1>3, <2>1, OneRests DEF RestPCs
<1>4. CASE MatchesListed /\ wf' = Reserved(wf) /\ GotoRow(Server, "spawn", Reserved(wf))
  <2>1. wf = Listed /\ wf.status \in {"queued", "running"} /\ wf.status \notin Terminal
    BY <1>1, <1>4, ListedIsRow DEF MatchesListed
  <2>2. Moves(wf, wf') /\ wf'.status = "queued" /\ wf'.lease = wf.lease + 1
    BY <1>1, <1>2, <1>4, <2>1, LeaseOps
  <2>3. RowOK(wf') /\ wf' \in Rows BY <2>2 DEF Moves, RowOK
  <2>4. \A n \in Leases : proc[n].pc \notin EngagedPCs
    <3> SUFFICES ASSUME NEW n \in Leases, proc[n].pc \in EngagedPCs PROVE FALSE
      OBVIOUS
    <3>1. wf.lease = n /\ wf.status = "running" BY <2>1 DEF IInv, WorkerOK, LeaseOK
    <3>2. wf.wpid # "none" BY <1>2, <3>1 DEF RowOK
    <3>3. Alive(n) BY DEF Alive, EngagedPCs
    <3> QED BY <1>1, <2>1, <3>1, <3>2, <3>3 DEF WorkerState, IdentityState
  <2>5. "spawn" \in PCs BY DEF PCs
  <2>6. MovedTo(Server, "spawn", wf', proc[Server].step, proc[Server].out)
    BY <1>0, <1>2, <1>4, <2>3, <2>5, GotoRowMoves
  <2>7. /\ proc' \in [Actors -> Procs] /\ \A b \in Actors : b # Server => proc'[b] = proc[b]
        /\ proc'[Server] \in Procs /\ proc'[Server].pc = "spawn" /\ proc'[Server].row = wf'
    BY <1>0, <2>6 DEF MovedTo
  <2>8. Good(Server)'
    <3>1. ControlOK(proc'[Server]) BY <2>2, <2>7 DEF ControlOK, StepPCs, LocalPCs, ReadPCs
    <3>2. SnapOK(wf', wf') BY <2>3, Snaps
    <3> QED BY <1>0, <2>7, <3>1, <3>2 DEF Good, ActorOK
  <2>9. \A n \in Leases : KeptWorker(n) BY <2>2, <2>4 DEF KeptWorker
  <2>10. beaten' \in BOOLEAN /\ crashes' \in 0..MaxCrashes BY <1>1 DEF IInv, TypeOK
  <2> QED BY <1>1, <2>2, <2>3, <2>7, <2>8, <2>9, <2>10, RowMoves
<1> QED BY <1>3, <1>4 DEF ReconcileReserve

----
(* The theorems. *)

\* Every step keeps the invariant.
LEMMA Inductive == IInv /\ [Next]_vars => IInv'
<1> SUFFICES ASSUME IInv, [Next]_vars PROVE IInv'
  OBVIOUS
<1>1. CASE UNCHANGED vars
  <2>1. UNCHANGED <<wf, step, child, starts, proc, beaten, crashes>> BY <1>1 DEF vars
  <2>2. proc' \in [Actors -> Procs] /\ beaten' \in BOOLEAN /\ crashes' \in 0..MaxCrashes
    BY <2>1 DEF IInv, TypeOK
  <2>3. \A a \in Actors : proc'[a] = proc[a] BY <2>1
  <2> QED BY <2>1, <2>2, <2>3, ProcOnly
<1>2. CASE CreateWorkflow \/ ReconcileStep \/ ServerCrash
  BY <1>2, CreateStep, RestartStep, ReconcileSteps, ReserveStep, CrashSteps DEF ReconcileStep
<1>3. ASSUME NEW a \in {Starter, Server}, LaunchStep(a) PROVE IInv'
  BY <1>3, SpawnStep, RecordStep, LaunchEndStep DEF LaunchStep
<1>4. ASSUME NEW a \in Actors, PublishStep(a) PROVE IInv' BY <1>4, PublishSteps
<1>5. ASSUME NEW k \in Clients, CancelRead(k) \/ RequestCancel(k) PROVE IInv' BY <1>5, CancelRows
<1>6. ASSUME NEW a \in Clients \cup {Server}, CancelStep(a) PROVE IInv'
  BY <1>6, CancelRows, StopChildStep, StopWorkerStep, FinalizeStep DEF CancelStep
<1>7. ASSUME NEW n \in Leases, WorkerStep(n) \/ WorkerCrash(n) PROVE IInv'
  <2>1. CASE WorkerCrash(n) BY <1>7, <2>1, CrashSteps
  <2>2. CASE WorkerBoot(n) \/ ClaimWorker(n) \/ LoopRead(n) \/ Heartbeat(n)
    BY <2>2, BootStep, ClaimWorkerStep, LoopStep, HeartbeatStep
  <2>3. CASE PollChild(n) \/ MarkRecoveryRead(n) \/ SettleRead(n) \/ FinishRead(n)
               \/ AnnounceRead(n) \/ Announce(n) \/ ResultRead(n)
    BY <2>3, ReadSteps
  <2>4. CASE MarkRecovery(n) \/ FinishWorkflow(n) BY <2>4, WorkerStatusSteps
  <2>5. CASE SkipRead(n) \/ NextStep(n) BY <2>5, ChoosingSteps
  <2>6. CASE Replay(n) \/ SkipStep(n) \/ RecordResult(n) BY <2>6, OtherSteps
  <2>7. CASE SettleStep(n) \/ ClaimStep(n) \/ LaunchChild(n)
    BY <2>7, SettlingStep, TakingStep, LaunchingStep
  <2> QED BY <1>7, <2>1, <2>2, <2>3, <2>4, <2>5, <2>6, <2>7 DEF WorkerStep
<1>8. ASSUME NEW s \in Steps, ChildExit(s) PROVE IInv' BY <1>8, ChildExitStep
<1> QED BY <1>1, <1>2, <1>3, <1>4, <1>5, <1>6, <1>7, <1>8 DEF Next

\* The invariant of every behaviour.
THEOREM InvariantHolds == Spec => []IInv
<1>1. Init => IInv BY Initially
<1>2. IInv /\ [Next]_vars => IInv' BY Inductive
<1> QED BY <1>1, <1>2, PTL DEF Spec

\* Type correctness, one worker at a time, one launch per child run and sound
\* ownership, for any number of cancelling clients.
THEOREM WorkersSound == Spec => [](TypeOK /\ SingleWorker /\ LaunchedOnce /\ OwnershipSound)
<1>1. IInv => TypeOK BY DEF IInv
<1>2. IInv => SingleWorker BY DEF IInv, WorkerOK, LeaseOK, SingleWorker, Engaged, EngagedPCs
<1>3. IInv => LaunchedOnce BY DEF IInv, StepOK, LaunchedOnce
<1>4. IInv => OwnershipSound
  <2> SUFFICES ASSUME IInv, wf.status \notin Terminal, OwnershipProblem PROVE FALSE
    BY DEF OwnershipSound
  <2>1. Ownership(wf, step) /\ wf.active \in {0} \cup Steps BY DEF IInv, TypeOK, Rows
  <2>2. CASE \E s, t \in RunningSteps : s # t BY <2>1, <2>2 DEF Ownership, RunningSteps
  <2>3. CASE RunningSteps = {} /\ wf.active # 0 BY <2>1, <2>3 DEF Ownership, RunningSteps
  <2>4. CASE \E s \in RunningSteps : wf.active # IF s \in Local THEN 0 ELSE s
    BY <2>1, <2>4 DEF Ownership, RunningSteps
  <2> QED BY <2>2, <2>3, <2>4 DEF OwnershipProblem
<1>5. Spec => []IInv BY InvariantHolds
<1> QED BY <1>1, <1>2, <1>3, <1>4, <1>5, PTL

\* How a step may change the outcome and the steps: a settled outcome stands.
LEMMA OutcomeKept ==
  IInv /\ [Next]_vars => (wf.term # "none" => wf'.term = wf.term)
<1> SUFFICES ASSUME IInv, [Next]_vars, wf.term # "none" PROVE wf'.term = wf.term
  OBVIOUS
<1>0. wf \in Rows /\ RowOK(wf) /\ wf.status \in Terminal BY DEF IInv, TypeOK, RowOK
<1>1. wf.status \notin {"none", "queued", "running", "cancellation_pending", "recovery_pending"}
  BY <1>0 DEF Terminal, Outcome
<1>2. ~MatchesOpen(Listed) /\ \A a \in Actors : ~MatchesOpen(proc[a].row)
  BY <1>0 DEF MatchesOpen, IsTerminal
<1>3. Bump(wf).term = wf.term /\ \A mark \in Marks : Launched(wf, mark).term = wf.term
  BY <1>0 DEF Bump, Launched, Rows
<1>4. CASE UNCHANGED vars BY <1>4 DEF vars
<1>5. CASE CreateWorkflow \/ ReconcileStep \/ ServerCrash
  BY <1>1, <1>2, <1>3, <1>5 DEF CreateWorkflow, ReconcileStep, ServerCrash, ServerRestart,
       ReconcileAdopt, ReconcileHold, ReconcileExhausted, ReconcileReserve, MatchesListed
<1>6. ASSUME NEW a \in {Starter, Server}, LaunchStep(a) PROVE wf'.term = wf.term
  <2>1. a \in Actors BY ActorFacts
  <2> QED BY <1>1, <1>2, <1>6, <2>1 DEF LaunchStep, SpawnWorker, RecordLaunch, Held,
       LaunchEvent, FailRead, FailWrite
<1>7. ASSUME NEW a \in Actors, PublishStep(a) PROVE wf'.term = wf.term
  <2>1. \A row \in ReportOutcomes(wf) : row.term = wf.term BY <1>0 DEF ReportOutcomes, Bump, Rows
  <2>2. [Bump(wf) EXCEPT !.pub = "publishing"].term = wf.term BY <1>0 DEF Bump, Rows
  <2> QED BY <1>7, <2>1, <2>2 DEF PublishStep, PublishRead, PublishBegin, PublishReport
<1>8. ASSUME NEW k \in Clients, CancelRead(k) \/ RequestCancel(k) PROVE wf'.term = wf.term
  BY <1>2, <1>8, ActorFacts DEF CancelRead, RequestCancel
<1>9. ASSUME NEW a \in Clients \cup {Server}, CancelStep(a) PROVE wf'.term = wf.term
  BY <1>1, <1>9 DEF CancelStep, StopChild, StopWorker, MarkRetry, ConfirmRead, FinalizeCancel
<1>10. ASSUME NEW n \in Leases, WorkerStep(n) \/ WorkerCrash(n) PROVE wf'.term = wf.term
  <2>1. ~Owned(n) /\ wf.status # "queued" BY <1>1 DEF Owned
  <2>2. wf' = wf
    BY <1>10, <2>1 DEF WorkerStep, WorkerBoot, ClaimWorker, LoopRead, Heartbeat, Replay,
      PollChild, MarkRecoveryRead, MarkRecovery, SettleRead, SettleStep, FinishRead,
      FinishWorkflow, SkipRead, SkipStep, NextStep, ClaimStep, AnnounceRead, Announce,
      LaunchChild, ResultRead, RecordResult, WorkerCrash
  <2> QED BY <2>2
<1>11. ASSUME NEW s \in Steps, ChildExit(s) PROVE wf'.term = wf.term BY <1>11 DEF ChildExit
<1> QED BY <1>4, <1>5, <1>6, <1>7, <1>8, <1>9, <1>10, <1>11 DEF Next

\* The outcome of a workflow is decided once, whoever reports, publishes or cancels it
\* later.
THEOREM OutcomeFinal == Spec => OutcomeIsFinal
<1>1. IInv /\ [Next]_vars => [wf.term # "none" => wf'.term = wf.term]_vars BY OutcomeKept
<1>2. Spec => []IInv BY InvariantHolds
<1> QED BY <1>1, <1>2, PTL DEF Spec, OutcomeIsFinal

\* Every step of the system is a step of the plan, or leaves the steps alone.
LEMMA PlanSteps ==
  IInv /\ [Next]_vars => [Plan!Next]_step
<1> SUFFICES ASSUME IInv, [Next]_vars PROVE Plan!Next \/ step' = step
  OBVIOUS
<1>0. step \in [Steps -> {"pending", "running"} \cup StepEnded] BY DEF IInv, TypeOK
<1>1. CASE UNCHANGED vars BY <1>1 DEF vars
<1>2. CASE CreateWorkflow \/ ReconcileStep \/ ServerCrash
  BY <1>2 DEF CreateWorkflow, ReconcileStep, ServerCrash, ServerRestart, ReconcileAdopt,
       ReconcileHold, ReconcileExhausted, ReconcileReserve
<1>3. ASSUME NEW a \in {Starter, Server}, LaunchStep(a) PROVE step' = step
  BY <1>3 DEF LaunchStep, SpawnWorker, RecordLaunch, LaunchEvent, FailRead, FailWrite
<1>4. ASSUME NEW a \in Actors, PublishStep(a) PROVE step' = step
  BY <1>4 DEF PublishStep, PublishRead, PublishBegin, PublishReport
<1>5. ASSUME NEW k \in Clients, CancelRead(k) \/ RequestCancel(k) PROVE step' = step
  BY <1>5 DEF CancelRead, RequestCancel
<1>6. ASSUME NEW a \in Clients \cup {Server}, CancelStep(a) PROVE Plan!Next \/ step' = step
  <2>1. CASE StopChild(a) \/ StopWorker(a) \/ MarkRetry(a) \/ ConfirmRead(a)
    BY <2>1 DEF StopChild, StopWorker, MarkRetry, ConfirmRead
  <2>2. CASE FinalizeCancel(a)
    <3>1. step' = step \/ step' = [s \in Steps |-> IF s \in OpenSteps THEN "cancelled" ELSE step[s]]
      BY <2>2 DEF FinalizeCancel
    <3>2. [s \in Steps |-> IF s \in OpenSteps THEN "cancelled" ELSE step[s]]
            = [s \in Steps |-> IF step[s] \in Plan!Ended THEN step[s] ELSE "cancelled"]
      BY <1>0 DEF OpenSteps, StepEnded, Plan!Ended
    <3> QED BY <3>1, <3>2 DEF Plan!Next, Plan!CancelRest
  <2> QED BY <1>6, <2>1, <2>2 DEF CancelStep
<1>7. ASSUME NEW s \in Steps, ChildExit(s) PROVE step' = step BY <1>7 DEF ChildExit
<1>8. ASSUME NEW n \in Leases, WorkerStep(n) \/ WorkerCrash(n) PROVE Plan!Next \/ step' = step
  <2>1. CASE WorkerCrash(n) BY <2>1 DEF WorkerCrash
  <2>2. CASE WorkerBoot(n) \/ ClaimWorker(n) \/ LoopRead(n) \/ Heartbeat(n)
               \/ PollChild(n) \/ MarkRecoveryRead(n) \/ MarkRecovery(n) \/ SettleRead(n)
               \/ FinishRead(n) \/ FinishWorkflow(n) \/ SkipRead(n) \/ NextStep(n)
               \/ AnnounceRead(n) \/ Announce(n) \/ LaunchChild(n) \/ ResultRead(n)
    BY <2>2 DEF WorkerBoot, ClaimWorker, LoopRead, Heartbeat, PollChild, MarkRecoveryRead,
      MarkRecovery, SettleRead, FinishRead, FinishWorkflow, SkipRead, NextStep, AnnounceRead,
      Announce, LaunchChild, ResultRead
  <2>3. /\ proc[n].pc \in StepPCs => proc[n].step \in Steps
        /\ proc[n].pc \in LocalPCs => proc[n].step \in Local
        /\ ViewOK(n, proc[n], wf, step)
    BY ActorFacts DEF IInv, ActorOK, ControlOK, WorkerOK
  <2>4. CASE Replay(n)
    <3>1. proc[n].step \in Local /\ Local \subseteq Steps
      BY <2>3, <2>4, StepsAssumption DEF Replay, At, LocalPCs
    <3> QED BY <2>4, <3>1 DEF Replay, Plan!Next, Plan!Repeat, Plan!Become
  <2>5. CASE SettleStep(n)
    <3>1. proc[n].step \in Steps BY <2>3, <2>5 DEF SettleStep, At, StepPCs
    <3> QED BY <2>5, <3>1 DEF SettleStep, Plan!Next, Plan!Finish, Plan!Become
  <2>6. CASE SkipStep(n)
    <3>1. proc[n].step \in Steps BY <2>3, <2>6 DEF SkipStep, At, StepPCs
    <3>2. Owned(n) => BlockedNow(step, proc[n].step) BY <2>3, <2>6 DEF SkipStep, At, ViewOK, Owned
    <3> QED BY <2>6, <3>1, <3>2 DEF SkipStep, BlockedNow, StepEnded,
               Plan!Next, Plan!Skip, Plan!Become, Plan!Ended
  <2>7. CASE ClaimStep(n)
    <3>1. proc[n].step \in Steps BY <2>3, <2>7 DEF ClaimStep, At, StepPCs
    <3>2. Owned(n) => /\ PassedAll(step, proc[n].step)
                      /\ \A s \in Steps : step[s] # "running"
      BY <2>3, <2>7 DEF ClaimStep, At, ViewOK, Owned, ChoosingPCs
    <3> QED BY <2>7, <3>1, <3>2 DEF ClaimStep, PassedAll, Plan!Next, Plan!Start, Plan!Become
  <2>8. CASE RecordResult(n)
    <3>1. proc[n].step \in Steps BY <2>3, <2>8 DEF RecordResult, At, StepPCs
    <3> QED BY <2>8, <3>1 DEF RecordResult, Plan!Next, Plan!Finish, Plan!Become
  <2> QED BY <1>8, <2>1, <2>2, <2>4, <2>5, <2>6, <2>7, <2>8 DEF WorkerStep
<1> QED BY <1>1, <1>2, <1>3, <1>4, <1>5, <1>6, <1>7, <1>8 DEF Next

\* The steps follow the plan: one at a time, after what they depend on, and ended once.
THEOREM FollowsPlan == Spec => ImplementsPlan
<1>1. Init => Plan!Init BY DEF Init, Plan!Init
<1>2. IInv /\ [Next]_vars => [Plan!Next]_step BY PlanSteps
<1>3. Spec => []IInv BY InvariantHolds
<1> QED BY <1>1, <1>2, <1>3, PTL DEF Spec, ImplementsPlan, Plan!Spec

----
(* What a cancellation promises, for at most one cancelling client. *)

\* The part of CInv about actor a, after a step of another actor that keeps the
\* cancellation and its active child.
LEMMA CKept ==
  ASSUME CInv,
         Cancelling' => Cancelling /\ wf'.active = wf.active /\ (ActiveStopped => ActiveStopped'),
         \A a \in Clients \cup {Server} : proc'[a] = proc[a] \/ CancellerOK(a)',
         \A k \in Clients : ClientOK(k)',
         StoppedOK'
  PROVE  CInv'
<1>1. ASSUME NEW a \in Clients \cup {Server} PROVE CancellerOK(a)'
  <2>1. CASE proc'[a] = proc[a] BY <2>1 DEF CInv, CancellerOK
  <2> QED BY <2>1
<1> QED BY <1>1 DEF CInv

\* A workflow that is not being cancelled asks nothing of the cancellers.
LEMMA NotCancelling ==
  ASSUME NEW a, ~Cancelling' PROVE CancellerOK(a)'
  BY DEF CancellerOK

\* A row operation outside cancellation, by an actor that is no client and leaves the
\* workers and the child runs alone.
LEMMA StoppedKept ==
  ASSUME CInv, wf'.term = "cancelled" => wf.term = "cancelled",
         wf.term = "cancelled" => \A s \in Steps : child'[s] = "active" => child[s] = "active",
         wf.term = "cancelled" =>
            \A n \in Leases : proc'[n].pc \in LaunchingPCs =>
                proc[n].pc \in LaunchingPCs /\ proc'[n].step = proc[n].step
  PROVE  StoppedOK'
  BY DEF CInv, StoppedOK

\* What a worker's step may do to a cancellation.
LEMMA WorkerEffect ==
  ASSUME IInv, NEW n \in Leases, WorkerStep(n) \/ WorkerCrash(n)
  PROVE  /\ \A b \in Actors : b # n => proc'[b] = proc[b]
         /\ \/ wf' = wf
            \/ /\ wf.term # "cancelled" /\ wf'.term # "cancelled"
               /\ wf'.status # "cancellation_pending"
         /\ child' = child \/ LaunchChild(n)
         /\ proc'[n].pc \in LaunchingPCs =>
              \/ proc[n].pc \in LaunchingPCs /\ proc'[n].step = proc[n].step
              \/ wf'.term # "cancelled"
<1>0. n \in Actors /\ wf \in Rows /\ proc \in [Actors -> Procs] /\ proc[n] \in Procs
  BY ActorFacts DEF IInv, TypeOK
<1>1. wf.status \in {"queued", "running"} => wf.term = "none" BY DEF IInv, RowOK, Terminal, Outcome
<1>2. ASSUME NEW pc \in PCs, NEW row \in Rows
      PROVE  /\ Goto(n, pc) => MovedTo(n, pc, proc[n].row, proc[n].step, proc[n].out)
             /\ GotoRow(n, pc, row) => MovedTo(n, pc, row, proc[n].step, proc[n].out)
  BY <1>0, GotoMoves, GotoRowMoves
<1>3. ASSUME NEW pc \in PCs, NEW s \in {0} \cup Steps, NEW out \in Outs, GotoStep(n, pc, s, out)
      PROVE  MovedTo(n, pc, wf, s, out)
  BY <1>0, <1>3, GotoStepMoves
<1>4. /\ End(n) => MovedTo(n, "exited", NoRow, 0, "none")
      /\ Loop(n) => MovedTo(n, "loop", NoRow, 0, "none")
      /\ Publish(n, "exited") => MovedTo(n, "publish", NoRow, 0, "exited")
      /\ Publish(n, "loop") => MovedTo(n, "publish", NoRow, 0, "loop")
  <2>1. "exited" \in Outs /\ "loop" \in Outs BY DEF Outs
  <2> QED BY <1>0, <2>1, NamedMovements, Ends
<1>5. /\ "exited" \notin LaunchingPCs /\ "loop" \notin LaunchingPCs /\ "publish" \notin LaunchingPCs
      /\ "beat" \notin LaunchingPCs /\ "take" \notin LaunchingPCs /\ "skipping" \notin LaunchingPCs
      /\ "claim" \notin LaunchingPCs /\ "recover" \notin LaunchingPCs /\ "finish" \notin LaunchingPCs
      /\ "recovering" \notin LaunchingPCs /\ "update" \notin LaunchingPCs /\ "next" \notin LaunchingPCs
      /\ "commit" \notin LaunchingPCs /\ "settle" \notin LaunchingPCs /\ "launched" \notin LaunchingPCs
      /\ "recording" \notin LaunchingPCs /\ "summarized" \notin LaunchingPCs
      /\ "replay" \notin LaunchingPCs /\ "child" \notin LaunchingPCs /\ "skip" \notin LaunchingPCs
      /\ "summary" \notin LaunchingPCs
  BY DEF LaunchingPCs
<1>6. wf.active \in {0} \cup Steps BY <1>0 DEF Rows
<1>7. ASSUME NEW S, S \subseteq Steps, S # {} PROVE First(S) \in S
  <2>1. S \subseteq Nat BY <1>7 DEF Steps
  <2> QED BY <1>7, <2>1, FirstIn
\* A worker that ends, loops, publishes or goes on.
<1>8. ASSUME NEW pc, NEW row, NEW s, NEW out, MovedTo(n, pc, row, s, out)
      PROVE  /\ \A b \in Actors : b # n => proc'[b] = proc[b]
             /\ proc'[n].pc = pc /\ proc'[n].step = s
  BY <1>8 DEF MovedTo
<1>9. CASE WorkerCrash(n) BY <1>4, <1>5, <1>8, <1>9 DEF WorkerCrash
<1>10. CASE WorkerBoot(n)
  <2>1. "claim" \in PCs BY DEF PCs
  <2> QED BY <1>0, <1>2, <1>4, <1>5, <1>8, <1>10, <2>1 DEF WorkerBoot
<1>11. CASE ClaimWorker(n)
  <2>1. CASE End(n) /\ wf' = wf BY <1>4, <1>5, <1>8, <1>11, <2>1 DEF ClaimWorker
  <2>2. CASE wf.status = "queued" /\ Loop(n) /\ \E mark \in ReadMarks : wf' = ToRunning(wf, mark)
    <3>1. wf'.status = "running" /\ wf'.term = wf.term BY <1>0, <2>2 DEF ToRunning, Bump, Rows
    <3> QED BY <1>1, <1>4, <1>5, <1>8, <1>11, <2>2, <3>1 DEF ClaimWorker
  <2> QED BY <1>11, <2>1, <2>2 DEF ClaimWorker
<1>12. CASE LoopRead(n)
  <2>1. "beat" \in PCs /\ "replay" \in Outs /\ "skip" \in Outs /\ "child" \in Outs /\ "recover" \in Outs
    BY DEF PCs, Outs
  <2>2. Replayable # {} => First(Replayable) \in Steps BY <1>7, StepsAssumption DEF Replayable
  <2> QED BY <1>3, <1>4, <1>5, <1>6, <1>8, <1>12, <2>1, <2>2 DEF LoopRead
<1>13. CASE Heartbeat(n)
  <2>1. proc[n].out \in {"replay", "child", "skip", "recover"}
    BY <1>0, <1>13, ActorAt DEF Heartbeat, At, ControlOK
  <2>2. proc[n].out \in PCs /\ proc[n].out \notin LaunchingPCs BY <2>1, <1>5 DEF PCs
  <2>3. proc[n].row \in Rows BY <1>0, ActorAt
  <2> QED BY <1>2, <1>4, <1>5, <1>8, <1>13, <2>2, <2>3 DEF Heartbeat
<1>14. CASE Replay(n) \/ SkipStep(n) \/ RecordResult(n)
  <2>1. Owned(n) => Bump(wf).status # "cancellation_pending" /\ Bump(wf).term = wf.term
                    /\ wf.term = "none"
    BY <1>0, <1>1 DEF Owned, Bump, Rows
  <2> QED BY <1>4, <1>5, <1>8, <1>14, <2>1 DEF Replay, SkipStep, RecordResult
<1>15. CASE PollChild(n)
  <2>1. "settle" \in PCs /\ "recover" \in PCs BY DEF PCs
  <2>2. proc[n].row \in Rows BY <1>0, ActorAt
  <2>3. \A c \in Outcome : proc' = [proc EXCEPT ![n].pc = "settle", ![n].out = c] =>
           MovedTo(n, "settle", proc[n].row, proc[n].step, c)
    <3>1. Outcome \subseteq Outs BY DEF Outs
    <3> QED BY <1>0, <2>1, <3>1, GotoOutMoves
  <2> QED BY <1>2, <1>4, <1>5, <1>8, <1>15, <2>1, <2>2, <2>3 DEF PollChild
<1>16. CASE MarkRecoveryRead(n) \/ SettleRead(n) \/ FinishRead(n) \/ ResultRead(n)
  <2>1. /\ "recovering" \in PCs /\ "update" \in PCs /\ "commit" \in PCs
        /\ "recording" \in PCs /\ "summarized" \in PCs
    BY DEF PCs
  <2> QED BY <1>0, <1>2, <1>4, <1>5, <1>8, <1>16, <2>1
          DEF MarkRecoveryRead, SettleRead, FinishRead, ResultRead
<1>17. CASE MarkRecovery(n)
  <2>1. Owned(n) => ToRecovery(wf).status = "recovery_pending" /\ ToRecovery(wf).term = wf.term
                    /\ wf.term = "none"
    BY <1>0, <1>1 DEF Owned, ToRecovery, Bump, Rows
  <2> QED BY <1>4, <1>5, <1>8, <1>17, <2>1 DEF MarkRecovery
<1>18. CASE FinishWorkflow(n)
  <2>1. proc[n].out \in Outcome \ {"cancelled"}
    BY <1>0, <1>18, ActorAt DEF FinishWorkflow, At, ControlOK
  <2>2. Owned(n) => /\ ToTerminal(wf, proc[n].out).status = proc[n].out
                    /\ ToTerminal(wf, proc[n].out).term = proc[n].out
                    /\ wf.term = "none"
    BY <1>0, <1>1 DEF Owned, ToTerminal, Bump, Rows
  <2>3. proc[n].out # "cancellation_pending" BY <2>1 DEF Outcome
  <2> QED BY <1>4, <1>5, <1>8, <1>18, <2>1, <2>2, <2>3 DEF FinishWorkflow
<1>19. CASE SettleStep(n)
  <2>1. Owned(n) => Cleared(wf).status = "running" /\ Cleared(wf).term = wf.term
                    /\ wf.term = "none"
    BY <1>0, <1>1 DEF Owned, Cleared, Bump, Rows
  <2>2. "finish" \in PCs BY DEF PCs
  <2>3. ASSUME NEW out \in Outs,
               proc' = [proc EXCEPT ![n] = [Idle EXCEPT !.pc = "finish", !.out = out]]
        PROVE  MovedTo(n, "finish", NoRow, 0, out)
    BY <1>0, <2>2, <2>3, IdleOutMoves
  <2>4. FailureTarget(proc[n].step, proc[n].out) \in Outs BY DEF FailureTarget, Outs, Outcome
  <2> QED BY <1>4, <1>5, <1>8, <1>19, <2>1, <2>3, <2>4 DEF SettleStep
<1>20. CASE SkipRead(n)
  <2> DEFINE blocked == {s \in Steps : Blocked(s)}
  <2>1. "next" \in PCs /\ "skipping" \in PCs /\ "none" \in Outs BY DEF PCs, Outs
  <2>2. blocked # {} => First(blocked) \in Steps BY <1>7
  <2>3. Goto(n, "next") \/ (blocked # {} /\ GotoStep(n, "skipping", First(blocked), "none"))
    BY <1>20 DEF SkipRead
  <2> HIDE DEF blocked
  <2>4. proc[n].row \in Rows BY <1>0, ActorAt
  <2>5. wf' = wf /\ child' = child BY <1>20 DEF SkipRead
  <2>6. CASE Goto(n, "next")
    <3>1. MovedTo(n, "next", proc[n].row, proc[n].step, proc[n].out) BY <1>2, <2>1, <2>4, <2>6
    <3> QED BY <1>5, <1>8, <2>5, <3>1
  <2>7. CASE blocked # {} /\ GotoStep(n, "skipping", First(blocked), "none")
    <3>1. First(blocked) \in {0} \cup Steps BY <2>2, <2>7
    <3>2. MovedTo(n, "skipping", wf, First(blocked), "none") BY <1>3, <2>1, <2>7, <3>1
    <3> QED BY <1>5, <1>8, <2>5, <3>2
  <2> QED BY <2>3, <2>6, <2>7
<1>21. CASE NextStep(n)
  <2> DEFINE ready == {s \in Steps : Startable(s)}
  <2>1. "finish" \in PCs /\ "take" \in PCs /\ "none" \in Outs /\ "completed" \in Outs
    BY DEF PCs, Outs, Outcome
  <2>2. ready # {} => First(ready) \in Steps BY <1>7
  <2>3. \/ Loop(n) \/ (ready # {} /\ GotoStep(n, "take", First(ready), "none"))
        \/ proc' = [proc EXCEPT ![n] = [Idle EXCEPT !.pc = "finish", !.out = "completed"]]
    BY <1>21 DEF NextStep
  <2> HIDE DEF ready
  <2>4. proc' = [proc EXCEPT ![n] = [Idle EXCEPT !.pc = "finish", !.out = "completed"]] =>
          MovedTo(n, "finish", NoRow, 0, "completed")
    BY <1>0, <2>1, IdleOutMoves
  <2> QED BY <1>3, <1>4, <1>5, <1>8, <1>21, <2>1, <2>2, <2>3, <2>4 DEF NextStep
<1>22. CASE ClaimStep(n)
  <2>1. "announce" \in PCs BY DEF PCs
  <2>2. proc[n].row \in Rows BY <1>0, ActorAt
  <2>3. CASE End(n) /\ wf' = wf BY <1>4, <1>5, <1>8, <1>22, <2>3 DEF ClaimStep
  <2>4. CASE /\ Owned(n) /\ Goto(n, "announce")
             /\ \E x \in {0, proc[n].step} : wf' = [Bump(wf) EXCEPT !.active = x]
    <3>1. wf'.status = "running" /\ wf'.term = wf.term /\ wf.term = "none"
      BY <1>0, <1>1, <2>4 DEF Owned, Bump, Rows
    <3> QED BY <1>2, <1>8, <1>22, <2>1, <2>2, <2>4, <3>1 DEF ClaimStep
  <2> QED BY <1>22, <2>3, <2>4 DEF ClaimStep
<1>23. CASE AnnounceRead(n) \/ Announce(n)
  <2>1. "note" \in PCs /\ "summary" \in PCs /\ "launch" \in PCs BY DEF PCs
  <2>2. proc[n].row \in Rows BY <1>0, ActorAt
  <2>3. proc[n].pc \in LaunchingPCs BY <1>23 DEF AnnounceRead, Announce, At, LaunchingPCs
  <2> QED BY <1>0, <1>2, <1>4, <1>5, <1>8, <1>23, <2>1, <2>2, <2>3 DEF AnnounceRead, Announce
<1>24. CASE LaunchChild(n)
  <2>1. "launched" \in PCs /\ "settle" \in PCs /\ "refused" \in Outs /\ "needs_approval" \in Outs
    BY DEF PCs, Outs, Outcome
  <2>2. proc[n].row \in Rows BY <1>0, ActorAt
  <2>3. ASSUME NEW out \in {"refused", "needs_approval"},
               proc' = [proc EXCEPT ![n].pc = "settle", ![n].out = out]
        PROVE  MovedTo(n, "settle", proc[n].row, proc[n].step, out)
    BY <1>0, <2>1, <2>3, GotoOutMoves
  <2> QED BY <1>2, <1>5, <1>8, <1>24, <2>1, <2>2, <2>3 DEF LaunchChild
<1> QED BY <1>9, <1>10, <1>11, <1>12, <1>13, <1>14, <1>15, <1>16, <1>17, <1>18, <1>19, <1>20,
           <1>21, <1>22, <1>23, <1>24 DEF WorkerStep

\* An actor that moves outside cancellation, and leaves the child runs alone.
CancelPCs == {"stopchild", "stopworker", "confirm", "finalize", "idle", "request"}
\* What a cancellation promises is kept by such a movement.
LEMMA CMoved ==
  ASSUME CInv, NEW a \in Actors, child' = child,
         \A b \in Actors : b # a => \/ proc'[b] = proc[b]
                                    \/ b \in Leases /\ proc'[b].pc \notin LaunchingPCs,
         proc'[a].pc \notin CancelPCs \cup LaunchingPCs,
         Cancelling' => Cancelling /\ wf'.active = wf.active,
         wf'.term = "cancelled" => wf.term = "cancelled",
         a \in Clients => proc[Server].pc = "ready",
         a = Server => proc[Server].pc # "ready"
  PROVE  CInv'
<1>1. \A b \in Clients \cup {Server} : b \in Actors /\ b \notin Leases BY ActorFacts
<1>2. ActiveStopped /\ Cancelling' => ActiveStopped' BY DEF ActiveStopped
<1>3. ASSUME NEW b \in Clients \cup {Server} PROVE proc'[b] = proc[b] \/ CancellerOK(b)'
  BY <1>1 DEF CancellerOK, CancelPCs
<1>4. ASSUME NEW k \in Clients PROVE ClientOK(k)'
  <2>1. CASE k = a BY <1>1, <2>1, ActorFacts DEF CInv, ClientOK, CancelPCs
  <2>2. CASE k # a /\ a = Server BY <1>1, <2>2, ActorFacts DEF CInv, ClientOK, Cancelling
  <2>3. CASE k # a /\ a # Server BY <1>1, <2>3, ActorFacts DEF CInv, ClientOK, Cancelling
  <2> QED BY <2>1, <2>2, <2>3
<1>5. StoppedOK'
  <2>1. \A n \in Leases : proc'[n].pc \in LaunchingPCs => proc'[n] = proc[n] BY ActorFacts
  <2> QED BY <2>1, StoppedKept
<1> QED BY <1>2, <1>3, <1>4, <1>5, CKept

\* The worker's steps: a child run is launched only while the cancellation, if there
\* is one, has not found it stopped.
LEMMA CWorker ==
  ASSUME IInv, CInv, NEW n \in Leases, WorkerStep(n) \/ WorkerCrash(n)
  PROVE  CInv'
<1>0. n \in Actors /\ proc[n] \in Procs /\ wf \in Rows /\ child \in [Steps -> {"none", "active"} \cup Outcome]
  BY ActorFacts DEF IInv, TypeOK
<1>1. /\ \A b \in Actors : b # n => proc'[b] = proc[b]
      /\ child' = child \/ LaunchChild(n)
  BY WorkerEffect
<1>2. /\ \/ wf' = wf
         \/ /\ wf.term # "cancelled" /\ wf'.term # "cancelled"
            /\ wf'.status # "cancellation_pending"
      /\ proc'[n].pc \in LaunchingPCs =>
           \/ proc[n].pc \in LaunchingPCs /\ proc'[n].step = proc[n].step
           \/ wf'.term # "cancelled"
  BY WorkerEffect
<1>3. Cancelling' => Cancelling /\ wf' = wf BY <1>2 DEF Cancelling
<1>4. ASSUME LaunchChild(n)
      PROVE  /\ child' = child \/ child' = [child EXCEPT ![proc[n].step] = "active"]
             /\ proc[n].step \in Steps \ Local
             /\ child[proc[n].step] = "none"
             /\ proc[n].pc = "launch"
             /\ wf.status \notin Terminal => wf.active = proc[n].step
  <2>1. proc[n].pc = "launch" BY <1>4 DEF LaunchChild, At
  <2>2. proc[n].step \in Steps /\ proc[n].step \notin Local
    BY <1>0, <2>1 DEF IInv, ActorOK, ControlOK, StepPCs
  <2>3. /\ starts[proc[n].step].launched = 0
        /\ wf.status \notin Terminal => wf.active = proc[n].step
    BY <2>1, <2>2 DEF IInv, WorkerOK, ChildOK, LaunchingPCs
  <2>4. child[proc[n].step] = "none" BY <2>2, <2>3 DEF IInv, StepOK
  <2> QED BY <1>4, <2>1, <2>2, <2>3, <2>4 DEF LaunchChild
<1>5. Cancelling => wf.status \notin Terminal BY DEF Cancelling, Terminal, Outcome
<1>6. Cancelling' /\ ActiveStopped => ActiveStopped'
  <2>1. CASE child' = child BY <1>3, <2>1 DEF ActiveStopped
  <2>2. CASE LaunchChild(n)
    <3>1. Cancelling => ~ActiveStopped
      <4>1. "none" \notin Outcome /\ 0 \notin Steps BY DEF Outcome, Steps
      <4> QED BY <1>4, <1>5, <2>2, <4>1 DEF ActiveStopped
    <3> QED BY <1>3, <3>1
  <2> QED BY <1>1, <2>1, <2>2
<1>7. \A b \in Clients \cup {Server} : proc'[b] = proc[b] BY <1>1, ActorFacts
<1>8. \A k \in Clients : ClientOK(k)' BY <1>3, <1>7 DEF CInv, ClientOK, Cancelling
<1>9. StoppedOK'
  <2>1. wf'.term = "cancelled" => wf.term = "cancelled" BY <1>2
  <2>2. wf.term = "cancelled" => ~LaunchChild(n) BY <1>4 DEF CInv, StoppedOK, LaunchingPCs
  <2>3. wf.term = "cancelled" => child' = child BY <1>1, <2>2
  <2>4. ASSUME wf.term = "cancelled", NEW m \in Leases, proc'[m].pc \in LaunchingPCs
        PROVE  proc[m].pc \in LaunchingPCs /\ proc'[m].step = proc[m].step
    <3>1. CASE m = n BY <1>2, <2>4, <3>1
    <3>2. CASE m # n BY <1>1, <2>4, <3>2, ActorFacts
    <3> QED BY <3>1, <3>2
  <2> QED BY <2>1, <2>3, <2>4, StoppedKept
<1> QED BY <1>3, <1>6, <1>7, <1>8, <1>9, CKept

\* What the row operations outside cancellation do to it: the row stays, or it is
\* neither being cancelled nor newly reported as cancelled afterwards.
Unrelated(new) ==
    \/ new = wf
    \/ /\ new.status # "cancellation_pending"
       /\ new.term = "cancelled" => wf.term = "cancelled"

\* The same when one actor moves.
LEMMA CMovedTo ==
  ASSUME CInv, NEW a \in Actors, child' = child, Unrelated(wf'),
         NEW pc, NEW row, NEW s, NEW out, MovedTo(a, pc, row, s, out),
         pc \notin CancelPCs \cup LaunchingPCs,
         a \in Clients => proc[Server].pc = "ready",
         a = Server => proc[Server].pc # "ready"
  PROVE  CInv'
<1>1. \A b \in Actors : b # a => proc'[b] = proc[b] BY DEF MovedTo
<1>2. proc'[a].pc \notin CancelPCs \cup LaunchingPCs BY DEF MovedTo
<1>3. Cancelling' => Cancelling /\ wf'.active = wf.active BY DEF Unrelated, Cancelling
<1>4. wf'.term = "cancelled" => wf.term = "cancelled" BY DEF Unrelated
<1> QED BY <1>1, <1>2, <1>3, <1>4, CMoved

\* Creating the workflow and launching its worker.
LEMMA CLaunch ==
  ASSUME IInv, CInv, CreateWorkflow \/ \E a \in {Starter, Server} : LaunchStep(a)
  PROVE  CInv'
<1>0. /\ Starter \in Actors /\ Server \in Actors /\ Starter \notin Clients /\ Server \notin Clients
      /\ Starter # Server /\ Starter \notin Leases /\ Server \notin Leases
      /\ wf \in Rows /\ proc \in [Actors -> Procs]
      /\ Rest(Starter) = "done" /\ Rest(Server) = "ready"
  BY ActorFacts DEF IInv, TypeOK, Rest
<1>1. \A pc \in {"spawn", "record", "again", "event", "fail", "failing", "publish", "done", "ready"} :
        pc \notin CancelPCs \cup LaunchingPCs
  BY DEF CancelPCs, LaunchingPCs
<1>2. CASE CreateWorkflow
  <2>1. NewRow \in Rows /\ NewRow.status = "queued" /\ NewRow.term = "none"
    BY NewRowOK DEF RowOK, Terminal, Outcome
  <2>2. "spawn" \in PCs BY DEF PCs
  <2>3. Unrelated(wf') /\ child' = child BY <1>2, <2>1 DEF CreateWorkflow, Unrelated
  <2>4. \/ MovedTo(Starter, "spawn", NewRow, proc[Starter].step, proc[Starter].out)
        \/ MovedTo(Starter, "done", NoRow, 0, "none")
    BY <1>0, <1>2, <2>1, <2>2, GotoRowMoves, NamedMovements DEF CreateWorkflow
  <2> QED BY <1>0, <1>1, <2>3, <2>4, CMovedTo
<1>3. ASSUME NEW a \in {Starter, Server}, LaunchStep(a) PROVE CInv'
  <2>0. a \in Actors /\ a \notin Leases /\ a \notin Clients /\ proc[a] \in Procs BY <1>0
  <2>1. /\ child' = child
        /\ proc[a].pc \in {"spawn", "record", "again", "event", "fail", "failing"}
    BY <1>3 DEF LaunchStep, SpawnWorker, RecordLaunch, LaunchEvent, FailRead, FailWrite, At
  <2>2. a = Server => proc[Server].pc # "ready" BY <2>1
  <2>3. ASSUME Unrelated(wf'), NEW pc, NEW row, NEW s, NEW out, MovedTo(a, pc, row, s, out),
               pc \in {"spawn", "record", "again", "event", "fail", "failing", "publish", "done", "ready"}
        PROVE  CInv'
    BY <1>1, <2>0, <2>1, <2>2, <2>3, CMovedTo
  <2>4. "fail" \in PCs /\ "event" \in PCs /\ "again" \in PCs /\ "failing" \in PCs
        /\ Rest(a) \in Outs /\ Rest(a) \in {"done", "ready"}
    BY <1>0 DEF PCs, Outs
  <2>5. /\ End(a) => MovedTo(a, Rest(a), NoRow, 0, "none")
        /\ Publish(a, Rest(a)) => MovedTo(a, "publish", NoRow, 0, Rest(a))
    BY <1>0, <2>4, NamedMovements
  <2>6. ASSUME NEW pc \in {"fail", "event"}, Goto(a, pc)
        PROVE  MovedTo(a, pc, proc[a].row, proc[a].step, proc[a].out)
    BY <1>0, <2>4, <2>6, GotoMoves
  <2>7. ASSUME NEW pc \in {"again", "failing"}, GotoRow(a, pc, wf)
        PROVE  MovedTo(a, pc, wf, proc[a].step, proc[a].out)
    BY <1>0, <2>4, <2>7, GotoRowMoves
  <2>8. CASE SpawnWorker(a)
    <3>1. wf' = wf BY <2>8 DEF SpawnWorker
    <3>2. CASE Goto(a, "fail") BY <2>3, <2>6, <3>1, <3>2 DEF Unrelated
    <3>3. CASE proc' = [proc EXCEPT ![a].pc = "record",
                               ![proc[a].row.lease] = [Idle EXCEPT !.pc = "boot"]]
      <4>1. PICK n \in Leases : n = proc[a].row.lease
        BY <2>0, <2>8, ActorAt DEF RowOK, ControlOK, SpawnWorker, At, ReadPCs
      <4>2. n \in Actors /\ n # a BY <2>0, ActorFacts
      <4>3. /\ proc'[a].pc = "record" /\ proc'[n].pc = "boot"
            /\ \A b \in Actors : b # a /\ b # n => proc'[b] = proc[b]
        <5>1. proc' = [[proc EXCEPT ![a] = [proc[a] EXCEPT !.pc = "record"]]
                          EXCEPT ![n] = [Idle EXCEPT !.pc = "boot"]]
          BY <3>3, <4>1
        <5>2. [proc[a] EXCEPT !.pc = "record"].pc = "record" BY <2>0 DEF Procs
        <5>3. [Idle EXCEPT !.pc = "boot"].pc = "boot" BY DEF Idle
        <5> QED BY <1>0, <2>0, <4>2, <5>1, <5>2, <5>3
      <4>4. "boot" \notin LaunchingPCs /\ "record" \notin CancelPCs \cup LaunchingPCs
        BY DEF LaunchingPCs, CancelPCs
      <4>5. \A b \in Actors : b # a => \/ proc'[b] = proc[b]
                                       \/ b \in Leases /\ proc'[b].pc \notin LaunchingPCs
        BY <4>3, <4>4
      <4>6. Cancelling' => Cancelling /\ wf'.active = wf.active BY <3>1 DEF Cancelling
      <4> QED BY <2>0, <2>1, <2>2, <3>1, <4>3, <4>4, <4>5, <4>6, CMoved
    <3> QED BY <2>8, <3>2, <3>3 DEF SpawnWorker
  <2>9. CASE RecordLaunch(a)
    <3>1. PICK n \in Leases : n = proc[a].row.lease
      BY <2>0, <2>9, ActorAt DEF RowOK, ControlOK, RecordLaunch, ReadPCs
    <3>2. Unrelated(wf')
      <4>1. \A mark \in ReadMarks : Held(wf, n) => /\ Launched(wf, mark).status # "cancellation_pending"
                                                   /\ Launched(wf, mark).term = wf.term
        BY <1>0 DEF Held, Launched, Bump, Rows
      <4> QED BY <2>9, <3>1, <4>1 DEF RecordLaunch, Unrelated
    <3>3. Goto(a, "event") \/ GotoRow(a, "again", wf) \/ Abandon(a, n)
      BY <2>9, <3>1 DEF RecordLaunch
    <3>4. CASE Goto(a, "event") \/ GotoRow(a, "again", wf) BY <2>3, <2>6, <2>7, <3>2, <3>4
    <3>5. CASE Abandon(a, n)
      <4>1. n \in Actors /\ n # a /\ "exited" \notin LaunchingPCs
        BY <2>0, ActorFacts DEF LaunchingPCs
      <4>2. \A b \in Actors : b # a => \/ proc'[b] = proc[b]
                                       \/ b \in Leases /\ proc'[b] = Finished(b)
        BY <1>0, <2>0, <3>5, <4>1 DEF Abandon
      <4>3. \A b \in Leases : Finished(b).pc = "exited" BY Ends DEF Finished, Idle
      <4>4. proc'[a].pc \in {"ready", "fail"}
        <5>1. Finished(Server).pc = "ready" BY <1>0 DEF Finished, Idle
        <5>2. [proc[a] EXCEPT !.pc = "fail"].pc = "fail" BY <2>0 DEF Procs
        <5> HIDE DEF Finished
        <5>3. PICK q : proc' = [[proc EXCEPT ![n] = q] EXCEPT
                         ![a] = IF a = Server THEN Finished(a) ELSE [proc[a] EXCEPT !.pc = "fail"]]
          BY <1>0, <2>0, <3>5, <4>1 DEF Abandon
        <5> QED BY <1>0, <2>0, <5>1, <5>2, <5>3
      <4>5. proc'[a].pc \notin CancelPCs \cup LaunchingPCs BY <1>1, <4>4
      <4>6. /\ Cancelling' => Cancelling /\ wf'.active = wf.active
            /\ wf'.term = "cancelled" => wf.term = "cancelled"
        BY <3>2 DEF Cancelling, Unrelated
      <4>7. \A b \in Actors : b # a => \/ proc'[b] = proc[b]
                                       \/ b \in Leases /\ proc'[b].pc \notin LaunchingPCs
        BY <4>1, <4>2, <4>3
      <4> QED BY <2>0, <2>1, <2>2, <4>5, <4>6, <4>7, CMoved
    <3> QED BY <3>3, <3>4, <3>5
  <2>10. CASE LaunchEvent(a) \/ FailRead(a) \/ FailWrite(a)
    <3>1. Unrelated(wf')
      <4>1. ToFailed(wf).status = "failed" /\ ToFailed(wf).term = "failed"
        BY <1>0 DEF ToFailed, Bump, Rows
      <4> QED BY <2>10, <4>1 DEF LaunchEvent, FailRead, FailWrite, Unrelated
    <3>2. End(a) \/ Goto(a, "fail") \/ GotoRow(a, "failing", wf) \/ Publish(a, Rest(a))
      BY <2>10 DEF LaunchEvent, FailRead, FailWrite
    <3> QED BY <2>3, <2>4, <2>5, <2>6, <2>7, <3>1, <3>2
  <2> QED BY <1>3, <2>8, <2>9, <2>10 DEF LaunchStep
<1> QED BY <1>2, <1>3

\* Publication, by any actor.
LEMMA CPublish ==
  ASSUME IInv, CInv, NEW a \in Actors, PublishStep(a) PROVE CInv'
<1>0. wf \in Rows /\ proc \in [Actors -> Procs] /\ proc[a].row \in Rows BY ActorAt
<1>1. /\ proc[a].pc \in {"publish", "begin", "report"}
      /\ proc[a].out \in {"exited", "done", "ready", "loop"}
      /\ proc[a].pc # "publish" => proc[a].row.status \in Terminal
      /\ child' = child
  BY ActorAt DEF PublishStep, PublishRead, PublishBegin, PublishReport, At, ControlOK
<1>2. a = Server => proc[Server].pc # "ready" BY <1>1
<1>3. a \in Clients => proc[Server].pc = "ready" BY <1>1 DEF CInv, ClientOK
<1>4. "cancellation_pending" \notin Terminal BY DEF Terminal, Outcome
<1>5. Unrelated(wf')
  <2>1. \A x \in {"publishing", "failed"} : /\ [Bump(wf) EXCEPT !.pub = x].status = wf.status
                                            /\ [Bump(wf) EXCEPT !.pub = x].term = wf.term
    BY <1>0 DEF Bump, Rows
  <2>2. /\ [Bump(wf) EXCEPT !.status = "reported", !.pub = "published"].status = "reported"
        /\ [Bump(wf) EXCEPT !.status = "reported", !.pub = "published"].term = wf.term
    BY <1>0 DEF Bump, Rows
  <2>3. CASE PublishRead(a) BY <2>3 DEF PublishRead, Unrelated
  <2>4. CASE PublishBegin(a) BY <1>1, <1>4, <2>1, <2>4 DEF PublishBegin, At, Unrelated
  <2>5. CASE PublishReport(a)
    BY <1>1, <1>4, <2>1, <2>2, <2>5 DEF PublishReport, ReportOutcomes, At, Unrelated
  <2> QED BY <2>3, <2>4, <2>5 DEF PublishStep
<1>6. \E pc \in {"exited", "done", "ready", "loop", "begin", "report"} : \E row, s, out :
        MovedTo(a, pc, row, s, out)
  <2>1. proc[a].out \in PCs /\ "begin" \in PCs /\ "report" \in PCs BY <1>1 DEF PCs
  <2>2. Back(a) => MovedTo(a, proc[a].out, NoRow, 0, "none") BY <1>0, <2>1, NamedMovements
  <2>3. ASSUME NEW pc \in {"begin", "report"}, NEW row \in Rows, GotoRow(a, pc, row)
        PROVE  MovedTo(a, pc, row, proc[a].step, proc[a].out)
    BY <1>0, <2>1, <2>3, GotoRowMoves
  <2>4. PICK new \in Rows : new = [Bump(wf) EXCEPT !.pub = "publishing"] BY <1>0, RowOpTypes, Zenon
  <2>5. Back(a) \/ GotoRow(a, "begin", wf) \/ GotoRow(a, "report", new)
    BY <2>4 DEF PublishStep, PublishRead, PublishBegin, PublishReport
  <2> QED BY <1>0, <1>1, <2>2, <2>3, <2>5
<1>7. \A pc \in {"exited", "done", "ready", "loop", "begin", "report"} :
        pc \notin CancelPCs \cup LaunchingPCs
  BY DEF CancelPCs, LaunchingPCs
<1> QED BY <1>1, <1>2, <1>3, <1>5, <1>6, <1>7, CMovedTo

\* Crash, restart and reconciliation: a canceller that died left the request in the
\* row, and the reconciler takes it up with the row as it is.
LEMMA CRestart ==
  ASSUME IInv, CInv, ReconcileStep \/ ServerCrash PROVE CInv'
<1>0. /\ Server \in Actors /\ Server \notin Clients /\ Server \notin Leases
      /\ wf \in Rows /\ proc \in [Actors -> Procs] /\ Rest(Server) = "ready"
  BY ActorFacts DEF IInv, TypeOK, Rest
<1>1. \A pc \in {"spawn", "publish", "ready", "listed"} : pc \notin CancelPCs \cup LaunchingPCs
  BY DEF CancelPCs, LaunchingPCs
<1>2. ASSUME proc[Server].pc # "ready", child' = child, Unrelated(wf'),
             NEW pc \in {"spawn", "publish", "ready", "listed"}, NEW row, NEW s, NEW out,
             MovedTo(Server, pc, row, s, out)
      PROVE  CInv'
  BY <1>0, <1>1, <1>2, CMovedTo
<1>3. /\ End(Server) => MovedTo(Server, "ready", NoRow, 0, "none")
      /\ Publish(Server, "ready") => MovedTo(Server, "publish", NoRow, 0, "ready")
  <2>1. "ready" \in Outs BY DEF Outs
  <2> QED BY <1>0, <2>1, NamedMovements
<1>4. ASSUME NEW row \in Rows, GotoRow(Server, "spawn", row)
      PROVE  MovedTo(Server, "spawn", row, proc[Server].step, proc[Server].out)
  <2>1. "spawn" \in PCs BY DEF PCs
  <2> QED BY <1>0, <1>4, <2>1, GotoRowMoves
<1>5. CASE ReconcileAdopt \/ ReconcileHold \/ ReconcileExhausted \/ ReconcileReserve
  <2>1. InHand /\ child' = child
    BY <1>5 DEF ReconcileAdopt, ReconcileHold, ReconcileExhausted, ReconcileReserve,
      NobodyRuns, Sound
  <2>2. proc[Server].pc # "ready" BY <2>1 DEF InHand, At
  <2>3. MatchesOpen(Listed) => wf.status \in {"queued", "running"} BY <2>1, ListedIsRow
  <2>4. /\ Bump(wf).status = wf.status /\ Bump(wf).term = wf.term
        /\ ToRecovery(wf).status = "recovery_pending" /\ ToRecovery(wf).term = wf.term
        /\ ToFailed(wf).status = "failed" /\ ToFailed(wf).term = "failed"
        /\ Reserved(wf).status = "queued" /\ Reserved(wf).term = wf.term
    BY <1>0 DEF Bump, ToRecovery, ToFailed, Reserved, Rows
  <2>5. Unrelated(wf')
    <3>1. CASE ReconcileAdopt BY <2>3, <2>4, <3>1 DEF ReconcileAdopt, Unrelated
    <3>2. CASE ReconcileHold BY <2>3, <2>4, <3>2 DEF ReconcileHold, Unrelated
    <3>3. CASE ReconcileExhausted BY <2>4, <3>3 DEF ReconcileExhausted, Unrelated
    <3>4. CASE ReconcileReserve BY <2>4, <3>4 DEF ReconcileReserve, Unrelated
    <3> QED BY <1>5, <3>1, <3>2, <3>3, <3>4
  <2>6. End(Server) \/ Publish(Server, "ready") \/ (GotoRow(Server, "spawn", wf') /\ wf' = Reserved(wf))
    BY <1>5 DEF ReconcileAdopt, ReconcileHold, ReconcileExhausted, ReconcileReserve
  <2>7. wf' \in Rows BY <1>5, ReconcileSteps, ReserveStep DEF IInv, TypeOK
  <2> QED BY <1>2, <1>3, <1>4, <2>1, <2>2, <2>5, <2>6, <2>7
<1>6. CASE ServerRestart
  <2>1. proc[Server].pc # "ready" /\ child' = child /\ wf' = wf BY <1>6 DEF ServerRestart, At
  <2>2. CASE End(Server) \/ Publish(Server, "ready") BY <1>2, <1>3, <2>1, <2>2 DEF Unrelated
  <2>3. CASE proc' = [proc EXCEPT ![Server] =
                        [pc |-> "listed", row |-> wf, step |-> 0,
                         out |-> IF OwnershipProblem THEN "recover" ELSE "none"]]
    <3>1. PICK out \in Outs : out = IF OwnershipProblem THEN "recover" ELSE "none" BY DEF Outs
    <3>2. GotoStep(Server, "listed", 0, out) BY <2>3, <3>1 DEF GotoStep
    <3>3. "listed" \in PCs /\ 0 \in {0} \cup Steps BY DEF PCs
    <3>4. MovedTo(Server, "listed", wf, 0, out) BY <1>0, <3>2, <3>3, GotoStepMoves
    <3> QED BY <1>2, <2>1, <3>4 DEF Unrelated
  <2>4. CASE wf.status = "cancellation_pending" /\ GotoRow(Server, "stopchild", wf)
    <3>1. "stopchild" \in PCs BY DEF PCs
    <3>2. MovedTo(Server, "stopchild", wf, proc[Server].step, proc[Server].out)
      BY <1>0, <2>4, <3>1, GotoRowMoves
    <3>3. /\ \A b \in Actors : b # Server => proc'[b] = proc[b]
          /\ proc'[Server].pc = "stopchild" /\ proc'[Server].row = wf
      BY <3>2 DEF MovedTo
    <3>4. CancellerOK(Server)' BY <2>1, <2>4, <3>3 DEF CancellerOK
    <3>5. \A k \in Clients : proc'[k] = proc[k] BY <1>0, <3>3, ActorFacts
    <3>6. \A k \in Clients : ClientOK(k)' BY <2>1, <3>5 DEF CInv, ClientOK, Cancelling
    <3>7. \A n \in Leases : proc'[n] = proc[n] BY <1>0, <3>3, ActorFacts
    <3>8. StoppedOK' BY <2>1, <3>7, StoppedKept
    <3>9. Cancelling' => Cancelling /\ wf'.active = wf.active /\ (ActiveStopped => ActiveStopped')
      BY <2>1 DEF Cancelling, ActiveStopped
    <3> QED BY <3>4, <3>5, <3>6, <3>8, <3>9, CKept
  <2> QED BY <1>6, <2>2, <2>3, <2>4 DEF ServerRestart
<1>7. CASE ServerCrash
  <2>1. wf' = wf /\ child' = child BY <1>7 DEF ServerCrash
  <2>2. /\ \A n \in Leases : proc'[n] = proc[n]
        /\ proc'[Server].pc = "down"
        /\ \A k \in Clients : IF proc[k].pc = "idle" THEN proc'[k] = proc[k] ELSE proc'[k].pc = "done"
    <3>1. [Idle EXCEPT !.pc = "down"].pc = "down" BY DEF Idle
    <3>2. \A k \in Clients : Finished(k).pc = "done" BY ActorFacts DEF Finished, Rest, Idle
    <3> QED BY <1>7, <3>1, <3>2, ActorFacts DEF ServerCrash, At
  <2>3. CancellerOK(Server)' BY <2>2 DEF CancellerOK
  <2>4. ASSUME NEW k \in Clients PROVE ClientOK(k)' /\ (proc'[k] = proc[k] \/ CancellerOK(k)')
    <3>1. CASE proc[k].pc = "idle" BY <2>1, <2>2, <3>1 DEF CInv, ClientOK, Cancelling
    <3>2. CASE proc[k].pc # "idle" BY <2>2, <3>2 DEF ClientOK, CancellerOK
    <3> QED BY <3>1, <3>2
  <2>5. StoppedOK' BY <2>1, <2>2, StoppedKept
  <2>6. Cancelling' => Cancelling /\ wf'.active = wf.active /\ (ActiveStopped => ActiveStopped')
    BY <2>1 DEF Cancelling, ActiveStopped
  <2> QED BY <2>3, <2>4, <2>5, <2>6, CKept
<1> QED BY <1>5, <1>6, <1>7 DEF ReconcileStep

\* A step that ends children and moves one canceller.
LEMMA CEnds ==
  ASSUME CInv, wf' = wf, NEW a \in Clients \cup {Server},
         \A b \in Actors : b # a => \/ proc'[b] = proc[b]
                                    \/ b \in Leases /\ proc'[b].pc \notin LaunchingPCs,
         proc'[a].pc \notin {"idle", "request"},
         a \in Clients => proc[Server].pc = "ready",
         a = Server => proc[Server].pc # "ready",
         CancellerOK(a)',
         \A s \in Steps : \/ child'[s] = child[s]
                          \/ child[s] = "active" /\ child'[s] \in Outcome,
         wf \in Rows
  PROVE  CInv'
<1>1. \A b \in Clients \cup {Server} : b \in Actors /\ b \notin Leases BY ActorFacts
<1>2. ActiveStopped => ActiveStopped'
  <2>1. wf.active \in {0} \cup Steps BY DEF Rows
  <2> QED BY <2>1 DEF ActiveStopped
<1>3. \A b \in Clients \cup {Server} : proc'[b] = proc[b] \/ CancellerOK(b)' BY <1>1
<1>4. ASSUME NEW k \in Clients PROVE ClientOK(k)'
  <2>1. CASE k = a BY <1>1, <2>1, ActorFacts DEF CInv, ClientOK
  <2>2. CASE k # a /\ a = Server BY <1>1, <2>2, ActorFacts DEF CInv, ClientOK, Cancelling
  <2>3. CASE k # a /\ a # Server BY <1>1, <2>3, ActorFacts DEF CInv, ClientOK, Cancelling
  <2> QED BY <2>1, <2>2, <2>3
<1>5. StoppedOK'
  <2>1. \A n \in Leases : proc'[n].pc \in LaunchingPCs => proc'[n] = proc[n] BY <1>1, ActorFacts
  <2>2. "active" \notin Outcome BY DEF Outcome
  <2>3. \A s \in Steps : child'[s] = "active" => child[s] = "active" BY <2>2
  <2> QED BY <2>1, <2>3, StoppedKept
<1>6. Cancelling' => Cancelling BY DEF Cancelling
<1> QED BY <1>2, <1>3, <1>4, <1>5, <1>6, CKept

\* A child run that ends stays ended.
LEMMA CChildExit ==
  ASSUME IInv, CInv, NEW s \in Steps, ChildExit(s) PROVE CInv'
<1>1. wf' = wf /\ proc' = proc BY DEF ChildExit
<1>2. PICK out \in Outcomes : child' = [child EXCEPT ![s] = out] BY DEF ChildExit
<1>3. out \in Outcome /\ out # "active" BY OutcomesAssumption DEF Outcome
<1>4. child \in [Steps -> {"none", "active"} \cup Outcome] /\ wf \in Rows BY DEF IInv, TypeOK
<1>5. ActiveStopped => ActiveStopped' BY <1>1, <1>2, <1>3, <1>4 DEF ActiveStopped, Rows
<1>6. \A k \in Clients : ClientOK(k)' BY <1>1 DEF CInv, ClientOK, Cancelling
<1>7. StoppedOK'
  <2>1. \A t \in Steps : child'[t] = "active" => child[t] = "active" BY <1>2, <1>3, <1>4
  <2> QED BY <1>1, <2>1, StoppedKept
<1>8. Cancelling' => Cancelling BY <1>1 DEF Cancelling
<1> QED BY <1>1, <1>5, <1>6, <1>7, <1>8, CKept

\* One client at most: while it waits to request a cancellation nobody else cancels.
LEMMA CRequest ==
  ASSUME IInv, CInv, NumClients <= 1, NEW k \in Clients, CancelRead(k) \/ RequestCancel(k)
  PROVE  CInv'
<1>0. /\ k \in Actors /\ k # Server /\ k \notin Leases /\ wf \in Rows /\ proc \in [Actors -> Procs]
      /\ Rest(k) = "done" /\ proc[k].row \in Rows /\ child' = child
  <2>1. k \in Actors /\ k # Server /\ k \notin Leases BY ActorFacts
  <2> QED BY <2>1, ActorAt DEF Rest, CancelRead, RequestCancel
<1>1. \A b \in Clients \cup {Server} : b = k \/ b = Server BY BoundsAssumption DEF Clients
<1>2. proc[Server].pc = "ready" /\ ~Cancelling /\ proc[k].pc \in {"idle", "request"}
  BY DEF CancelRead, RequestCancel, At, Ready, CInv, ClientOK
<1>3. ASSUME End(k), wf' = wf PROVE CInv'
  <2>1. MovedTo(k, "done", NoRow, 0, "none") BY <1>0, <1>3, NamedMovements
  <2>2. "done" \notin CancelPCs \cup LaunchingPCs BY DEF CancelPCs, LaunchingPCs
  <2> QED BY <1>0, <1>2, <1>3, <2>1, <2>2, CMovedTo DEF Unrelated
<1>4. ASSUME NEW pc \in {"request", "stopchild"}, GotoRow(k, pc, wf'), wf' \in Rows,
             wf'.term = wf.term, pc = "request" => ~Cancelling'
      PROVE  CInv'
  <2>1. pc \in PCs BY DEF PCs
  <2>2. MovedTo(k, pc, wf', proc[k].step, proc[k].out) BY <1>0, <1>4, <2>1, GotoRowMoves
  <2>3. /\ \A b \in Actors : b # k => proc'[b] = proc[b]
        /\ proc'[k].pc = pc /\ proc'[k].row = wf'
    BY <2>2 DEF MovedTo
  <2>4. proc'[Server].pc = "ready" BY <1>0, <1>2, <2>3, ActorFacts
  <2>5. CancellerOK(k)' /\ CancellerOK(Server)' BY <2>3, <2>4 DEF CancellerOK, Cancelling
  <2>6. ClientOK(k)' BY <1>4, <2>3, <2>4 DEF ClientOK
  <2>7. StoppedOK'
    <3>1. \A n \in Leases : proc'[n] = proc[n] BY <1>0, <2>3, ActorFacts
    <3> QED BY <1>0, <1>4, <3>1, StoppedKept
  <2> QED BY <1>1, <2>5, <2>6, <2>7, ActorFacts DEF CInv
<1>5. CASE CancelRead(k)
  <2>1. wf' = wf /\ (End(k) \/ GotoRow(k, "request", wf) \/ GotoRow(k, "stopchild", wf))
    BY <1>5 DEF CancelRead
  <2>2. ~Cancelling' BY <1>2, <2>1 DEF Cancelling
  <2> QED BY <1>0, <1>3, <1>4, <2>1, <2>2
<1>6. CASE RequestCancel(k)
  <2>1. GotoRow(k, "stopchild", wf') /\ (wf' = wf \/ wf' = ToCancelling(wf))
    BY <1>6 DEF RequestCancel
  <2>2. ToCancelling(wf) \in Rows /\ ToCancelling(wf).term = wf.term
    BY <1>0, RowOpTypes DEF ToCancelling, Bump, Rows
  <2> QED BY <1>0, <1>4, <2>1, <2>2
<1> QED BY <1>5, <1>6

\* What a cancellation found is what it acts on: the active child cannot change under
\* it, so when it is closed nothing runs.
LEMMA CCancel ==
  ASSUME IInv, CInv, NEW a \in Clients \cup {Server}, CancelStep(a)
  PROVE  CInv'
<1>0. /\ a \in Actors /\ a \notin Leases /\ wf \in Rows /\ proc \in [Actors -> Procs]
      /\ proc[a] \in Procs /\ proc[a].row \in Rows
      /\ child \in [Steps -> {"none", "active"} \cup Outcome]
  <2>1. a \in Actors /\ a \notin Leases BY ActorFacts
  <2> QED BY <2>1, ActorAt DEF IInv, TypeOK
<1>1. proc[a].pc \in {"stopchild", "stopworker", "retry", "confirm", "finalize"}
  BY DEF CancelStep, StopChild, StopWorker, MarkRetry, ConfirmRead, FinalizeCancel, At
<1>2. /\ a = Server => proc[Server].pc # "ready"
      /\ a \in Clients => proc[Server].pc = "ready"
  BY <1>1 DEF CInv, ClientOK
<1>3. Rest(a) \in {"done", "ready"} /\ Rest(a) \in Outs BY <1>0 DEF Rest, Outs
<1>4. /\ End(a) => MovedTo(a, Rest(a), NoRow, 0, "none")
      /\ Publish(a, Rest(a)) => MovedTo(a, "publish", NoRow, 0, Rest(a))
  BY <1>0, <1>3, NamedMovements
<1>5. \A pc \in {"done", "ready", "publish"} : pc \notin CancelPCs \cup LaunchingPCs
  BY DEF CancelPCs, LaunchingPCs
<1>6. CASE StopChild(a)
  <2>1. wf' = wf /\ proc[a].pc = "stopchild" BY <1>6 DEF StopChild, At
  <2>2. Cancelling => proc[a].row.active = wf.active BY <2>1 DEF CInv, CancellerOK
  <2>3. "stopworker" \in PCs /\ "stopworker" \notin {"idle", "request"} BY DEF PCs
  <2>4. CASE proc[a].row.active = 0 /\ Goto(a, "stopworker") /\ child' = child
    <3>1. MovedTo(a, "stopworker", proc[a].row, proc[a].step, proc[a].out)
      BY <1>0, <2>3, <2>4, GotoMoves
    <3>2. /\ \A b \in Actors : b # a => proc'[b] = proc[b]
          /\ proc'[a].pc = "stopworker"
      BY <3>1 DEF MovedTo
    <3>3. CancellerOK(a)' BY <2>1, <2>2, <2>4, <3>2 DEF CancellerOK, ActiveStopped, Cancelling
    <3> QED BY <1>0, <1>2, <2>1, <2>3, <2>4, <3>2, <3>3, CEnds
  <2>5. ASSUME NEW s \in Steps, s = proc[a].row.active, NEW c \in Cancellation(child[s]),
               child' = [child EXCEPT ![s] = c],
               proc' = [proc EXCEPT ![a].pc = "stopworker", ![a].out = ChildReason(c)]
        PROVE  CInv'
    <3>1. c = child[s] \/ (child[s] = "active" /\ c = "cancelled") BY DEF Cancellation
    <3>2. PICK out \in Outs : out = ChildReason(c) BY DEF Outs, ChildReason
    <3>3. MovedTo(a, "stopworker", proc[a].row, proc[a].step, out)
      BY <1>0, <2>3, <2>5, <3>2, GotoOutMoves
    <3>4. /\ \A b \in Actors : b # a => proc'[b] = proc[b]
          /\ proc'[a].pc = "stopworker" /\ proc'[a].out = out
      BY <3>3 DEF MovedTo
    <3>5. out # "retry" => child'[s] \in Outcome BY <1>0, <2>5, <3>2 DEF ChildReason
    <3>6. CancellerOK(a)' BY <2>1, <2>2, <2>5, <3>4, <3>5 DEF CancellerOK, ActiveStopped, Cancelling
    <3>7. \A t \in Steps : \/ child'[t] = child[t]
                           \/ child[t] = "active" /\ child'[t] \in Outcome
      BY <1>0, <2>5, <3>1, Literals
    <3> QED BY <1>0, <1>2, <2>1, <2>3, <3>4, <3>6, <3>7, CEnds
  <2>6. proc[a].row.active \in {0} \cup Steps BY <1>0 DEF Rows
  <2> QED BY <1>6, <2>4, <2>5, <2>6 DEF StopChild
<1>7. CASE StopWorker(a)
  <2>1. wf' = wf /\ child' = child /\ proc[a].pc = "stopworker" BY <1>7 DEF StopWorker, At
  <2> DEFINE n == proc[a].row.lease
             W == IdentityState(n, proc[a].row.wpid)
             L == IdentityState(n, proc[a].row.lpid)
             attempt == "active" \in {W, L}
             unsure == W = "uncertain" \/ (W = "absent" /\ L = "uncertain")
  <2>2. attempt => n \in Leases BY DEF IdentityState, Alive
  <2>3. \A m \in Leases : Finished(m).pc = "exited" BY Ends DEF Finished, Idle
  <2> HIDE DEF n, W, L
  <2>4. PICK killed \in KillOutcomes :
          LET reason == proc[a].out = "retry" \/ unsure \/ (attempt /\ ~killed)
          IN  proc' = [x \in Actors |->
                IF x = a THEN [proc[a] EXCEPT !.pc = IF reason THEN "retry" ELSE "confirm"]
                ELSE IF x = n /\ attempt /\ killed THEN Finished(n) ELSE proc[x]]
    BY <1>7 DEF StopWorker, n, W, L
  <2> HIDE DEF attempt, unsure
  <2>5. /\ proc'[a].pc \in {"retry", "confirm"}
        /\ proc'[a].pc = "confirm" => proc[a].out # "retry"
    <3> DEFINE reason == proc[a].out = "retry" \/ unsure \/ (attempt /\ ~killed)
    <3>1. proc'[a] = [proc[a] EXCEPT !.pc = IF reason THEN "retry" ELSE "confirm"] BY <1>0, <2>4
    <3>2. proc'[a].pc = IF reason THEN "retry" ELSE "confirm" BY <1>0, <3>1 DEF Procs
    <3> QED BY <3>2
  <2>6. \A b \in Actors : b # a => \/ proc'[b] = proc[b]
                                   \/ b \in Leases /\ proc'[b].pc \notin LaunchingPCs
    <3>1. "exited" \notin LaunchingPCs BY DEF LaunchingPCs
    <3> QED BY <1>0, <2>2, <2>3, <2>4, <3>1
  <2>7. CancellerOK(a)' BY <2>1, <2>5 DEF CInv, CancellerOK, ActiveStopped, Cancelling
  <2>8. proc'[a].pc \notin {"idle", "request"} BY <2>5
  <2> QED BY <1>0, <1>2, <2>1, <2>6, <2>7, <2>8, CEnds
<1>8. CASE MarkRetry(a)
  <2>1. /\ child' = child /\ End(a) /\ (wf' = wf \/ wf' = Bump(wf)) BY <1>8 DEF MarkRetry
  <2>2. Bump(wf).status = wf.status /\ Bump(wf).term = wf.term /\ Bump(wf).active = wf.active
    BY <1>0 DEF Bump, Rows
  <2>3. /\ \A b \in Actors : b # a => proc'[b] = proc[b]
        /\ proc'[a].pc = Rest(a)
    BY <1>4, <2>1 DEF MovedTo
  <2>4. proc'[a].pc \notin CancelPCs \cup LaunchingPCs BY <1>3, <1>5, <2>3
  <2>5. Cancelling' => Cancelling /\ wf'.active = wf.active BY <2>1, <2>2 DEF Cancelling
  <2>6. wf'.term = "cancelled" => wf.term = "cancelled" BY <2>1, <2>2
  <2> QED BY <1>0, <1>2, <2>1, <2>3, <2>4, <2>5, <2>6, CMoved
<1>9. CASE ConfirmRead(a)
  <2>1. wf' = wf /\ child' = child /\ proc[a].pc = "confirm" /\ GotoRow(a, "finalize", wf)
    BY <1>9 DEF ConfirmRead, At
  <2>2. "finalize" \in PCs BY DEF PCs
  <2>3. MovedTo(a, "finalize", wf, proc[a].step, proc[a].out) BY <1>0, <2>1, <2>2, GotoRowMoves
  <2>4. /\ \A b \in Actors : b # a => proc'[b] = proc[b]
        /\ proc'[a].pc = "finalize"
    BY <2>3 DEF MovedTo
  <2>5. CancellerOK(a)' BY <2>1, <2>4 DEF CInv, CancellerOK, ActiveStopped, Cancelling
  <2> QED BY <1>0, <1>2, <2>1, <2>4, <2>5, CEnds
<1>10. CASE FinalizeCancel(a)
  <2>1. child' = child /\ proc[a].pc = "finalize" BY <1>10 DEF FinalizeCancel, At
  <2>2. CASE End(a) /\ wf' = wf BY <1>0, <1>2, <1>3, <1>4, <1>5, <2>1, <2>2, CMovedTo DEF Unrelated
  <2>3. CASE Cancelling /\ wf' = ToCancelled(wf) /\ Publish(a, Rest(a))
    <3>1. wf'.status = "cancelled" BY <1>0, <2>3 DEF ToCancelled, ToTerminal, Bump, Rows
    <3>2. ~Cancelling' BY <3>1 DEF Cancelling
    <3>3. /\ \A b \in Actors : b # a => proc'[b] = proc[b]
          /\ proc'[a].pc = "publish"
      BY <1>4, <2>3 DEF MovedTo
    <3>4. ActiveStopped BY <2>1, <2>3 DEF CInv, CancellerOK
    <3>5. wf.status \notin Terminal BY <2>3 DEF Cancelling, Terminal, Outcome
    <3>6. 0 \notin Steps /\ "active" \notin Outcome /\ "none" \notin Outcome BY DEF Steps, Outcome
    <3>7. \A s \in Steps : child[s] # "active" BY <3>4, <3>5, <3>6 DEF IInv, StepOK, ActiveStopped
    <3>8. ASSUME NEW m \in Leases, proc[m].pc \in LaunchingPCs PROVE proc[m].step \in Local
      <4>1. m \in Actors BY ActorFacts
      <4>2. proc[m].step \in Steps BY <3>8, <4>1, ActorAt DEF ControlOK, StepPCs, LaunchingPCs
      <4>3. proc[m].step \notin Local => /\ starts[proc[m].step].launched = 0
                                         /\ wf.active = proc[m].step
        BY <3>5, <3>8 DEF IInv, WorkerOK, ChildOK
      <4>4. proc[m].step \notin Local => child[proc[m].step] = "none" BY <4>2, <4>3 DEF IInv, StepOK
      <4> QED BY <3>4, <3>6, <4>2, <4>3, <4>4 DEF ActiveStopped
    <3>9. \A m \in Leases : proc'[m] = proc[m] BY <1>0, <3>3, ActorFacts
    <3>10. StoppedOK' BY <2>1, <3>7, <3>8, <3>9 DEF StoppedOK
    <3>11. \A b \in Clients \cup {Server} : CancellerOK(b)' BY <3>2, NotCancelling
    <3>12. ASSUME NEW k \in Clients PROVE ClientOK(k)'
      <4>1. CASE k = a BY <1>2, <3>2, <3>3, <4>1, ActorFacts DEF ClientOK
      <4>2. CASE k # a /\ a = Server BY <1>2, <3>2, <3>3, <4>2, ActorFacts DEF CInv, ClientOK
      <4>3. CASE k # a /\ a # Server BY <3>2, <3>3, <4>3, ActorFacts DEF CInv, ClientOK
      <4> QED BY <4>1, <4>2, <4>3
    <3> QED BY <3>10, <3>11, <3>12 DEF CInv
  <2> QED BY <1>10, <2>2, <2>3 DEF FinalizeCancel, Cancelling
<1> QED BY <1>6, <1>7, <1>8, <1>9, <1>10 DEF CancelStep

\* The initial state cancels nothing.
LEMMA CInitially == Init => CInv
<1> SUFFICES ASSUME Init PROVE CInv
  OBVIOUS
<1>1. wf.status = "none" /\ wf.term = "none" BY DEF Init, NoRow
<1>2. \A k \in Clients : proc[k].pc = "idle" BY ActorFacts DEF Init, Idle
<1> QED BY <1>1, <1>2 DEF CInv, CancellerOK, ClientOK, StoppedOK, Cancelling

\* Every step keeps the promises of a cancellation.
LEMMA CInductive ==
  ASSUME NumClients <= 1 PROVE IInv /\ CInv /\ [Next]_vars => CInv'
<1> SUFFICES ASSUME IInv, CInv, [Next]_vars PROVE CInv'
  OBVIOUS
<1>1. CASE UNCHANGED vars
  BY <1>1 DEF vars, CInv, CancellerOK, ClientOK, StoppedOK, Cancelling, ActiveStopped
<1>2. CASE CreateWorkflow \/ \E a \in {Starter, Server} : LaunchStep(a) BY <1>2, CLaunch
<1>3. CASE ReconcileStep \/ ServerCrash BY <1>3, CRestart
<1>4. ASSUME NEW a \in Actors, PublishStep(a) PROVE CInv' BY <1>4, CPublish
<1>5. ASSUME NEW k \in Clients, CancelRead(k) \/ RequestCancel(k) PROVE CInv' BY <1>5, CRequest
<1>6. ASSUME NEW a \in Clients \cup {Server}, CancelStep(a) PROVE CInv' BY <1>6, CCancel
<1>7. ASSUME NEW n \in Leases, WorkerStep(n) \/ WorkerCrash(n) PROVE CInv' BY <1>7, CWorker
<1>8. ASSUME NEW s \in Steps, ChildExit(s) PROVE CInv' BY <1>8, CChildExit
<1> QED BY <1>1, <1>2, <1>3, <1>4, <1>5, <1>6, <1>7, <1>8 DEF Next

\* For at most one cancelling client, everything the rows say is true: in particular a
\* workflow reported as cancelled has no child at work and no worker that could start
\* one.  (Two concurrent cancel_workflow calls can break this.)
THEOREM WorkflowIsSound == ASSUME NumClients <= 1 PROVE Spec => []WorkflowSound
<1>1. Init => CInv BY CInitially
<1>2. IInv /\ CInv /\ [Next]_vars => CInv' BY CInductive
<1>3. Spec => []IInv BY InvariantHolds
<1>4. Spec => []CInv BY <1>1, <1>2, <1>3, PTL DEF Spec
<1>5. Spec => [](TypeOK /\ SingleWorker /\ LaunchedOnce /\ OwnershipSound) BY WorkersSound
<1>6. IInv /\ CInv => CancelledMeansStopped
  <2> SUFFICES ASSUME IInv, CInv, wf.term = "cancelled", NEW n \in Leases, At(n, "launch")
               PROVE  FALSE
    BY DEF CInv, StoppedOK, CancelledMeansStopped
  <2>1. proc[n].step \notin Local BY ActorFacts DEF IInv, ActorOK, ControlOK, At
  <2> QED BY <2>1 DEF CInv, StoppedOK, At, LaunchingPCs
<1> QED BY <1>3, <1>4, <1>5, <1>6, PTL DEF WorkflowSound
=============================================================================
