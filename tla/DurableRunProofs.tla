-------------------------- MODULE DurableRunProofs --------------------------
(***************************************************************************)
(* Proofs about DurableRun, for any set of runs and synchronous            *)
(* operations, any faults, either termination behaviour and any bounds.    *)
(*                                                                         *)
(* The invariants that the runs check are not inductive by themselves: the *)
(* inductive invariant IInv adds what every actor's control state says     *)
(* about the row it works on.  Its parts are predicates on a row and one   *)
(* record, so that they can be carried over a change of the row by lemmas  *)
(* about the operations on rows (Evolves) instead of once per action.      *)
(***************************************************************************)
EXTENDS MCRunSafety, TLAPS

----
(* The inductive invariant, one predicate for each kind of state. *)

\* Leases are bounded by launch attempts; a first launch not yet recorded has
\* no attempt counted; a run that does not exist has the empty row.
RowOK(row) ==
    /\ row.status = "none" => row = NoRow
    /\ row.status # "none" =>
         /\ row.lease \in Leases
         /\ row.lease <= row.att + 1
         /\ row.lease = 1 /\ row.status = "launch_pending" => row.att = 0

CreatedPCs == {"bind", "spawn", "record", "event", "fail", "undo", "accepted"}
ThreadOK(t, row) ==
    /\ t.pc \in {"spawn", "record", "fail"} => Agrees(t.snap, row)
    /\ t.pc \in CreatedPCs => row.status # "none"
    /\ t.pc \in {"idle", "insert", "create"} => row.status = "none"

WorkerOK(w, row, n) ==
    /\ w.pc \in {"claim", "lost", "commit"} => Agrees(w.snap, row)
    /\ w.pc \in ClaimedPCs \/ w.child => row.lease = n /\ row.wpid /\ ~Unclaimed(row)
    /\ row.status = "none" => w = NoWorker

CancelOK(c, row) ==
    c.pc # "idle" => /\ Agrees(c.snap, row)
                     /\ c.snap.lease \in Leases
                     /\ row.status # "none"

ListedOK(l, row) ==
    l.status # "none" => Agrees(l, row) /\ l.lease \in Leases /\ row.status # "none"

ServerOK(sv, r, row) ==
    /\ sv.cur = r => /\ Agrees(sv.snap, row)
                     /\ sv.snap.lease \in Leases
                     /\ row.status # "none"
    /\ r \in sv.todo => row.status # "none"

LockOK(lk, r, row) ==
    lk.run = r => lk.lease = IF row.status # "none" THEN row.lease ELSE 1

RunOK(r) ==
    /\ RowOK(run[r])
    /\ ThreadOK(thread[r], run[r])
    /\ CancelOK(canceller[r], run[r])
    /\ ListedOK(listed[r], run[r])
    /\ ServerOK(server, r, run[r])
    /\ LockOK(lock, r, run[r])
    /\ \A n \in Leases : WorkerOK(worker[r][n], run[r], n)

IInv == TypeOK /\ \A r \in Runs : RunOK(r)

----
(* How a row may change in a step other than creation and a relaunch. *)

SameDecision(row, new) ==
    /\ new.status = row.status /\ new.lease = row.lease /\ new.att = row.att
    /\ new.lpid = row.lpid /\ new.wpid = row.wpid /\ new.cpid = row.cpid

Evolves(row, new) ==
    /\ new \in Rows
    /\ row.ver <= new.ver
    /\ row.ver = new.ver => SameDecision(row, new)
    /\ new.lease = row.lease /\ row.att <= new.att
    /\ row.wpid => new.wpid
    /\ new.status # "none"
    /\ ~Unclaimed(row) => ~Unclaimed(new)
    /\ new.status = "launch_pending" => row.status = "launch_pending" /\ new.att = row.att

\* The empty row has the type of a row.
LEMMA NoRowType == NoRow \in Rows
  BY DEF NoRow, Rows, Statuses, Phases, MaxLaunchAttempts

\* A row stays a row when one field takes another value of its type.
LEMMA RowFields ==
  ASSUME NEW row \in Rows
  PROVE  /\ \A x \in Statuses : [row EXCEPT !.status = x] \in Rows
         /\ \A x \in Phases : [row EXCEPT !.phase = x] \in Rows
         /\ \A x \in Nat : [row EXCEPT !.ver = x] \in Rows
         /\ \A x \in Nat : [row EXCEPT !.hb = x] \in Rows
         /\ \A x \in {0} \cup Leases : [row EXCEPT !.lease = x] \in Rows
         /\ \A x \in 0..MaxLaunchAttempts : [row EXCEPT !.att = x] \in Rows
         /\ \A x \in BOOLEAN : [row EXCEPT !.lpid = x] \in Rows
         /\ \A x \in BOOLEAN : [row EXCEPT !.wpid = x] \in Rows
         /\ \A x \in BOOLEAN : [row EXCEPT !.cpid = x] \in Rows
         /\ \A x \in BOOLEAN : [row EXCEPT !.pub = x] \in Rows
<1>1. \A x \in Statuses : [row EXCEPT !.status = x] \in Rows BY DEF Rows
<1>2. \A x \in Phases : [row EXCEPT !.phase = x] \in Rows BY DEF Rows
<1>3. \A x \in Nat : [row EXCEPT !.ver = x] \in Rows BY DEF Rows
<1>4. \A x \in Nat : [row EXCEPT !.hb = x] \in Rows BY DEF Rows
<1>5. \A x \in {0} \cup Leases : [row EXCEPT !.lease = x] \in Rows BY DEF Rows
<1>6. \A x \in 0..MaxLaunchAttempts : [row EXCEPT !.att = x] \in Rows BY DEF Rows
<1>7. \A x \in BOOLEAN : [row EXCEPT !.lpid = x] \in Rows BY DEF Rows
<1>8. \A x \in BOOLEAN : [row EXCEPT !.wpid = x] \in Rows BY DEF Rows
<1>9. \A x \in BOOLEAN : [row EXCEPT !.cpid = x] \in Rows BY DEF Rows
<1>10. \A x \in BOOLEAN : [row EXCEPT !.pub = x] \in Rows BY DEF Rows
<1> QED BY <1>1, <1>2, <1>3, <1>4, <1>5, <1>6, <1>7, <1>8, <1>9, <1>10

\* The literals the row operations write have their types.
LEMMA Literals ==
  /\ Recoverable \subseteq Statuses /\ Terminal \subseteq Statuses
  /\ {"launch_pending", "queued", "worker", "executable", "cancellation_pending",
      "recovery_pending", "result"} \subseteq Phases
  /\ "launch_pending" \in Statuses /\ "queued" \in Statuses /\ "running" \in Statuses
  /\ "cancellation_pending" \in Statuses /\ "recovery_pending" \in Statuses
  /\ "launch_pending" \in Phases /\ "queued" \in Phases /\ "worker" \in Phases
  /\ "executable" \in Phases /\ "cancellation_pending" \in Phases
  /\ "recovery_pending" \in Phases /\ "result" \in Phases
  BY DEF Recoverable, Terminal, Statuses, Phases

\* Every row operation returns a row.
LEMMA RowOpTypes ==
  ASSUME NEW row \in Rows
  PROVE  /\ Bump(row) \in Rows
         /\ Beat(row) \in Rows
         /\ Adopted(row) \in Rows
         /\ WithChild(row) \in Rows
         /\ NotedCancelling(row) \in Rows
         /\ \A ph \in Phases : SetPhase(row, ph) \in Rows
         /\ \A st \in Terminal : ToTerminal(row, st) \in Rows
         /\ ToRecoveryPending(row) \in Rows
         /\ ToCancelling(row) \in Rows
         /\ ToRunning(row) \in Rows
         /\ Launched(row) \in Rows
         /\ \A ok \in BOOLEAN : Published(row, ok) \in Rows
<1>1. row.ver + 1 \in Nat /\ row.hb + 1 \in Nat /\ 0 \in Nat BY DEF Rows
<1>2. Bump(row) \in Rows BY <1>1, RowFields, Zenon DEF Bump
<1>3. Beat(row) \in Rows BY <1>1, RowFields, Zenon DEF Beat
<1>4. Adopted(row) \in Rows BY <1>2, RowFields, Literals, Zenon DEF Adopted
<1>5. WithChild(row) \in Rows BY <1>2, RowFields, Zenon DEF WithChild
<1>6. NotedCancelling(row) \in Rows BY RowFields, Literals, Zenon DEF NotedCancelling
<1>7. \A ph \in Phases : SetPhase(row, ph) \in Rows BY <1>2, <1>3, RowFields, Zenon DEF SetPhase
<1>8. \A st \in Terminal : ToTerminal(row, st) \in Rows
  BY <1>2, RowFields, Literals, Zenon DEF ToTerminal
<1>9. ToRecoveryPending(row) \in Rows BY <1>2, RowFields, Literals, Zenon DEF ToRecoveryPending
<1>10. ToCancelling(row) \in Rows BY <1>2, RowFields, Literals, Zenon DEF ToCancelling
<1>11. ToRunning(row) \in Rows BY <1>2, RowFields, Literals, Zenon DEF ToRunning
<1>12. Launched(row) \in Rows BY <1>2, RowFields, Literals, Zenon DEF Launched
<1>13. \A ok \in BOOLEAN : Published(row, ok) \in Rows BY <1>2, RowFields, Zenon DEF Published
<1> QED BY <1>2, <1>3, <1>4, <1>5, <1>6, <1>7, <1>8, <1>9, <1>10, <1>11, <1>12, <1>13

\* A row with a new version evolves if its lease and attempts stand and its
\* status and recorded worker do not move back.
LEMMA NewVersion ==
  ASSUME NEW row \in Rows, NEW new \in Rows,
         new.ver = row.ver + 1, new.lease = row.lease, new.att = row.att,
         row.wpid => new.wpid, new.status # "none",
         new.status = row.status \/ row.status = "launch_pending" \/ ~Unclaimed(new),
         new.status = "launch_pending" => row.status = "launch_pending"
  PROVE  Evolves(row, new)
<1>1. row.ver \in Nat /\ row.att \in Nat BY DEF Rows
<1>2. row.ver <= new.ver /\ row.ver # new.ver /\ row.att <= new.att BY <1>1
<1> QED BY <1>2 DEF Evolves, Unclaimed

\* Operations that keep the status evolve a row.
LEMMA SmallOps ==
  ASSUME NEW row \in Rows, row.status # "none"
  PROVE  /\ Evolves(row, row)
         /\ Evolves(row, Bump(row))
         /\ Evolves(row, Beat(row))
         /\ Evolves(row, Adopted(row))
         /\ Evolves(row, WithChild(row))
         /\ Evolves(row, NotedCancelling(row))
         /\ \A ph \in Phases : Evolves(row, SetPhase(row, ph))
         /\ \A n \in Leases, ph \in Phases : Evolves(row, Progress(row, n, ph))
         /\ \A ok \in BOOLEAN : Evolves(row, Published(row, ok))
<1>1. Evolves(row, row) BY DEF Evolves, Rows, SameDecision
<1>2. Evolves(row, Bump(row))
  <2>1. /\ Bump(row).ver = row.ver + 1 /\ Bump(row).status = row.status
        /\ Bump(row).lease = row.lease /\ Bump(row).att = row.att
        /\ Bump(row).wpid = row.wpid
    BY DEF Rows, Bump
  <2> QED BY <2>1, RowOpTypes, NewVersion
<1>3. Evolves(row, Beat(row)) BY RowOpTypes DEF Evolves, Rows, SameDecision, Beat, Unclaimed
<1>4. Evolves(row, Adopted(row))
  <2>1. /\ Adopted(row).ver = row.ver + 1 /\ Adopted(row).status = row.status
        /\ Adopted(row).lease = row.lease /\ Adopted(row).att = row.att
        /\ Adopted(row).wpid = row.wpid
    BY DEF Rows, Bump, Adopted
  <2> QED BY <2>1, RowOpTypes, NewVersion
<1>5. Evolves(row, WithChild(row))
  <2>1. /\ WithChild(row).ver = row.ver + 1 /\ WithChild(row).status = row.status
        /\ WithChild(row).lease = row.lease /\ WithChild(row).att = row.att
        /\ WithChild(row).wpid = row.wpid
    BY DEF Rows, Bump, WithChild
  <2> QED BY <2>1, RowOpTypes, NewVersion
<1>6. Evolves(row, NotedCancelling(row))
  BY RowOpTypes DEF Evolves, Rows, SameDecision, NotedCancelling, Unclaimed
<1>7. ASSUME NEW ph \in Phases PROVE Evolves(row, SetPhase(row, ph))
  <2>1. CASE row.phase = ph BY <1>3, <2>1 DEF SetPhase
  <2>2. CASE row.phase # ph
    <3> DEFINE new == SetPhase(row, ph)
    <3>1. /\ new.ver = row.ver + 1 /\ new.status = row.status
          /\ new.lease = row.lease /\ new.att = row.att /\ new.wpid = row.wpid
      BY <2>2 DEF Rows, Bump, SetPhase
    <3> QED BY <3>1, RowOpTypes, NewVersion
  <2> QED BY <2>1, <2>2
<1>8. ASSUME NEW n \in Leases, NEW ph \in Phases PROVE Evolves(row, Progress(row, n, ph))
  BY <1>1, <1>7 DEF Progress
<1>9. ASSUME NEW ok \in BOOLEAN PROVE Evolves(row, Published(row, ok))
  <2>1. CASE ~(IsTerminal(row) /\ ~row.pub) BY <1>1, <2>1 DEF Published
  <2>2. CASE IsTerminal(row) /\ ~row.pub
    <3> DEFINE new == Published(row, ok)
    <3>1. /\ new.ver = row.ver + 1 /\ new.status = row.status
          /\ new.lease = row.lease /\ new.att = row.att /\ new.wpid = row.wpid
      BY <2>2 DEF Rows, Bump, Published
    <3> QED BY <3>1, RowOpTypes, NewVersion
  <2> QED BY <2>1, <2>2
<1> QED BY <1>1, <1>2, <1>3, <1>4, <1>5, <1>6, <1>7, <1>8, <1>9

\* The status changes other than a relaunch evolve a row.
LEMMA StatusOps ==
  ASSUME NEW row \in Rows, row.status # "none"
  PROVE  /\ \A st \in Terminal : Evolves(row, ToTerminal(row, st))
         /\ Evolves(row, ToRecoveryPending(row))
         /\ Evolves(row, ToCancelling(row))
         /\ Evolves(row, ToRunning(row))
         /\ row.status = "launch_pending" => Evolves(row, Launched(row))
<1>1. ASSUME NEW st \in Terminal PROVE Evolves(row, ToTerminal(row, st))
  <2> DEFINE new == ToTerminal(row, st)
  <2>1. /\ new.ver = row.ver + 1 /\ new.status = st
        /\ new.lease = row.lease /\ new.att = row.att /\ new.wpid = row.wpid
    BY DEF Rows, Bump, ToTerminal
  <2>2. st # "none" /\ st # "launch_pending" /\ ~Unclaimed(new) BY <2>1 DEF Terminal, Unclaimed
  <2> QED BY <2>1, <2>2, RowOpTypes, NewVersion
<1>2. Evolves(row, ToRecoveryPending(row))
  <2> DEFINE new == ToRecoveryPending(row)
  <2>1. /\ new.ver = row.ver + 1 /\ new.status = "recovery_pending"
        /\ new.lease = row.lease /\ new.att = row.att /\ new.wpid = row.wpid
    BY DEF Rows, Bump, ToRecoveryPending
  <2> QED BY <2>1, RowOpTypes, NewVersion DEF Unclaimed
<1>3. Evolves(row, ToCancelling(row))
  <2> DEFINE new == ToCancelling(row)
  <2>1. /\ new.ver = row.ver + 1 /\ new.status = "cancellation_pending"
        /\ new.lease = row.lease /\ new.att = row.att /\ new.wpid = row.wpid
    BY DEF Rows, Bump, ToCancelling
  <2> QED BY <2>1, RowOpTypes, NewVersion DEF Unclaimed
<1>4. Evolves(row, ToRunning(row))
  <2> DEFINE new == ToRunning(row)
  <2>1. /\ new.ver = row.ver + 1 /\ new.status = "running"
        /\ new.lease = row.lease /\ new.att = row.att /\ new.wpid
    BY DEF Rows, Bump, ToRunning
  <2> QED BY <2>1, RowOpTypes, NewVersion DEF Unclaimed
<1>5. row.status = "launch_pending" => Evolves(row, Launched(row))
  <2> DEFINE new == Launched(row)
  <2>1. /\ new.ver = row.ver + 1 /\ new.status = "queued"
        /\ new.lease = row.lease /\ new.att = row.att /\ new.wpid = row.wpid
    BY DEF Rows, Bump, Launched
  <2> QED BY <2>1, RowOpTypes, NewVersion
<1> QED BY <1>1, <1>2, <1>3, <1>4, <1>5

\* Two evolutions in one step are one.
LEMMA EvolvesTrans ==
  ASSUME NEW a \in Rows, NEW b \in Rows, NEW c \in Rows, Evolves(a, b), Evolves(b, c)
  PROVE  Evolves(a, c)
  BY DEF Evolves, SameDecision, Rows

\* The invariant's predicates survive an evolution of their row.
LEMMA EvolvesKeeps ==
  ASSUME NEW row \in Rows, row.status # "none", NEW new, Evolves(row, new)
  PROVE  /\ RowOK(row) => RowOK(new)
         /\ \A t \in Threads : ThreadOK(t, row) => ThreadOK(t, new)
         /\ \A c \in Cancels : CancelOK(c, row) => CancelOK(c, new)
         /\ \A l \in Rows : ListedOK(l, row) => ListedOK(l, new)
         /\ \A sv \in Servers, r \in Runs : ServerOK(sv, r, row) => ServerOK(sv, r, new)
         /\ \A lk \in Locks, r \in Runs : LockOK(lk, r, row) => LockOK(lk, r, new)
         /\ \A w \in Workers, n \in Leases : WorkerOK(w, row, n) => WorkerOK(w, new, n)
<1>0. new \in Rows BY DEF Evolves
<1>1. \A snap \in Rows : Agrees(snap, row) => Agrees(snap, new)
  BY <1>0 DEF Evolves, Agrees, SameDecision, Rows
<1>2. RowOK(row) => RowOK(new) BY <1>0 DEF Evolves, RowOK, Rows, Leases, MaxLaunchAttempts
<1>3. \A t \in Threads : ThreadOK(t, row) => ThreadOK(t, new) BY <1>1 DEF Evolves, ThreadOK, Threads
<1>4. \A c \in Cancels : CancelOK(c, row) => CancelOK(c, new) BY <1>1 DEF Evolves, CancelOK, Cancels
<1>5. \A l \in Rows : ListedOK(l, row) => ListedOK(l, new) BY <1>1 DEF Evolves, ListedOK
<1>6. \A sv \in Servers, r \in Runs : ServerOK(sv, r, row) => ServerOK(sv, r, new)
  BY <1>1 DEF Evolves, ServerOK, Servers
<1>7. \A lk \in Locks, r \in Runs : LockOK(lk, r, row) => LockOK(lk, r, new) BY DEF Evolves, LockOK
<1>8. \A w \in Workers, n \in Leases : WorkerOK(w, row, n) => WorkerOK(w, new, n)
  BY <1>1 DEF Evolves, WorkerOK, Workers
<1> QED BY <1>2, <1>3, <1>4, <1>5, <1>6, <1>7, <1>8
----
(* Steps: what must be shown of each variable a step changes. *)

SteadyAt(s) ==
    run'[s] = run[s] \/ (run[s].status # "none" /\ Evolves(run[s], run'[s]))
Steady == run' \in [Runs -> Rows] /\ \A s \in Runs : SteadyAt(s)

LockKept ==
    /\ lock' \in Locks
    /\ \A s \in Runs : \/ lock'.run = lock.run /\ lock'.lease = lock.lease
                       \/ LockOK(lock', s, run'[s])
ThreadsKept ==
    /\ thread' \in [Owners -> Threads]
    /\ \A s \in Runs : thread'[s] = thread[s] \/ ThreadOK(thread'[s], run'[s])
WorkersKept ==
    /\ worker' \in [Runs -> [Leases -> Workers]]
    /\ \A s \in Runs, n \in Leases :
         worker'[s][n] = worker[s][n] \/ WorkerOK(worker'[s][n], run'[s], n)
CancelsKept ==
    /\ canceller' \in [Runs -> Cancels]
    /\ \A s \in Runs : canceller'[s] = canceller[s] \/ CancelOK(canceller'[s], run'[s])
ListedKept ==
    /\ listed' \in [Runs -> Rows]
    /\ \A s \in Runs : listed'[s] = listed[s] \/ ListedOK(listed'[s], run'[s])
ServerKept ==
    /\ server' \in Servers
    /\ server' = server \/ \A s \in Runs : ServerOK(server', s, run'[s])
OthersKept == LockKept /\ ThreadsKept /\ WorkersKept /\ CancelsKept /\ ListedKept /\ ServerKept

\* The invariant holds of a run whose row stays or evolves.
LEMMA FrameAt ==
  ASSUME IInv, OthersKept, NEW s \in Runs, SteadyAt(s)
  PROVE  RunOK(s)'
<1>1. /\ run[s] \in Rows /\ thread[s] \in Threads /\ canceller[s] \in Cancels
      /\ listed[s] \in Rows /\ server \in Servers /\ lock \in Locks
      /\ \A n \in Leases : worker[s][n] \in Workers
  BY DEF IInv, TypeOK, Owners
<1>2. RunOK(s) BY DEF IInv
<1>3. /\ RowOK(run'[s])
      /\ ThreadOK(thread[s], run'[s])
      /\ CancelOK(canceller[s], run'[s])
      /\ ListedOK(listed[s], run'[s])
      /\ ServerOK(server, s, run'[s])
      /\ LockOK(lock, s, run'[s])
      /\ \A n \in Leases : WorkerOK(worker[s][n], run'[s], n)
  <2>1. CASE run'[s] = run[s] BY <1>2, <2>1 DEF RunOK
  <2>2. CASE run[s].status # "none" /\ Evolves(run[s], run'[s])
    BY <1>1, <1>2, <2>2, EvolvesKeeps DEF RunOK
  <2> QED BY <2>1, <2>2 DEF SteadyAt
<1>4. LockOK(lock', s, run'[s]) BY <1>3 DEF OthersKept, LockKept, LockOK
<1>5. ThreadOK(thread'[s], run'[s]) /\ CancelOK(canceller'[s], run'[s])
  BY <1>3 DEF OthersKept, ThreadsKept, CancelsKept
<1>6. ListedOK(listed'[s], run'[s]) /\ ServerOK(server', s, run'[s])
  BY <1>3 DEF OthersKept, ListedKept, ServerKept
<1>7. \A n \in Leases : WorkerOK(worker'[s][n], run'[s], n) BY <1>3 DEF OthersKept, WorkersKept
<1> QED BY <1>3, <1>4, <1>5, <1>6, <1>7 DEF RunOK, RowOK, ThreadOK, CancelOK, ListedOK, ServerOK, LockOK, WorkerOK, Agrees, Unclaimed

\* A step under which every row stays or evolves preserves the invariant.
LEMMA Frame ==
  ASSUME IInv, Steady, OthersKept
  PROVE  IInv'
<1>1. \A s \in Runs : RunOK(s)' BY FrameAt DEF Steady
<1>2. TypeOK' BY DEF TypeOK, Steady, OthersKept, LockKept, ThreadsKept, WorkersKept, CancelsKept,
         ListedKept, ServerKept
<1> QED BY <1>1, <1>2 DEF IInv

\* What does not change is kept.
LEMMA Unchanged ==
  ASSUME IInv
  PROVE  /\ run' = run => Steady
         /\ lock' = lock => LockKept
         /\ thread' = thread => ThreadsKept
         /\ worker' = worker => WorkersKept
         /\ canceller' = canceller => CancelsKept
         /\ listed' = listed => ListedKept
         /\ server' = server => ServerKept
  BY DEF IInv, TypeOK, Steady, SteadyAt, LockKept, ThreadsKept, WorkersKept, CancelsKept,
         ListedKept, ServerKept

\* Saving an evolved row is a steady step.
LEMMA SaveSteady ==
  ASSUME IInv, NEW r \in Runs, run[r].status # "none", NEW row, Evolves(run[r], row),
         Save(r, row)
  PROVE  Steady /\ run'[r] = row
<1>1. run \in [Runs -> Rows] /\ row \in Rows BY DEF IInv, TypeOK, Evolves
<1> QED BY <1>1 DEF Steady, SteadyAt, Save

\* A row agrees with itself, and with what it evolves into.
LEMMA AgreesSelf ==
  ASSUME NEW row \in Rows
  PROVE  /\ Agrees(row, row)
         /\ \A new : Evolves(row, new) => Agrees(row, new)
  BY DEF Agrees, Evolves, SameDecision, Rows

\* Releasing or marking the lock keeps it.
LEMMA LockSteps ==
  ASSUME IInv
  PROVE  /\ lock' = NoLock => LockKept
         /\ \A r \in Runs, n \in Nat : ReleaseLock(r, n) => LockKept
         /\ lock' = ClaimedLock => LockKept
         /\ lock' = [lock EXCEPT !.bound = TRUE] => LockKept
<1>1. lock \in Locks BY DEF IInv, TypeOK
<1>2. NoLock \in Locks /\ \A s \in Runs : NoLock.run # s
  BY OwnersAssumption DEF NoLock, Locks, Owners
<1>3. lock' = NoLock => LockKept BY <1>2 DEF LockKept, LockOK
<1>4. ASSUME NEW r \in Runs, NEW n \in Nat, ReleaseLock(r, n) PROVE LockKept
  BY <1>3, <1>4, Unchanged DEF ReleaseLock
<1>5. lock' = ClaimedLock => LockKept BY <1>1 DEF LockKept, ClaimedLock, Locks
<1>6. lock' = [lock EXCEPT !.bound = TRUE] => LockKept BY <1>1 DEF LockKept, Locks
<1> QED BY <1>3, <1>4, <1>5, <1>6

\* A launching thread moves on.
LEMMA GotoKept ==
  ASSUME IInv, NEW o \in Owners, NEW pc \in ThreadPCs, Goto(o, pc),
         o \in Runs => /\ pc \in {"spawn", "record", "fail"} => Agrees(thread[o].snap, run'[o])
                       /\ pc \in CreatedPCs => run'[o].status # "none"
                       /\ pc \in {"idle", "insert", "create"} => run'[o].status = "none"
  PROVE  ThreadsKept
<1>1. thread \in [Owners -> Threads] /\ Runs \subseteq Owners BY DEF IInv, TypeOK, Owners
<1> QED BY <1>1 DEF Goto, ThreadsKept, ThreadOK, Threads

\* A launching thread moves on with a row it has just read.
LEMMA GotoWithKept ==
  ASSUME IInv, NEW o \in Owners, NEW pc \in ThreadPCs, NEW row \in Rows, GotoWith(o, pc, row),
         o \in Runs => /\ pc \in {"spawn", "record", "fail"} => Agrees(row, run'[o])
                       /\ pc \in CreatedPCs => run'[o].status # "none"
                       /\ pc \in {"idle", "insert", "create"} => run'[o].status = "none"
  PROVE  ThreadsKept
<1>1. thread \in [Owners -> Threads] /\ Runs \subseteq Owners BY DEF IInv, TypeOK, Owners
<1>2. DEFINE t == [[thread[o] EXCEPT !.pc = pc] EXCEPT !.snap = row]
<1>3. t \in Threads /\ t.pc = pc /\ t.snap = row BY <1>1 DEF Threads
<1>4. thread' = [thread EXCEPT ![o] = t] BY <1>1 DEF GotoWith
<1> HIDE DEF t
<1> QED BY <1>1, <1>3, <1>4 DEF ThreadsKept, ThreadOK

\* A launching thread ends.
LEMMA EndKept ==
  ASSUME IInv, NEW o \in Owners, NEW pc \in {"refused", "failed", "done", "dead", "accepted"},
         End(o, pc), pc = "accepted" /\ o \in Runs => run'[o].status # "none"
  PROVE  ThreadsKept
<1>1. thread \in [Owners -> Threads] /\ Runs \subseteq Owners BY DEF IInv, TypeOK, Owners
<1>2. IdleThread \in Threads BY NoRowType DEF IdleThread, Threads, ThreadPCs
<1>3. DEFINE t == [IdleThread EXCEPT !.pc = pc]
<1>4. t \in Threads /\ t.pc = pc BY <1>2 DEF Threads, ThreadPCs
<1>5. thread' = [thread EXCEPT ![o] = t] BY DEF End
<1> HIDE DEF t
<1> QED BY <1>1, <1>4, <1>5 DEF ThreadsKept, ThreadOK, CreatedPCs

\* One worker process changes.
LEMMA SetWorkerKept ==
  ASSUME IInv, NEW r \in Runs, NEW n \in Leases, NEW w \in Workers, SetWorker(r, n, w),
         WorkerOK(w, run'[r], n)
  PROVE  WorkersKept
<1>1. worker \in [Runs -> [Leases -> Workers]] BY DEF IInv, TypeOK
<1> QED BY <1>1 DEF SetWorker, WorkersKept

\* One cancelling thread changes.
LEMMA SetCancelKept ==
  ASSUME IInv, NEW r \in Runs, NEW c \in Cancels, SetCancel(r, c), CancelOK(c, run'[r])
  PROVE  CancelsKept
<1>1. canceller \in [Runs -> Cancels] BY DEF IInv, TypeOK
<1> QED BY <1>1 DEF SetCancel, CancelsKept

\* The reconciler goes on to another run.
LEMMA NextRunKept ==
  ASSUME IInv, Steady, NEW r \in Runs, NextRun(r)
  PROVE  ServerKept
<1>1. server \in Servers BY DEF IInv, TypeOK
<1>2. DEFINE a == [server EXCEPT !.pc = "runs"]
             b == [a EXCEPT !.todo = server.todo \ {r}]
             c == [b EXCEPT !.cur = None]
             d == [c EXCEPT !.snap = NoRow]
<1>3. a \in Servers /\ a.todo = server.todo BY <1>1 DEF Servers, ServerPCs
<1>4. b \in Servers /\ b.todo = server.todo \ {r} BY <1>1, <1>3 DEF Servers
<1>5. c \in Servers /\ c.todo = server.todo \ {r} /\ c.cur = None BY <1>4 DEF Servers
<1>6. d \in Servers /\ d.todo = server.todo \ {r} /\ d.cur = None BY <1>5, NoRowType DEF Servers
<1>7. server' = d BY <1>1 DEF NextRun, Servers
<1>8. \A s \in server.todo : run'[s].status # "none"
  BY <1>1 DEF IInv, RunOK, ServerOK, Steady, SteadyAt, Evolves, Servers
<1> HIDE DEF d
<1> QED BY <1>6, <1>7, <1>8, OwnersAssumption DEF ServerKept, ServerOK

\* The reconciler goes on with the run in hand.
LEMMA ThenKept ==
  ASSUME IInv, NEW r \in Runs, NEW pc \in ServerPCs, NEW row \in Rows, Then(r, pc, row),
         Agrees(row, run'[r]), row.lease \in Leases, run'[r].status # "none",
         \A s \in server.todo : run'[s].status # "none"
  PROVE  ServerKept
<1>1. server \in Servers BY DEF IInv, TypeOK
<1>2. DEFINE a == [server EXCEPT !.pc = pc]
             b == [a EXCEPT !.cur = r]
             c == [b EXCEPT !.snap = row]
<1>3. a \in Servers /\ a.todo = server.todo BY <1>1 DEF Servers
<1>4. b \in Servers /\ b.todo = server.todo /\ b.cur = r BY <1>3 DEF Servers
<1>5. c \in Servers /\ c.todo = server.todo /\ c.cur = r /\ c.snap = row BY <1>4 DEF Servers
<1>6. server' = c BY DEF Then
<1> HIDE DEF c
<1> QED BY <1>5, <1>6 DEF ServerKept, ServerOK

\* Releasing, binding and claiming the lock evolve the owner's row, and so does
\* recording the first launch.
LEMMA LockOps ==
  ASSUME NEW row \in Rows, row.status # "none"
  PROVE  /\ \A r, n : Evolves(row, Released(row, r, n))
         /\ Evolves(row, Bound(row))
         /\ Evolves(row, ClaimedRow(row))
<1>1. Evolves(row, row) /\ Evolves(row, Bump(row)) BY SmallOps
<1>2. \A r, n : Evolves(row, Released(row, r, n)) BY <1>1 DEF Released
<1>3. Evolves(row, Bound(row)) BY <1>1 DEF Bound
<1>4. Bound(row) \in Rows /\ Bound(row).status # "none" BY <1>3 DEF Evolves
<1>5. Evolves(row, Bump(Bound(row))) BY <1>3, <1>4, SmallOps, EvolvesTrans, RowOpTypes
<1>6. Evolves(row, ClaimedRow(row)) BY <1>3, <1>5 DEF ClaimedRow
<1> QED BY <1>2, <1>3, <1>6

\* record_worker_launch of the first launch counts an attempt and evolves the row.
LEMMA FirstLaunch ==
  ASSUME NEW row \in Rows, row.status = "launch_pending", row.att = 0
  PROVE  Evolves(row, FirstLaunched(row))
<1>1. Launched(row) \in Rows BY RowOpTypes
<1>2. /\ Launched(row).ver = row.ver + 1 /\ Launched(row).status = "queued"
      /\ Launched(row).lease = row.lease /\ Launched(row).att = 0
      /\ Launched(row).wpid = row.wpid
  BY DEF Rows, Bump, Launched
<1> DEFINE new == FirstLaunched(row)
<1>3. new = [Launched(row) EXCEPT !.att = 1] BY <1>2 DEF FirstLaunched
<1>4. new \in Rows
  <2>1. 1 \in 0..MaxLaunchAttempts BY DEF MaxLaunchAttempts
  <2> QED BY <1>1, <1>3, <2>1, RowFields, Zenon
<1>5. /\ new.ver = row.ver + 1 /\ new.status = "queued" /\ new.lease = row.lease
      /\ new.att = 1 /\ new.wpid = row.wpid
  BY <1>1, <1>2, <1>3 DEF Rows
<1>6. row.ver \in Nat BY DEF Rows
<1> QED BY <1>4, <1>5, <1>6 DEF Evolves, Unclaimed

\* What the invariant says about one run.
LEMMA Here ==
  ASSUME IInv, NEW r \in Runs
  PROVE  /\ run[r] \in Rows /\ thread[r] \in Threads /\ canceller[r] \in Cancels
         /\ listed[r] \in Rows /\ server \in Servers /\ lock \in Locks
         /\ \A n \in Leases : worker[r][n] \in Workers
         /\ r \in Owners
         /\ RunOK(r)
  BY DEF IInv, TypeOK, Owners

\* A publication succeeds or fails.
LEMMA Outcomes == \A r : PublishOutcomes(r) \subseteq BOOLEAN
  BY DEF PublishOutcomes

----
(* The launching threads. *)

\* Acquiring the lock, releasing it from a synchronous operation and the death
\* of a host process preserve the invariant.
LEMMA AcquireInv ==
  ASSUME IInv, NEW o \in Owners
  PROVE  /\ \A h \in Hosts : AcquireRead(o, h) => IInv'
         /\ AcquireInsert(o) => IInv'
         /\ SyncRelease(o) => IInv'
         /\ HostCrash(o) => IInv'
<1>0. thread \in [Owners -> Threads] /\ Runs \subseteq Owners /\ lock \in Locks
  BY DEF IInv, TypeOK, Owners
<1>1. ASSUME NEW h \in Hosts, AcquireRead(o, h) PROVE IInv'
  <2>1. Steady /\ LockKept /\ WorkersKept /\ CancelsKept /\ ServerKept /\ ListedKept
    BY <1>1, Unchanged DEF AcquireRead
  <2>2. CASE End(o, "refused") BY <2>1, <2>2, EndKept, Frame DEF OthersKept
  <2>3. CASE thread' = [thread EXCEPT ![o] =
               [pc |-> "insert", host |-> h, seen |-> lock.run, snap |-> NoRow]]
    <3>1. [pc |-> "insert", host |-> h, seen |-> lock.run, snap |-> NoRow] \in Threads
      BY <1>0, HostsAssumption, NoRowType DEF Threads, ThreadPCs, Locks
    <3>2. o \in Runs => run'[o].status = "none" BY <1>1, Here DEF AcquireRead, RunOK, ThreadOK
    <3>3. ThreadsKept BY <1>0, <2>3, <3>1, <3>2 DEF ThreadsKept, ThreadOK, CreatedPCs
    <3> QED BY <2>1, <3>3, Frame DEF OthersKept
  <2> QED BY <1>1, <2>2, <2>3 DEF AcquireRead
<1>2. ASSUME AcquireInsert(o) PROVE IInv'
  <2>1. WorkersKept /\ CancelsKept /\ ServerKept /\ ListedKept BY <1>2, Unchanged DEF AcquireInsert
  <2>2. CASE End(o, "refused") /\ UNCHANGED <<run, lock>>
    BY <2>1, <2>2, EndKept, Unchanged, Frame DEF OthersKept
  <2>3. CASE ~(lock # NoLock /\ thread[o].seen = None)
    <3> DEFINE old == thread[o].seen
    <3>1. Steady
      <4>1. CASE run' = run BY <4>1, Unchanged
      <4>2. CASE old \in Runs /\ Exists(old) /\ Save(old, Bump(run[old]))
        BY <4>2, Here, SmallOps, SaveSteady DEF Exists
      <4> QED BY <1>2, <2>3, <4>1, <4>2 DEF AcquireInsert, Save
    <3>2. o \in Runs => run'[o].status = "none"
      BY <1>2, <3>1, Here DEF AcquireInsert, RunOK, ThreadOK, Steady, SteadyAt
    <3>3. LockKept
      <4>1. lock' = [run |-> o, lease |-> 1, owner |-> "host", bound |-> FALSE]
        BY <1>2, <2>3 DEF AcquireInsert
      <4>2. lock' \in Locks BY <4>1 DEF Locks, Leases, MaxLaunchAttempts
      <4> QED BY <3>2, <4>1, <4>2 DEF LockKept, LockOK
    <3>4. ThreadsKept
      <4> DEFINE a == [thread[o] EXCEPT !.pc = IF o \in Runs THEN "create" ELSE "work"]
                 t == [a EXCEPT !.seen = None]
      <4>1. a \in Threads /\ a.pc = IF o \in Runs THEN "create" ELSE "work"
        BY <1>0 DEF Threads, ThreadPCs
      <4>2. t \in Threads /\ t.pc = IF o \in Runs THEN "create" ELSE "work" BY <4>1 DEF Threads
      <4>3. thread' = [thread EXCEPT ![o] = t] BY <1>0, <1>2, <2>3 DEF AcquireInsert
      <4> HIDE DEF t
      <4> QED BY <1>0, <3>2, <4>2, <4>3 DEF ThreadsKept, ThreadOK, CreatedPCs
    <3> QED BY <2>1, <3>1, <3>3, <3>4, Frame DEF OthersKept
  <2> QED BY <1>2, <2>2, <2>3 DEF AcquireInsert
<1>3. ASSUME SyncRelease(o) PROVE IInv'
  <2>1. Steady /\ WorkersKept /\ CancelsKept /\ ServerKept /\ ListedKept
    BY <1>3, Unchanged DEF SyncRelease
  <2>2. LockKept BY <1>3, LockSteps, Unchanged DEF SyncRelease
  <2>3. ThreadsKept BY <1>3, EndKept DEF SyncRelease
  <2> QED BY <2>1, <2>2, <2>3, Frame DEF OthersKept
<1>4. ASSUME HostCrash(o) PROVE IInv'
  <2>1. Steady /\ LockKept /\ WorkersKept /\ CancelsKept /\ ServerKept /\ ListedKept
    BY <1>4, Unchanged DEF HostCrash
  <2>2. ThreadsKept BY <1>4, EndKept DEF HostCrash
  <2> QED BY <2>1, <2>2, Frame DEF OthersKept
<1> QED BY <1>1, <1>2, <1>3, <1>4

\* Creating the row: nobody has acted on the run yet.
LEMMA CreateInv ==
  ASSUME IInv, NEW r \in Runs, CreateRun(r)
  PROVE  IInv'
<1>0. WorkersKept /\ CancelsKept /\ ServerKept /\ ListedKept BY Unchanged DEF CreateRun
<1>1. run[r].status = "none" /\ RunOK(r) BY Here DEF CreateRun, RunOK, ThreadOK
<1>2. CASE ReleaseLock(r, 1) /\ End(r, "failed") /\ UNCHANGED run
  BY <1>0, <1>2, Here, Unchanged, LockSteps, EndKept, Frame DEF OthersKept
<1>3. CASE Save(r, NewRow) /\ Goto(r, "bind") /\ UNCHANGED lock
  <2>1. NewRow \in Rows /\ NewRow.status = "launch_pending" /\ NewRow.lease = 1 /\ NewRow.att = 0
    <3>1. 1 \in {0} \cup Leases BY DEF Leases, MaxLaunchAttempts
    <3>2. NewRow \in Rows BY <3>1, NoRowType, RowFields, Literals, Zenon DEF NewRow
    <3>3. NewRow.status = "launch_pending" /\ NewRow.lease = 1 /\ NewRow.att = 0
      BY DEF NewRow, NoRow
    <3> QED BY <3>2, <3>3
  <2>2. run' \in [Runs -> Rows] /\ run'[r] = NewRow /\ \A s \in Runs \ {r} : run'[s] = run[s]
    BY <1>3, <2>1 DEF IInv, TypeOK, Save
  <2>3. ThreadsKept BY <1>3, <2>1, <2>2, Here, GotoKept DEF ThreadPCs
  <2>4. LockKept BY <1>3, Unchanged
  <2>5. OthersKept BY <1>0, <2>3, <2>4 DEF OthersKept
  <2>6. \A s \in Runs \ {r} : RunOK(s)' BY <2>2, <2>5, FrameAt DEF SteadyAt
  <2>7. RunOK(r)'
    <3>1. RowOK(NewRow) BY <2>1 DEF RowOK, Leases, MaxLaunchAttempts
    <3>2. canceller'[r].pc = "idle" /\ CancelOK(canceller'[r], NewRow)
      BY <1>1, <1>3 DEF CreateRun, RunOK, CancelOK
    <3>3. ListedOK(listed'[r], NewRow) BY <1>1, <1>3 DEF CreateRun, RunOK, ListedOK
    <3>4. ServerOK(server', r, NewRow) BY <1>1, <1>3 DEF CreateRun, RunOK, ServerOK
    <3>5. LockOK(lock', r, NewRow) BY <1>1, <1>3, <2>1 DEF RunOK, LockOK
    <3>6. \A n \in Leases : WorkerOK(worker'[r][n], NewRow, n)
      BY <1>1, <1>3, <2>1 DEF CreateRun, RunOK, WorkerOK, NoWorker, ClaimedPCs
    <3>7. ThreadOK(thread'[r], NewRow) BY <1>3, <2>1, Here DEF Goto, IInv, TypeOK, ThreadOK, Threads
    <3> QED BY <2>2, <3>1, <3>2, <3>3, <3>4, <3>5, <3>6, <3>7
            DEF RunOK, RowOK, ThreadOK, CancelOK, ListedOK, ServerOK, LockOK, WorkerOK, Agrees, Unclaimed
  <2>8. TypeOK'
    BY <2>2, <2>5 DEF TypeOK, OthersKept, LockKept, ThreadsKept, WorkersKept, CancelsKept,
           ListedKept, ServerKept
  <2> QED BY <2>6, <2>7, <2>8 DEF IInv
<1> QED BY <1>2, <1>3 DEF CreateRun

\* A process record keeps its type when a field takes a value of its type.
LEMMA WorkerFields ==
  ASSUME NEW w \in Workers
  PROVE  /\ \A x \in WorkerPCs : [w EXCEPT !.pc = x] \in Workers
         /\ \A x \in BOOLEAN : [w EXCEPT !.child = x] \in Workers
         /\ \A x \in Rows : [w EXCEPT !.snap = x] \in Workers
         /\ \A x \in {"none", "cancellation_pending", "completed", "failed", "timed_out"} :
              [w EXCEPT !.out = x] \in Workers
<1>1. \A x \in WorkerPCs : [w EXCEPT !.pc = x] \in Workers BY DEF Workers
<1>2. \A x \in BOOLEAN : [w EXCEPT !.child = x] \in Workers BY DEF Workers
<1>3. \A x \in Rows : [w EXCEPT !.snap = x] \in Workers BY DEF Workers
<1>4. \A x \in {"none", "cancellation_pending", "completed", "failed", "timed_out"} :
        [w EXCEPT !.out = x] \in Workers
  BY DEF Workers
<1> QED BY <1>1, <1>2, <1>3, <1>4

\* An exited process, and what terminate_process_tree leaves behind, satisfies
\* the invariant.
LEMMA TerminateOK ==
  ASSUME NEW w \in Workers, NEW K
  PROVE  /\ Exited(w) \in Workers /\ Exited(w).pc = "exited" /\ Exited(w).child = w.child
         /\ Terminate(w, K) \in Workers
         /\ \A row, n : row.status # "none" /\ WorkerOK(w, row, n)
                        => /\ WorkerOK(Exited(w), row, n)
                           /\ WorkerOK(Terminate(w, K), row, n)
<1>1. NoWorker \in Workers /\ NoWorker.pc = "none" /\ NoWorker.child = FALSE
  BY NoRowType DEF NoWorker, Workers, WorkerPCs
<1>2. w.child \in BOOLEAN /\ "exited" \in WorkerPCs BY DEF Workers, WorkerPCs
<1>3. Exited(w) \in Workers BY <1>1, <1>2, WorkerFields, Zenon DEF Exited
<1>4. Exited(w).pc = "exited" /\ Exited(w).child = w.child BY <1>1 DEF Exited, NoWorker
<1> DEFINE v == IF "worker" \in K /\ w.pc \notin {"none", "exited"} THEN Exited(w) ELSE w
           b == v.child /\ "child" \notin K
                /\ ~("worker" \in K /\ w.pc \notin {"none", "exited"} /\ TreeKill)
           u == [v EXCEPT !.child = b]
<1>5. v \in Workers /\ (v.pc = w.pc \/ v.pc = "exited") /\ v.child = w.child /\ (v.pc = w.pc => v = w \/ v.pc = "exited")
  BY <1>3, <1>4
<1>6. Terminate(w, K) = u BY <1>5 DEF Terminate
<1>7. u \in Workers /\ u.pc = v.pc /\ (u.child => w.child) /\ u.snap = v.snap BY <1>5 DEF Workers
<1>8. ASSUME NEW row, NEW n, row.status # "none", WorkerOK(w, row, n)
      PROVE  WorkerOK(Exited(w), row, n) /\ WorkerOK(u, row, n)
  <2>1. WorkerOK(Exited(w), row, n) BY <1>4, <1>8 DEF WorkerOK, ClaimedPCs
  <2>2. u.pc \in {"claim", "lost", "commit"} => u.snap = w.snap /\ u.pc = w.pc BY <1>5, <1>7
  <2>3. u.pc \in ClaimedPCs => w.pc \in ClaimedPCs BY <1>5, <1>7 DEF ClaimedPCs
  <2> HIDE DEF u
  <2>4. WorkerOK(u, row, n) BY <1>7, <1>8, <2>2, <2>3 DEF WorkerOK
  <2> QED BY <2>1, <2>4
<1> HIDE DEF u
<1> QED BY <1>3, <1>4, <1>6, <1>7, <1>8

\* A process that executes a run keeps its right to, whatever it does next.
LEMMA WorkerMove ==
  ASSUME NEW w \in Workers, NEW v \in Workers, NEW row \in Rows, NEW n \in Leases,
         WorkerOK(w, row, n), w.pc \in ClaimedPCs, row.status # "none",
         v.pc \in {"claim", "lost", "commit"} => Agrees(v.snap, row)
  PROVE  WorkerOK(v, row, n)
  BY DEF WorkerOK

\* A run with a process, or whose launching thread got past its creation, exists.
LEMMA RunExists ==
  ASSUME IInv, NEW r \in Runs
  PROVE  /\ \A n \in Leases : worker[r][n].pc # "none" \/ worker[r][n].child
                              => run[r].status # "none"
         /\ thread[r].pc \in CreatedPCs => run[r].status # "none"
         /\ canceller[r].pc # "idle" => run[r].status # "none"
         /\ server.cur = r => run[r].status # "none"
         /\ r \in server.todo => run[r].status # "none"
  BY Here DEF RunOK, WorkerOK, NoWorker, ThreadOK, CancelOK, ServerOK

\* Publishing and then releasing is a steady step.
LEMMA ReleaseSteady ==
  ASSUME IInv, NEW r \in Runs, run[r].status # "none", NEW ok \in BOOLEAN, NEW n,
         Save(r, Released(Published(run[r], ok), r, n))
  PROVE  Steady
<1>1. run[r] \in Rows BY Here
<1>2. Evolves(run[r], Published(run[r], ok)) BY <1>1, SmallOps
<1>3. Published(run[r], ok) \in Rows /\ Published(run[r], ok).status # "none" BY <1>2 DEF Evolves
<1>4. Evolves(Published(run[r], ok), Released(Published(run[r], ok), r, n)) BY <1>3, LockOps
<1>5. Evolves(run[r], Released(Published(run[r], ok), r, n))
  BY <1>1, <1>2, <1>3, <1>4, EvolvesTrans DEF Evolves
<1> QED BY <1>5, SaveSteady

----
(* Launching a created run. *)

\* Every step of _create_and_launch preserves the invariant.
LEMMA LaunchInv ==
  ASSUME IInv, NEW r \in Runs, LaunchStep(r)
  PROVE  IInv'
<1>0. /\ run[r] \in Rows /\ thread[r] \in Threads /\ RunOK(r) /\ r \in Owners
      /\ \A n \in Leases : worker[r][n] \in Workers /\ WorkerOK(worker[r][n], run[r], n)
      /\ 1 \in Leases /\ thread[r].snap \in Rows
  BY Here DEF Leases, MaxLaunchAttempts, RunOK, Threads
<1>1. CASE CreateRun(r) BY <1>1, CreateInv
<1>2. CASE BindRun(r)
  <2>1. WorkersKept /\ CancelsKept /\ ServerKept /\ ListedKept BY <1>2, Unchanged DEF BindRun
  <2>2. run[r].status # "none" BY <1>2, RunExists DEF BindRun, CreatedPCs
  <2>3. CASE ~HoldsLock(r, 1)
    <3>1. GotoWith(r, "fail", run[r]) /\ run' = run /\ lock' = lock BY <1>2, <2>3 DEF BindRun
    <3>2. ThreadsKept BY <1>0, <2>2, <3>1, AgreesSelf, GotoWithKept DEF ThreadPCs
    <3> QED BY <2>1, <3>1, <3>2, Unchanged, Frame DEF OthersKept
  <2>4. CASE HoldsLock(r, 1)
    <3> DEFINE row == SetPhase(Bound(run[r]), "launch_pending")
    <3>1. /\ Save(r, row) /\ lock' = [lock EXCEPT !.bound = TRUE]
          /\ GotoWith(r, "spawn", row) \/ GotoWith(r, "fail", row)
      BY <1>2, <2>4 DEF BindRun
    <3>2. Evolves(run[r], row)
      <4>1. Evolves(run[r], Bound(run[r])) /\ Bound(run[r]) \in Rows
            /\ Bound(run[r]).status # "none"
        BY <1>0, <2>2, LockOps DEF Evolves
      <4>2. Evolves(Bound(run[r]), row) BY <4>1, SmallOps, Literals
      <4> QED BY <1>0, <4>1, <4>2, EvolvesTrans DEF Evolves
    <3> HIDE DEF row
    <3>3. Steady /\ run'[r] = row BY <2>2, <3>1, <3>2, SaveSteady
    <3>4. row \in Rows /\ row.status # "none" BY <3>2 DEF Evolves
    <3>5. ThreadsKept BY <1>0, <3>1, <3>3, <3>4, AgreesSelf, GotoWithKept DEF ThreadPCs
    <3>6. LockKept BY <3>1, LockSteps
    <3> QED BY <2>1, <3>3, <3>5, <3>6, Frame DEF OthersKept
  <2> QED BY <2>3, <2>4
<1>3. CASE SpawnWorker(r)
  <2>1. Steady /\ LockKept /\ CancelsKept /\ ServerKept /\ ListedKept /\ run' = run
    BY <1>3, Unchanged DEF SpawnWorker
  <2>2. run[r].status # "none" BY <1>3, RunExists DEF SpawnWorker, CreatedPCs
  <2>3. CASE worker' = [worker EXCEPT ![r][1].pc = "boot"] /\ Goto(r, "record")
    <3> DEFINE v == [worker[r][1] EXCEPT !.pc = "boot"]
    <3>1. SetWorker(r, 1, v) BY <2>3 DEF SetWorker
    <3>2. v \in Workers /\ v.pc = "boot" /\ v.child = worker[r][1].child
      BY <1>0 DEF Workers, WorkerPCs
    <3> HIDE DEF v
    <3>3. WorkerOK(v, run[r], 1) BY <1>0, <2>2, <3>2 DEF WorkerOK, ClaimedPCs
    <3>4. WorkersKept BY <1>0, <2>1, <3>1, <3>2, <3>3, SetWorkerKept
    <3>5. Agrees(thread[r].snap, run[r]) BY <1>0, <1>3 DEF SpawnWorker, RunOK, ThreadOK
    <3>6. ThreadsKept BY <1>0, <2>1, <2>2, <2>3, <3>5, GotoKept DEF ThreadPCs
    <3> QED BY <2>1, <3>4, <3>6, Frame DEF OthersKept
  <2>4. CASE GotoWith(r, "fail", run[r]) /\ UNCHANGED worker
    <3>1. ThreadsKept BY <1>0, <2>1, <2>2, <2>4, AgreesSelf, GotoWithKept DEF ThreadPCs
    <3> QED BY <2>1, <2>4, <3>1, Unchanged, Frame DEF OthersKept
  <2> QED BY <1>3, <2>3, <2>4 DEF SpawnWorker
<1>4. CASE RecordLaunch(r)
  <2>1. LockKept /\ CancelsKept /\ ServerKept /\ ListedKept BY <1>4, Unchanged DEF RecordLaunch
  <2>2. run[r].status # "none" BY <1>4, RunExists DEF RecordLaunch, CreatedPCs
  <2> DEFINE won == run[r].status = "launch_pending"
                    /\ Matches(run[r], [thread[r].snap EXCEPT !.lease = 1])
             row == IF won THEN FirstLaunched(run[r]) ELSE run[r]
  <2>3. Evolves(run[r], row)
    <3>1. CASE ~won BY <1>0, <2>2, <3>1, SmallOps
    <3>2. CASE won
      <4>1. run[r].lease = 1 BY <1>0, <3>2 DEF Matches, Rows
      <4>2. run[r].att = 0 BY <1>0, <3>2, <4>1 DEF RunOK, RowOK
      <4> QED BY <1>0, <3>2, <4>2, FirstLaunch
    <3> QED BY <3>1, <3>2
  <2>4. /\ Save(r, row)
        /\ \/ GotoWith(r, "event", NoRow) /\ UNCHANGED worker
           \/ /\ \E K : worker' = [worker EXCEPT ![r][1] = Terminate(worker[r][1], K)]
              /\ GotoWith(r, "fail", row)
    BY <1>4 DEF RecordLaunch
  <2> HIDE DEF row
  <2>5. Steady /\ run'[r] = row BY <2>2, <2>3, <2>4, SaveSteady
  <2>6. row \in Rows /\ row.status # "none" BY <2>3 DEF Evolves
  <2>7. CASE GotoWith(r, "event", NoRow) /\ UNCHANGED worker
    <3>1. ThreadsKept BY <1>0, <2>5, <2>6, <2>7, NoRowType, GotoWithKept DEF ThreadPCs
    <3> QED BY <2>1, <2>5, <2>7, <3>1, Unchanged, Frame DEF OthersKept
  <2>8. CASE /\ \E K : worker' = [worker EXCEPT ![r][1] = Terminate(worker[r][1], K)]
             /\ GotoWith(r, "fail", row)
    <3>1. PICK K : worker' = [worker EXCEPT ![r][1] = Terminate(worker[r][1], K)] BY <2>8
    <3>2. Terminate(worker[r][1], K) \in Workers /\ SetWorker(r, 1, Terminate(worker[r][1], K))
      BY <1>0, <3>1, TerminateOK DEF SetWorker
    <3>3. WorkerOK(worker[r][1], row, 1) BY <1>0, <2>2, <2>3, EvolvesKeeps
    <3>4. WorkerOK(Terminate(worker[r][1], K), row, 1) BY <1>0, <2>6, <3>3, TerminateOK
    <3>5. WorkersKept BY <1>0, <2>5, <3>2, <3>4, SetWorkerKept
    <3>6. ThreadsKept BY <1>0, <2>5, <2>6, <2>8, AgreesSelf, GotoWithKept DEF ThreadPCs
    <3> QED BY <2>1, <2>5, <3>5, <3>6, Frame DEF OthersKept
  <2> QED BY <2>4, <2>7, <2>8
<1>5. CASE LaunchEvent(r)
  <2>1. LockKept /\ WorkersKept /\ CancelsKept /\ ServerKept /\ ListedKept
    BY <1>5, Unchanged DEF LaunchEvent
  <2>2. run[r].status # "none" BY <1>5, RunExists DEF LaunchEvent, CreatedPCs
  <2> DEFINE row == SetPhase(run[r], "worker")
  <2>3. Evolves(run[r], row) BY <1>0, <2>2, SmallOps, Literals
  <2>4. Save(r, row) /\ (End(r, "accepted") \/ GotoWith(r, "fail", row)) BY <1>5 DEF LaunchEvent
  <2> HIDE DEF row
  <2>5. Steady /\ run'[r] = row /\ row \in Rows /\ row.status # "none"
    BY <2>2, <2>3, <2>4, SaveSteady DEF Evolves
  <2>6. ThreadsKept BY <1>0, <2>4, <2>5, AgreesSelf, GotoWithKept, EndKept DEF ThreadPCs
  <2> QED BY <2>1, <2>5, <2>6, Frame DEF OthersKept
<1>6. CASE FailLaunch(r)
  <2>1. LockKept /\ WorkersKept /\ CancelsKept /\ ServerKept /\ ListedKept
    BY <1>6, Unchanged DEF FailLaunch
  <2>2. run[r].status # "none" BY <1>6, RunExists DEF FailLaunch, CreatedPCs
  <2>3. CASE End(r, "failed") /\ UNCHANGED run
    BY <1>0, <2>1, <2>3, EndKept, Unchanged, Frame DEF OthersKept
  <2>4. CASE Save(r, ToTerminal(run[r], "failed")) /\ Goto(r, "undo")
    <3>1. Evolves(run[r], ToTerminal(run[r], "failed")) BY <1>0, <2>2, StatusOps DEF Terminal
    <3>2. Steady /\ run'[r].status # "none" BY <2>2, <2>4, <3>1, SaveSteady DEF Evolves
    <3>3. ThreadsKept BY <1>0, <2>4, <3>2, GotoKept DEF ThreadPCs
    <3> QED BY <2>1, <3>2, <3>3, Frame DEF OthersKept
  <2> QED BY <1>6, <2>3, <2>4 DEF FailLaunch
<1>7. CASE UndoLaunch(r)
  <2>1. WorkersKept /\ CancelsKept /\ ServerKept /\ ListedKept BY <1>7, Unchanged DEF UndoLaunch
  <2>2. run[r].status # "none" BY <1>7, RunExists DEF UndoLaunch, CreatedPCs
  <2>3. PICK ok \in BOOLEAN :
          Save(r, Released(Published(run[r], ok), r, thread[r].snap.lease))
    BY <1>7, Outcomes DEF UndoLaunch
  <2>4. Steady BY <1>0, <2>2, <2>3, ReleaseSteady
  <2>5. LockKept BY <1>0, <1>7, LockSteps DEF UndoLaunch, Rows, Leases
  <2>6. ThreadsKept BY <1>0, <1>7, EndKept DEF UndoLaunch
  <2> QED BY <2>1, <2>4, <2>5, <2>6, Frame DEF OthersKept
<1> QED BY <1>1, <1>2, <1>3, <1>4, <1>5, <1>6, <1>7 DEF LaunchStep

----
(* Worker processes. *)

\* A worker step that saves row and leaves the worker as v.
LEMMA WorkerFrame ==
  ASSUME IInv, NEW r \in Runs, NEW n \in Leases, NEW row, NEW v \in Workers,
         run[r].status # "none", Evolves(run[r], row), Save(r, row), SetWorker(r, n, v),
         WorkerOK(v, row, n), LockKept, UNCHANGED <<thread, canceller, server, listed>>
  PROVE  IInv'
<1>1. Steady /\ run'[r] = row BY SaveSteady
<1>2. WorkersKept BY <1>1, SetWorkerKept
<1> QED BY <1>1, <1>2, Unchanged, Frame DEF OthersKept

\* Every step of a worker process and its child preserves the invariant.
LEMMA WorkerInv ==
  ASSUME IInv, NEW r \in Runs, NEW n \in Leases,
         WorkerStep(r, n) \/ Heartbeat(r, n) \/ ChildExit(r, n) \/ WorkerCrash(r, n)
  PROVE  IInv'
<1> DEFINE w == worker[r][n]
<1>0. /\ run[r] \in Rows /\ w \in Workers /\ WorkerOK(w, run[r], n) /\ RunOK(r)
      /\ run = [run EXCEPT ![r] = run[r]] /\ n \in Nat
  BY Here DEF RunOK, IInv, TypeOK, Leases
<1>a. w.pc # "none" \/ w.child => run[r].status # "none" /\ Evolves(run[r], run[r])
  BY <1>0, RunExists, SmallOps
<1>b. UNCHANGED run => Save(r, run[r]) BY <1>0 DEF Save
<1>c. UNCHANGED lock => LockKept BY Unchanged
<1> HIDE DEF w
<1>1. CASE WorkerRead(r, n)
  <2> DEFINE v == IF run[r].status = "cancelled" THEN Exited(w)
                  ELSE [[w EXCEPT !.pc = "claim"] EXCEPT !.snap = run[r]]
  <2>1. w.pc = "boot" /\ SetWorker(r, n, v) /\ run' = run /\ lock' = lock
        /\ UNCHANGED <<thread, canceller, server, listed>>
    BY <1>1 DEF WorkerRead, w
  <2>2. v \in Workers /\ WorkerOK(v, run[r], n)
    <3>1. CASE run[r].status = "cancelled" BY <1>0, <1>a, <2>1, <3>1, TerminateOK
    <3>2. CASE run[r].status # "cancelled"
      <4>1. v \in Workers BY <1>0, <3>2, WorkerFields, Zenon DEF WorkerPCs
      <4>2. v.pc = "claim" /\ v.snap = run[r] /\ v.child = w.child BY <1>0, <3>2 DEF Workers
      <4> HIDE DEF v
      <4> QED BY <1>0, <1>a, <2>1, <4>1, <4>2, AgreesSelf DEF WorkerOK, ClaimedPCs
    <3> QED BY <3>1, <3>2
  <2> HIDE DEF v
  <2> QED BY <1>0, <1>a, <1>b, <1>c, <2>1, <2>2, WorkerFrame
<1>2. CASE WorkerClaim(r, n)
  <2>1. w.pc = "claim" /\ lock' = lock /\ UNCHANGED <<thread, canceller, server, listed>>
    BY <1>2 DEF WorkerClaim, w
  <2>2. CASE MayClaim(run[r], w.snap, n)
    <3> DEFINE v == [[w EXCEPT !.pc = "lock"] EXCEPT !.snap = NoRow]
               row == ToRunning(run[r])
    <3>1. Save(r, row) /\ SetWorker(r, n, v) BY <1>2, <2>2 DEF WorkerClaim, w
    <3>2. v \in Workers BY <1>0, NoRowType, WorkerFields, Zenon DEF WorkerPCs
    <3>3. v.pc = "lock" BY <1>0 DEF Workers
    <3>4. row.status = "running" /\ row.wpid /\ row.lease = n
      BY <1>0, <2>2 DEF ToRunning, Bump, Rows, MayClaim
    <3>5. Evolves(run[r], row) BY <1>0, <1>a, <2>1, StatusOps
    <3> HIDE DEF v, row
    <3>6. WorkerOK(v, row, n) BY <3>3, <3>4 DEF WorkerOK, Unclaimed
    <3> QED BY <1>0, <1>a, <1>c, <2>1, <3>1, <3>2, <3>5, <3>6, WorkerFrame
  <2>3. CASE ~MayClaim(run[r], w.snap, n)
    <3>1. SetWorker(r, n, Exited(w)) /\ run' = run BY <1>2, <2>3 DEF WorkerClaim, w
    <3>2. Exited(w) \in Workers /\ WorkerOK(Exited(w), run[r], n) BY <1>0, <1>a, <2>1, TerminateOK
    <3> QED BY <1>0, <1>a, <1>b, <1>c, <2>1, <3>1, <3>2, WorkerFrame
  <2> QED BY <2>2, <2>3
<1>3. CASE WorkerLock(r, n)
  <2>1. w.pc = "lock" /\ UNCHANGED <<thread, canceller, server, listed>> BY <1>3 DEF WorkerLock, w
  <2>2. CASE HoldsLock(r, n)
    <3> DEFINE v == [w EXCEPT !.pc = "spawn"]
               row == Progress(ClaimedRow(run[r]), n, "worker")
    <3>1. lock' = ClaimedLock /\ Save(r, row) /\ SetWorker(r, n, v) BY <1>3, <2>2 DEF WorkerLock, w
    <3>2. v \in Workers /\ v.pc = "spawn" BY <1>0 DEF Workers, WorkerPCs
    <3>3. Evolves(run[r], row)
      <4>1. Evolves(run[r], ClaimedRow(run[r])) BY <1>0, <1>a, <2>1, LockOps
      <4>2. ClaimedRow(run[r]) \in Rows /\ ClaimedRow(run[r]).status # "none" BY <4>1 DEF Evolves
      <4>3. Evolves(ClaimedRow(run[r]), row) BY <4>2, SmallOps, Literals
      <4> QED BY <1>0, <4>1, <4>2, <4>3, EvolvesTrans DEF Evolves
    <3> HIDE DEF v, row
    <3>4. row \in Rows /\ row.status # "none" /\ WorkerOK(w, row, n)
      BY <1>0, <1>a, <2>1, <3>3, EvolvesKeeps DEF Evolves
    <3>5. WorkerOK(v, row, n) BY <1>0, <2>1, <3>2, <3>4, WorkerMove DEF ClaimedPCs, WorkerPCs
    <3> QED BY <1>a, <2>1, <3>1, <3>2, <3>3, <3>5, LockSteps, WorkerFrame
  <2>3. CASE ~HoldsLock(r, n)
    <3> DEFINE v == [[w EXCEPT !.pc = "lost"] EXCEPT !.snap = run[r]]
    <3>1. SetWorker(r, n, v) /\ run' = run /\ lock' = lock BY <1>3, <2>3 DEF WorkerLock, w
    <3>2. v \in Workers BY <1>0, WorkerFields, Zenon DEF WorkerPCs
    <3>3. v.pc = "lost" /\ v.snap = run[r] BY <1>0 DEF Workers
    <3> HIDE DEF v
    <3>4. WorkerOK(v, run[r], n)
      BY <1>0, <1>a, <2>1, <3>2, <3>3, AgreesSelf, WorkerMove DEF ClaimedPCs, WorkerPCs
    <3> QED BY <1>a, <1>b, <1>c, <2>1, <3>1, <3>2, <3>4, WorkerFrame
  <2> QED BY <2>2, <2>3
<1>4. CASE WorkerLost(r, n)
  <2> DEFINE row == IF run[r].status = "running" /\ run[r].lease = n /\ MatchesBeat(run[r], w.snap)
                    THEN ToRecoveryPending(run[r]) ELSE run[r]
  <2>1. w.pc = "lost" /\ Save(r, row) /\ SetWorker(r, n, Exited(w)) /\ lock' = lock
        /\ UNCHANGED <<thread, canceller, server, listed>>
    BY <1>4, <1>b DEF WorkerLost, w
  <2>2. Evolves(run[r], row) BY <1>0, <1>a, <2>1, StatusOps
  <2> HIDE DEF row
  <2>3. row.status # "none" /\ WorkerOK(w, row, n)
    BY <1>0, <1>a, <2>1, <2>2, EvolvesKeeps DEF Evolves
  <2>4. Exited(w) \in Workers /\ WorkerOK(Exited(w), row, n) BY <1>0, <2>3, TerminateOK
  <2> QED BY <1>a, <1>c, <2>1, <2>2, <2>4, WorkerFrame
<1>5. CASE StartChild(r, n)
  <2>1. w.pc = "spawn" /\ lock' = lock /\ UNCHANGED <<thread, canceller, server, listed>>
    BY <1>5 DEF StartChild, w
  <2>2. CASE /\ Save(r, Progress(run[r], n, "executable"))
             /\ SetWorker(r, n, [[w EXCEPT !.pc = "attach"] EXCEPT !.child = TRUE])
    <3> DEFINE v == [[w EXCEPT !.pc = "attach"] EXCEPT !.child = TRUE]
               row == Progress(run[r], n, "executable")
    <3>1. Evolves(run[r], row) BY <1>0, <1>a, <2>1, SmallOps, Literals
    <3>2. v \in Workers BY <1>0, WorkerFields, Zenon DEF WorkerPCs
    <3>3. v.pc = "attach" BY <1>0 DEF Workers
    <3>4. Save(r, row) /\ SetWorker(r, n, v) BY <2>2
    <3> HIDE DEF v, row
    <3>5. row \in Rows /\ row.status # "none" /\ WorkerOK(w, row, n)
      BY <1>0, <1>a, <2>1, <3>1, EvolvesKeeps DEF Evolves
    <3>6. WorkerOK(v, row, n) BY <1>0, <2>1, <3>2, <3>3, <3>5, WorkerMove DEF ClaimedPCs, WorkerPCs
    <3> QED BY <1>a, <1>c, <2>1, <3>1, <3>2, <3>4, <3>6, WorkerFrame
  <2>3. CASE /\ SetWorker(r, n, [[w EXCEPT !.pc = "finish"] EXCEPT !.out = "failed"])
             /\ UNCHANGED run
    <3> DEFINE v == [[w EXCEPT !.pc = "finish"] EXCEPT !.out = "failed"]
    <3>1. v \in Workers BY <1>0, WorkerFields, Zenon DEF WorkerPCs
    <3>2. v.pc = "finish" BY <1>0 DEF Workers
    <3>3. SetWorker(r, n, v) BY <2>3
    <3> HIDE DEF v
    <3>4. WorkerOK(v, run[r], n)
      BY <1>0, <1>a, <2>1, <3>1, <3>2, WorkerMove DEF ClaimedPCs, WorkerPCs
    <3> QED BY <1>a, <1>b, <1>c, <2>1, <2>3, <3>1, <3>3, <3>4, WorkerFrame
  <2> QED BY <1>5, <2>2, <2>3 DEF StartChild, w
<1>6. CASE AttachChild(r, n)
  <2>1. w.pc = "attach" /\ lock' = lock /\ UNCHANGED <<thread, canceller, server, listed>>
    BY <1>6 DEF AttachChild, w
  <2>a. PICK row : /\ row \in {Progress(WithChild(run[r]), n, "executable"), run[r]}
                   /\ Save(r, row)
    BY <1>6, <1>b DEF AttachChild, w
  <2>b. \/ SetWorker(r, n, [w EXCEPT !.pc = "wait"])
        \/ SetWorker(r, n, [[w EXCEPT !.pc = "finish"] EXCEPT !.out = "failed"])
        \/ \E K : SetWorker(r, n, [[Terminate(w, K) EXCEPT !.pc = "finish"]
                                     EXCEPT !.out = "failed"])
    BY <1>6 DEF AttachChild, w
  <2>2. PICK v :
          /\ SetWorker(r, n, v)
          /\ \/ v = [w EXCEPT !.pc = "wait"]
             \/ v = [[w EXCEPT !.pc = "finish"] EXCEPT !.out = "failed"]
             \/ \E K : v = [[Terminate(w, K) EXCEPT !.pc = "finish"] EXCEPT !.out = "failed"]
    BY <2>b, Zenon
  <2>3. Evolves(run[r], row)
    <3>1. Evolves(run[r], WithChild(run[r])) /\ WithChild(run[r]) \in Rows
          /\ WithChild(run[r]).status # "none"
      BY <1>0, <1>a, <2>1, SmallOps DEF Evolves
    <3>2. Evolves(WithChild(run[r]), Progress(WithChild(run[r]), n, "executable"))
      BY <3>1, SmallOps, Literals
    <3>3. Evolves(run[r], Progress(WithChild(run[r]), n, "executable"))
      BY <1>0, <3>1, <3>2, EvolvesTrans DEF Evolves
    <3> QED BY <1>a, <2>1, <2>a, <3>3
  <2>4. v \in Workers /\ v.pc \in {"wait", "finish"}
    <3>1. CASE v = [w EXCEPT !.pc = "wait"] BY <1>0, <3>1 DEF Workers, WorkerPCs
    <3>2. ASSUME NEW x \in Workers, v = [[x EXCEPT !.pc = "finish"] EXCEPT !.out = "failed"]
          PROVE  v \in Workers /\ v.pc = "finish"
      <4>1. v \in Workers BY <3>2, WorkerFields, Zenon DEF WorkerPCs
      <4>2. v.pc = "finish" BY <3>2 DEF Workers
      <4> QED BY <4>1, <4>2
    <3> QED BY <1>0, <2>2, <3>1, <3>2, TerminateOK
  <2>5. row \in Rows /\ row.status # "none" /\ WorkerOK(w, row, n)
    BY <1>0, <1>a, <2>1, <2>3, EvolvesKeeps DEF Evolves
  <2>6. WorkerOK(v, row, n) BY <1>0, <2>1, <2>4, <2>5, WorkerMove DEF ClaimedPCs, WorkerPCs
  <2> QED BY <1>a, <1>c, <2>1, <2>a, <2>2, <2>3, <2>4, <2>6, WorkerFrame
<1>7. CASE WaitChild(r, n)
  <2>1. PICK out \in {"completed", "failed"} :
          SetWorker(r, n, [[w EXCEPT !.pc = "finish"] EXCEPT !.out = out])
    BY <1>7 DEF WaitChild, w
  <2>2. w.pc = "wait" /\ run' = run /\ lock' = lock /\ UNCHANGED <<thread, canceller, server, listed>>
    BY <1>7 DEF WaitChild, w
  <2> DEFINE v == [[w EXCEPT !.pc = "finish"] EXCEPT !.out = out]
  <2>3. v \in Workers BY <1>0, WorkerFields, Zenon DEF WorkerPCs
  <2>4. v.pc = "finish" BY <1>0 DEF Workers
  <2>5. SetWorker(r, n, v) BY <2>1
  <2> HIDE DEF v
  <2>6. WorkerOK(v, run[r], n) BY <1>0, <1>a, <2>2, <2>3, <2>4, WorkerMove DEF ClaimedPCs, WorkerPCs
  <2> QED BY <1>a, <1>b, <1>c, <2>2, <2>3, <2>5, <2>6, WorkerFrame
<1>8. CASE TimeoutChild(r, n)
  <2>1. PICK K : SetWorker(r, n, [[Terminate(w, K) EXCEPT !.pc = "finish"] EXCEPT
                   !.out = IF "child" \in K THEN "timed_out" ELSE "cancellation_pending"])
    BY <1>8 DEF TimeoutChild, w
  <2>2. w.pc = "wait" /\ Save(r, Progress(run[r], n, "executable")) /\ lock' = lock
        /\ UNCHANGED <<thread, canceller, server, listed>>
    BY <1>8 DEF TimeoutChild, w
  <2> DEFINE out == IF "child" \in K THEN "timed_out" ELSE "cancellation_pending"
             v == [[Terminate(w, K) EXCEPT !.pc = "finish"] EXCEPT !.out = out]
             row == Progress(run[r], n, "executable")
  <2>3. out \in {"none", "cancellation_pending", "completed", "failed", "timed_out"} OBVIOUS
  <2>4. Terminate(w, K) \in Workers BY <1>0, TerminateOK
  <2>5. v \in Workers BY <2>3, <2>4, WorkerFields, Zenon DEF WorkerPCs
  <2>6. v.pc = "finish" BY <2>4 DEF Workers
  <2>7. SetWorker(r, n, v) /\ Save(r, row) BY <2>1, <2>2
  <2>8. Evolves(run[r], row) BY <1>0, <1>a, <2>2, SmallOps, Literals
  <2> HIDE DEF v, row
  <2>9. row \in Rows /\ row.status # "none" /\ WorkerOK(w, row, n)
    BY <1>0, <1>a, <2>2, <2>8, EvolvesKeeps DEF Evolves
  <2>10. WorkerOK(v, row, n) BY <1>0, <2>2, <2>5, <2>6, <2>9, WorkerMove DEF ClaimedPCs, WorkerPCs
  <2> QED BY <1>a, <1>c, <2>2, <2>5, <2>7, <2>8, <2>10, WorkerFrame
<1>9. CASE WorkerFinish(r, n)
  <2> DEFINE v == [[w EXCEPT !.pc = "commit"] EXCEPT !.snap = run[r]]
  <2>1. w.pc = "finish" /\ SetWorker(r, n, v) /\ run' = run /\ lock' = lock
        /\ UNCHANGED <<thread, canceller, server, listed>>
    BY <1>9 DEF WorkerFinish, w
  <2>2. v \in Workers BY <1>0, WorkerFields, Zenon DEF WorkerPCs
  <2>3. v.pc = "commit" /\ v.snap = run[r] BY <1>0 DEF Workers
  <2> HIDE DEF v
  <2>4. WorkerOK(v, run[r], n)
    BY <1>0, <1>a, <2>1, <2>2, <2>3, AgreesSelf, WorkerMove DEF ClaimedPCs, WorkerPCs
  <2> QED BY <1>a, <1>b, <1>c, <2>1, <2>2, <2>4, WorkerFrame
<1>10. CASE WorkerCommit(r, n)
  <2> DEFINE v == [[w EXCEPT !.pc = "close"] EXCEPT !.snap = NoRow]
  <2>1. w.pc = "commit" /\ SetWorker(r, n, v) /\ lock' = lock
        /\ UNCHANGED <<thread, canceller, server, listed>>
    BY <1>10 DEF WorkerCommit, w
  <2>2. PICK row : /\ Save(r, row)
                   /\ \/ row = run[r]
                      \/ w.out \in Terminal /\ row = ToTerminal(run[r], w.out)
                      \/ row = ToCancelling(run[r])
    BY <1>10, <1>b DEF WorkerCommit, w
  <2>3. Evolves(run[r], row) BY <1>0, <1>a, <2>1, <2>2, StatusOps
  <2>4. v \in Workers BY <1>0, NoRowType, WorkerFields, Zenon DEF WorkerPCs
  <2>5. v.pc = "close" BY <1>0 DEF Workers
  <2> HIDE DEF v
  <2>6. row \in Rows /\ row.status # "none" /\ WorkerOK(w, row, n)
    BY <1>0, <1>a, <2>1, <2>3, EvolvesKeeps DEF Evolves
  <2>7. WorkerOK(v, row, n) BY <1>0, <2>1, <2>4, <2>5, <2>6, WorkerMove DEF ClaimedPCs, WorkerPCs
  <2> QED BY <1>a, <1>c, <2>1, <2>2, <2>3, <2>4, <2>7, WorkerFrame
<1>11. CASE WorkerClose(r, n)
  <2>1. w.pc = "close" /\ SetWorker(r, n, Exited(w)) /\ UNCHANGED <<thread, canceller, server, listed>>
    BY <1>11 DEF WorkerClose, w
  <2>2. CASE UNCHANGED <<run, lock>> BY <1>0, <1>a, <1>b, <1>c, <2>1, <2>2, TerminateOK, WorkerFrame
  <2>3. CASE \E ok \in PublishOutcomes(r) :
               Save(r, Released(Published(run[r], ok), r, n)) /\ ReleaseLock(r, n)
    <3>1. PICK ok \in BOOLEAN :
            Save(r, Released(Published(run[r], ok), r, n)) /\ ReleaseLock(r, n)
      BY <2>3, Outcomes
    <3>2. Steady BY <1>a, <2>1, <3>1, ReleaseSteady
    <3>3. LockKept BY <1>0, <3>1, LockSteps
    <3>4. run[r].status # "none" /\ run'[r].status # "none" /\ WorkerOK(w, run'[r], n)
      BY <1>0, <1>a, <2>1, <3>2, EvolvesKeeps DEF Steady, SteadyAt, Evolves
    <3>5. WorkersKept BY <1>0, <2>1, <3>4, TerminateOK, SetWorkerKept
    <3> QED BY <2>1, <3>2, <3>3, <3>5, Unchanged, Frame DEF OthersKept
  <2> QED BY <1>11, <2>2, <2>3 DEF WorkerClose, w
<1>12. CASE Heartbeat(r, n)
  <2>1. w.pc # "none" /\ Save(r, Beat(run[r])) /\ UNCHANGED <<lock, thread, worker, canceller, server, listed>>
    BY <1>12 DEF Heartbeat, w
  <2>2. Steady BY <1>0, <1>a, <2>1, SmallOps, SaveSteady
  <2> QED BY <2>1, <2>2, Unchanged, Frame DEF OthersKept
<1>13. CASE ChildExit(r, n)
  <2> DEFINE v == [w EXCEPT !.child = FALSE]
  <2>1. w.child /\ SetWorker(r, n, v) /\ run' = run /\ lock' = lock
        /\ UNCHANGED <<thread, canceller, server, listed>>
    BY <1>13 DEF ChildExit, w
  <2>2. v \in Workers /\ v.pc = w.pc /\ v.snap = w.snap /\ v.child = FALSE BY <1>0 DEF Workers
  <2> HIDE DEF v
  <2>3. WorkerOK(v, run[r], n) BY <1>0, <1>a, <2>1, <2>2 DEF WorkerOK
  <2> QED BY <1>a, <1>b, <1>c, <2>1, <2>2, <2>3, WorkerFrame
<1>14. CASE WorkerCrash(r, n)
  <2>1. w.pc # "none" /\ SetWorker(r, n, Exited(w)) /\ run' = run /\ lock' = lock
        /\ UNCHANGED <<thread, canceller, server, listed>>
    BY <1>14 DEF WorkerCrash, Alive, w
  <2> QED BY <1>0, <1>a, <1>b, <1>c, <2>1, TerminateOK, WorkerFrame
<1> QED BY <1>1, <1>2, <1>3, <1>4, <1>5, <1>6, <1>7, <1>8, <1>9, <1>10, <1>11, <1>12,
           <1>13, <1>14 DEF WorkerStep

----
(* Cancellation. *)

\* The canceller's record keeps its type when its pc and version change.
LEMMA CancelFields ==
  ASSUME NEW c \in Cancels
  PROVE  /\ \A x \in CancelPCs : /\ [c EXCEPT !.pc = x] \in Cancels
                                 /\ [c EXCEPT !.pc = x].pc = x
                                 /\ [c EXCEPT !.pc = x].snap = c.snap
         /\ \A x \in Nat : /\ [c EXCEPT !.ver = x] \in Cancels
                           /\ [c EXCEPT !.ver = x].pc = c.pc
                           /\ [c EXCEPT !.ver = x].snap = c.snap
         /\ IdleCancel \in Cancels /\ IdleCancel.pc = "idle"
  BY NoRowType DEF Cancels, CancelPCs, IdleCancel

\* A cancelling step that saves row and leaves the canceller as c.
LEMMA CancelFrame ==
  ASSUME IInv, NEW r \in Runs, NEW row, NEW c \in Cancels,
         run[r].status # "none", Evolves(run[r], row), Save(r, row), SetCancel(r, c),
         c.pc = "idle" \/ (c.snap = canceller[r].snap /\ canceller[r].pc # "idle"),
         LockKept, WorkersKept, UNCHANGED <<thread, server, listed>>
  PROVE  IInv'
<1>0. canceller[r] \in Cancels /\ CancelOK(canceller[r], run[r]) /\ run[r] \in Rows
  BY Here DEF RunOK
<1>1. Steady /\ run'[r] = row BY SaveSteady
<1>2. CancelOK(canceller[r], row) BY <1>0, EvolvesKeeps
<1>3. CancelOK(c, row) BY <1>2 DEF CancelOK
<1>4. CancelsKept BY <1>1, <1>3, SetCancelKept
<1> QED BY <1>1, <1>4, Unchanged, Frame DEF OthersKept

\* Every step of cancel_run preserves the invariant.
LEMMA CancelInv ==
  ASSUME IInv, NEW r \in Runs
  PROVE  /\ \A h \in Hosts : CancelRead(r, h) => IInv'
         /\ CancelStep(r) => IInv'
<1> DEFINE c == canceller[r]
<1>0. /\ run[r] \in Rows /\ c \in Cancels /\ CancelOK(c, run[r]) /\ RunOK(r)
      /\ run = [run EXCEPT ![r] = run[r]]
      /\ \A n \in Leases : worker[r][n] \in Workers /\ WorkerOK(worker[r][n], run[r], n)
  BY Here DEF RunOK, IInv, TypeOK
<1>a. c.pc # "idle" => /\ run[r].status # "none" /\ Evolves(run[r], run[r])
                       /\ c.snap \in Rows /\ c.snap.lease \in Leases
  BY <1>0, RunExists, SmallOps DEF CancelOK, Cancels
<1>b. UNCHANGED run => Save(r, run[r]) BY <1>0 DEF Save
<1>1. ASSUME NEW h \in Hosts, CancelRead(r, h) PROVE IInv'
  <2> DEFINE d == [pc |-> IF IsTerminal(run[r]) THEN "settle" ELSE "mark",
                   host |-> h, snap |-> run[r], ver |-> 0]
  <2>1. d \in Cancels BY <1>0, HostsAssumption DEF Cancels, CancelPCs
  <2>2. SetCancel(r, d) /\ run' = run /\ run[r].status # "none" BY <1>1 DEF CancelRead, Exists
  <2>3. d.snap = run[r] OBVIOUS
  <2>4. run[r].lease \in Leases BY <1>0, <2>2 DEF RunOK, RowOK
  <2> HIDE DEF d
  <2>5. CancelOK(d, run'[r]) BY <1>0, <2>2, <2>3, <2>4, AgreesSelf DEF CancelOK
  <2>6. CancelsKept BY <2>1, <2>2, <2>5, SetCancelKept
  <2> QED BY <1>1, <2>6, Unchanged, Frame DEF CancelRead, OthersKept
<1>2. ASSUME CancelMark(r) PROVE IInv'
  <2>1. c.pc = "mark" /\ UNCHANGED <<lock, thread, worker, server, listed>> BY <1>2 DEF CancelMark
  <2>2. LockKept /\ WorkersKept BY <2>1, Unchanged
  <2>3. CASE Save(r, ToCancelling(run[r])) /\ SetCancel(r, [c EXCEPT !.pc = "kill"])
    <3>1. Evolves(run[r], ToCancelling(run[r])) BY <1>0, <1>a, <2>1, StatusOps
    <3> QED BY <1>0, <1>a, <2>1, <2>2, <2>3, <3>1, CancelFields, CancelFrame DEF CancelPCs
  <2>4. CASE /\ SetCancel(r, IF IsTerminal(run[r]) THEN [c EXCEPT !.pc = "settle"] ELSE IdleCancel)
             /\ UNCHANGED run
    BY <1>0, <1>a, <1>b, <2>1, <2>2, <2>4, CancelFields, CancelFrame DEF CancelPCs
  <2> QED BY <1>2, <2>3, <2>4 DEF CancelMark
<1>3. ASSUME CancelKill(r) PROVE IInv'
  <2>1. c.pc = "kill" /\ UNCHANGED <<lock, thread, server, listed>> BY <1>3 DEF CancelKill
  <2> DEFINE n == c.snap.lease
  <2>2. n \in Leases /\ run[r].status # "none" BY <1>a, <2>1
  <2>3. PICK K : /\ SetWorker(r, n, Terminate(worker[r][n], K))
                 /\ \/ /\ SetCancel(r, [[c EXCEPT !.pc = "finish"] EXCEPT !.ver = run[r].ver])
                       /\ UNCHANGED run
                    \/ /\ SetCancel(r, IdleCancel)
                       /\ \/ Save(r, NotedCancelling(run[r]))
                          \/ Save(r, run[r])
    BY <1>3 DEF CancelKill
  <2> HIDE DEF c
  <2>4. LockKept BY <2>1, Unchanged
  <2>5. ASSUME NEW row, Evolves(run[r], row), Save(r, row) PROVE WorkersKept
    <3>1. WorkerOK(worker[r][n], row, n) BY <1>0, <2>2, <2>5, EvolvesKeeps
    <3>2. WorkerOK(Terminate(worker[r][n], K), row, n) /\ Terminate(worker[r][n], K) \in Workers
      BY <1>0, <2>2, <2>5, <3>1, TerminateOK DEF Evolves
    <3>3. run'[r] = row BY <2>2, <2>5, SaveSteady
    <3> QED BY <2>2, <2>3, <3>2, <3>3, SetWorkerKept
  <2>6. CASE SetCancel(r, [[c EXCEPT !.pc = "finish"] EXCEPT !.ver = run[r].ver]) /\ UNCHANGED run
    <3> DEFINE d == [[c EXCEPT !.pc = "finish"] EXCEPT !.ver = run[r].ver]
    <3>1. run[r].ver \in Nat BY <1>0 DEF Rows
    <3>2. d \in Cancels /\ d.snap = c.snap
      <4> DEFINE e == [c EXCEPT !.pc = "finish"]
      <4>1. e \in Cancels /\ e.snap = c.snap BY <1>0, CancelFields DEF CancelPCs
      <4> HIDE DEF e
      <4>2. [e EXCEPT !.ver = run[r].ver] \in Cancels
            /\ [e EXCEPT !.ver = run[r].ver].snap = e.snap
        BY <3>1, <4>1, CancelFields
      <4> QED BY <4>1, <4>2 DEF e
    <3>3. SetCancel(r, d) BY <2>6
    <3> HIDE DEF d
    <3> QED BY <1>a, <1>b, <2>1, <2>4, <2>5, <2>6, <3>2, <3>3, CancelFrame DEF c
  <2>7. CASE SetCancel(r, IdleCancel) /\ (Save(r, NotedCancelling(run[r])) \/ Save(r, run[r]))
    <3>1. Evolves(run[r], NotedCancelling(run[r])) BY <1>0, <2>2, SmallOps
    <3>2. PICK row : Save(r, row) /\ Evolves(run[r], row) BY <1>a, <2>1, <2>7, <3>1
    <3>3. IdleCancel \in Cancels /\ IdleCancel.pc = "idle" BY <1>0, CancelFields
    <3>4. WorkersKept BY <2>5, <3>2
    <3>5. UNCHANGED <<thread, server, listed>> BY <2>1
    <3>6. PICK d \in Cancels : d.pc = "idle" /\ SetCancel(r, d) BY <2>7, <3>3
    <3> QED BY <2>2, <2>4, <3>2, <3>4, <3>5, <3>6, CancelFrame
  <2> QED BY <2>3, <2>6, <2>7
<1>4. ASSUME CancelFinish(r) PROVE IInv'
  <2>1. c.pc = "finish" /\ UNCHANGED <<lock, thread, worker, server, listed>>
    BY <1>4 DEF CancelFinish
  <2>2. PICK row : row \in {ToTerminal(run[r], "cancelled"), run[r]} /\ Save(r, row)
    BY <1>4 DEF CancelFinish
  <2>3. Evolves(run[r], row) BY <1>0, <1>a, <2>1, <2>2, StatusOps DEF Terminal
  <2>4. PICK d : SetCancel(r, d) /\ d \in {IdleCancel, [c EXCEPT !.pc = "release"], [c EXCEPT !.pc = "settle"]}
    BY <1>4 DEF CancelFinish
  <2>5. d \in Cancels /\ (d.pc = "idle" \/ d.snap = c.snap)
    <3>1. CASE d = IdleCancel BY <1>0, <3>1, CancelFields
    <3>2. ASSUME NEW x \in CancelPCs, d = [c EXCEPT !.pc = x] PROVE d \in Cancels /\ d.snap = c.snap
      BY <1>0, <3>2, CancelFields
    <3> QED BY <2>4, <3>1, <3>2 DEF CancelPCs
  <2> QED BY <1>a, <2>1, <2>2, <2>3, <2>4, <2>5, Unchanged, CancelFrame
<1>5. ASSUME CancelRelease(r) PROVE IInv'
  <2>1. c.pc # "idle" /\ SetCancel(r, IdleCancel) /\ UNCHANGED <<thread, worker, server, listed>>
    BY <1>5 DEF CancelRelease
  <2> DEFINE n == c.snap.lease
  <2>2. PICK ok \in BOOLEAN :
          \/ Save(r, Released(Published(run[r], ok), r, n)) /\ ReleaseLock(r, n)
          \/ Save(r, Published(run[r], ok)) /\ UNCHANGED lock
    BY <1>5, Outcomes DEF CancelRelease
  <2>3. n \in Nat /\ run[r].status # "none" BY <1>a, <2>1 DEF Leases
  <2>4. CancelsKept BY <1>0, <2>1, CancelFields, SetCancelKept DEF CancelOK
  <2>5. Steady BY <1>0, <2>2, <2>3, SmallOps, SaveSteady, ReleaseSteady
  <2>6. LockKept BY <2>2, <2>3, LockSteps, Unchanged
  <2> QED BY <2>1, <2>4, <2>5, <2>6, Unchanged, Frame DEF OthersKept
<1> QED BY <1>1, <1>2, <1>3, <1>4, <1>5 DEF CancelStep

----
(* Startup reconciliation. *)

\* A reconciliation step that saves row and goes on to another run.
LEMMA NextFrame ==
  ASSUME IInv, NEW r \in Runs, NEW row, run[r].status # "none", Evolves(run[r], row),
         Save(r, row), LockKept, WorkersKept, UNCHANGED <<thread, canceller, listed>>,
         NextRun(r)
  PROVE  IInv'
<1>1. Steady BY SaveSteady
<1>2. ServerKept BY <1>1, NextRunKept
<1> QED BY <1>1, <1>2, Unchanged, Frame DEF OthersKept

\* A reconciliation step that saves row and goes on with the same run.
LEMMA ThenFrame ==
  ASSUME IInv, NEW r \in Runs, NEW row, run[r].status # "none", Evolves(run[r], row),
         Save(r, row), LockKept, WorkersKept, UNCHANGED <<thread, canceller, listed>>,
         NEW pc \in ServerPCs, NEW snap \in Rows, Then(r, pc, snap),
         Agrees(snap, row), snap.lease \in Leases
  PROVE  IInv'
<1>1. Steady /\ run'[r] = row BY SaveSteady
<1>2. row.status # "none" BY DEF Evolves
<1>3. \A s \in server.todo : run'[s].status # "none"
  BY <1>1 DEF IInv, TypeOK, RunOK, ServerOK, Servers, Steady, SteadyAt, Evolves
<1>4. ServerKept BY <1>1, <1>2, <1>3, ThenKept
<1> QED BY <1>1, <1>4, Unchanged, Frame DEF OthersKept

\* A process record whose pc becomes "boot" satisfies the invariant.
LEMMA BootKept ==
  ASSUME IInv, NEW r \in Runs, NEW n \in Leases, run[r].status # "none", run' = run,
         worker' = [worker EXCEPT ![r][n].pc = "boot"]
  PROVE  WorkersKept
<1> DEFINE v == [worker[r][n] EXCEPT !.pc = "boot"]
<1>0. worker[r][n] \in Workers /\ WorkerOK(worker[r][n], run[r], n) BY Here DEF RunOK
<1>1. SetWorker(r, n, v) BY DEF SetWorker
<1>2. v \in Workers /\ v.pc = "boot" /\ v.child = worker[r][n].child BY <1>0 DEF Workers, WorkerPCs
<1> HIDE DEF v
<1>3. WorkerOK(v, run'[r], n) BY <1>0, <1>2 DEF WorkerOK, ClaimedPCs
<1> QED BY <1>1, <1>2, <1>3, SetWorkerKept

\* The relaunch: the run's row and the lock's row move to the next lease.
LEMMA ReserveInv ==
  ASSUME IInv, NEW r \in Runs, ReconcileReserve(r)
  PROVE  IInv'
<1>0. /\ run[r] \in Rows /\ listed[r] \in Rows /\ RunOK(r) /\ server \in Servers
      /\ run = [run EXCEPT ![r] = run[r]]
  BY Here DEF IInv, TypeOK
<1>1. /\ r \in server.todo /\ run[r].status # "none"
      /\ UNCHANGED <<thread, worker, canceller, listed>>
  BY RunExists DEF ReconcileReserve, InHand
<1>2. WorkersKept /\ ThreadsKept /\ CancelsKept /\ ListedKept BY <1>1, Unchanged
<1>3. CASE NextRun(r) /\ UNCHANGED <<run, lock>>
  <2>1. Save(r, run[r]) /\ Evolves(run[r], run[r]) BY <1>0, <1>1, <1>3, SmallOps DEF Save
  <2>2. LockKept BY <1>3, Unchanged
  <2> QED BY <1>1, <1>2, <1>3, <2>1, <2>2, NextFrame
<1>4. CASE Matches(run[r], listed[r]) /\ HoldsLock(r, listed[r].lease)
  <2> DEFINE row == Reserved(run[r])
  <2>1. /\ Save(r, row) /\ lock' = ReservedLock(r, row) /\ Then(r, "respawn", row)
        /\ Unclaimed(listed[r]) /\ AttemptsLeft(listed[r])
    BY <1>4 DEF ReconcileReserve
  <2>2. /\ Unclaimed(run[r]) /\ run[r].att < MaxLaunchAttempts
        /\ run[r].lease \in Leases /\ run[r].lease <= run[r].att + 1
    BY <1>0, <1>1, <1>4, <2>1
       DEF Matches, Unclaimed, AttemptsLeft, RunOK, ListedOK, Agrees, RowOK
  <2>3. run[r].att \in Nat /\ run[r].lease \in Nat /\ run[r].ver \in Nat BY <1>0 DEF Rows, Leases
  <2>4. /\ run[r].lease + 1 \in Leases /\ run[r].att + 1 \in 0..MaxLaunchAttempts
        /\ run[r].lease + 1 # 1
    BY <2>2, <2>3 DEF Leases, MaxLaunchAttempts
  <2>5. /\ row.status = "launch_pending" /\ row.lease = run[r].lease + 1
        /\ row.att = run[r].att + 1 /\ row.ver = run[r].ver + 1
    BY <1>0 DEF Reserved, Bump, Rows
  <2>6. row \in Rows
    <3>1. Bump(run[r]) \in Rows /\ Bump(run[r]).lease = run[r].lease /\ Bump(run[r]).att = run[r].att
      BY <1>0, RowOpTypes DEF Bump, Rows
    <3> DEFINE a == [Bump(run[r]) EXCEPT !.status = "launch_pending"]
               b == [a EXCEPT !.phase = "launch_pending"]
               c == [b EXCEPT !.lease = run[r].lease + 1]
               d == [c EXCEPT !.att = run[r].att + 1]
               e == [[[d EXCEPT !.lpid = FALSE] EXCEPT !.wpid = FALSE] EXCEPT !.cpid = FALSE]
    <3>2. a \in Rows BY <3>1, RowFields, Literals
    <3>3. b \in Rows BY <3>2, RowFields, Literals
    <3>4. c \in Rows BY <2>4, <3>3, RowFields
    <3>5. d \in Rows BY <2>4, <3>4, RowFields
    <3>6. e \in Rows BY <3>5, RowFields, Zenon
    <3>7. row = e BY <3>1 DEF Reserved, Rows, Bump
    <3> QED BY <3>6, <3>7
  <2> HIDE DEF row
  <2>7. run' \in [Runs -> Rows] /\ run'[r] = row /\ \A s \in Runs \ {r} : run'[s] = run[s]
    BY <2>1, <2>6 DEF IInv, TypeOK, Save
  <2>8. LockKept
    <3>1. lock'.run = r /\ lock'.lease = row.lease BY <2>1 DEF ReservedLock
    <3>2. lock' \in Locks BY <2>1, <2>4, <2>5 DEF ReservedLock, Locks, Owners
    <3> QED BY <2>5, <2>7, <3>1, <3>2 DEF LockKept, LockOK
  <2>9. Agrees(row, row) BY <2>6, AgreesSelf
  <2>10. ServerKept
    <3>1. \A s \in server.todo : run'[s].status # "none"
      BY <1>0, <2>5, <2>7 DEF IInv, RunOK, ServerOK, Servers
    <3> QED BY <2>1, <2>4, <2>5, <2>6, <2>7, <2>9, <3>1, ThenKept DEF ServerPCs
  <2>11. OthersKept BY <1>2, <2>8, <2>10 DEF OthersKept
  <2>12. \A s \in Runs \ {r} : RunOK(s)' BY <2>7, <2>11, FrameAt DEF SteadyAt
  <2>13. RunOK(r)'
    <3>1. \A snap \in Rows : Agrees(snap, run[r]) => Agrees(snap, row)
      BY <1>0, <2>5, <2>6 DEF Agrees, Rows
    <3>2. RowOK(row)
      <4>1. row.lease \in Leases /\ row.lease <= row.att + 1 /\ row.lease # 1
        BY <2>2, <2>3, <2>4, <2>5
      <4> QED BY <2>5, <4>1 DEF RowOK
    <3>3. ThreadOK(thread[r], row) /\ CancelOK(canceller[r], row) /\ ListedOK(listed[r], row)
      BY <1>0, <1>1, <2>5, <3>1, Here DEF RunOK, ThreadOK, CancelOK, ListedOK, Threads, Cancels
    <3>4. \A n \in Leases : WorkerOK(worker[r][n], row, n)
      BY <1>0, <1>1, <2>2, <2>5, <3>1, Here DEF RunOK, WorkerOK, Workers
    <3>5. LockOK(lock', r, row) BY <2>1, <2>5 DEF LockOK, ReservedLock
    <3>6. ServerOK(server', r, row) BY <1>0, <2>1, <2>4, <2>5, <2>9 DEF Then, ServerOK, Servers
    <3> QED BY <1>1, <2>7, <3>2, <3>3, <3>4, <3>5, <3>6
            DEF RunOK, RowOK, ThreadOK, CancelOK, ListedOK, ServerOK, LockOK, WorkerOK, Agrees, Unclaimed
  <2>14. TypeOK'
    BY <2>7, <2>11 DEF TypeOK, OthersKept, LockKept, ThreadsKept, WorkersKept, CancelsKept,
           ListedKept, ServerKept
  <2> QED BY <2>12, <2>13, <2>14 DEF IInv
<1> QED BY <1>3, <1>4 DEF ReconcileReserve

\* Every step of reconcile_startup for one run preserves the invariant.
LEMMA ReconcileInv ==
  ASSUME IInv, NEW r \in Runs, ReconcileStep(r)
  PROVE  IInv'
<1>0. /\ run[r] \in Rows /\ listed[r] \in Rows /\ RunOK(r) /\ server \in Servers
      /\ server.snap \in Rows
      /\ run = [run EXCEPT ![r] = run[r]]
      /\ \A n \in Leases : worker[r][n] \in Workers /\ WorkerOK(worker[r][n], run[r], n)
  BY Here DEF IInv, TypeOK, Servers, RunOK
<1>a. run[r].status # "none" /\ Evolves(run[r], run[r]) BY <1>0, RunExists, SmallOps
     DEF ReconcileStep, ReconcileAdopt, ReconcileClaim, ReconcileRaises, ReconcileChild,
         ReconcileRetain,
         ReconcileReserve, ReconcileRespawn, ReconcileRecord, ReconcileDead, ReconcileFail,
         ReconcileRelease, InHand
<1>b. UNCHANGED run => Save(r, run[r]) BY <1>0 DEF Save
<1>c. (UNCHANGED lock => LockKept) /\ (UNCHANGED worker => WorkersKept) BY Unchanged
<1>d. server.cur = r => server.snap.lease \in Leases /\ Agrees(server.snap, run[r])
  BY <1>0 DEF RunOK, ServerOK
<1>e. \A row : Evolves(run[r], row) =>
        /\ row \in Rows /\ row.lease \in Leases /\ Agrees(row, row)
        /\ server.cur = r => Agrees(server.snap, row)
  <2>1. ASSUME NEW row, Evolves(run[r], row)
        PROVE  /\ row \in Rows /\ row.lease \in Leases /\ Agrees(row, row)
               /\ server.cur = r => Agrees(server.snap, row)
    <3>1. row \in Rows /\ RowOK(row) /\ row.status # "none"
      BY <1>0, <1>a, <2>1, EvolvesKeeps DEF RunOK, Evolves
    <3>2. ServerOK(server, r, row) BY <1>0, <1>a, <2>1, EvolvesKeeps DEF RunOK
    <3> QED BY <3>1, <3>2, AgreesSelf DEF RowOK, ServerOK
  <2> QED BY <2>1
<1>1. CASE ReconcileAdopt(r)
  <2>1. PICK row : /\ row \in {Adopted(run[r]), run[r]}
                   /\ Save(r, row)
                   /\ Then(r, "claim", row) \/ NextRun(r)
    BY <1>1 DEF ReconcileAdopt
  <2>2. Evolves(run[r], row) BY <1>0, <1>a, <2>1, SmallOps
  <2>3. LockKept /\ WorkersKept /\ UNCHANGED <<thread, canceller, listed>>
    BY <1>1, <1>c DEF ReconcileAdopt
  <2>4. CASE NextRun(r) BY <1>a, <2>1, <2>2, <2>3, <2>4, NextFrame
  <2>5. CASE Then(r, "claim", row) BY <1>a, <1>e, <2>1, <2>2, <2>3, <2>5, ThenFrame DEF ServerPCs
  <2> QED BY <2>1, <2>4, <2>5
<1>2. CASE ReconcileClaim(r)
  <2>1. WorkersKept /\ UNCHANGED <<thread, canceller, listed>> /\ NextRun(r)
    BY <1>2, <1>c DEF ReconcileClaim
  <2>2. CASE lock' = ClaimedLock /\ Save(r, ClaimedRow(run[r]))
    <3>1. Evolves(run[r], ClaimedRow(run[r])) BY <1>0, <1>a, LockOps
    <3> QED BY <1>a, <2>1, <2>2, <3>1, LockSteps, NextFrame
  <2>3. CASE /\ \/ Save(r, ToRecoveryPending(run[r]))
                \/ Save(r, run[r])
             /\ UNCHANGED lock
    <3>1. Evolves(run[r], ToRecoveryPending(run[r])) BY <1>0, <1>a, StatusOps
    <3> QED BY <1>a, <1>c, <2>1, <2>3, <3>1, NextFrame
  <2> QED BY <1>2, <2>2, <2>3 DEF ReconcileClaim
<1>3. CASE ReconcileChild(r)
  <2>1. PICK row : row \in {ToRecoveryPending(run[r]), run[r]} /\ Save(r, row)
    BY <1>3 DEF ReconcileChild
  <2>2. Evolves(run[r], row) BY <1>0, <1>a, <2>1, StatusOps
  <2>3. LockKept /\ WorkersKept /\ UNCHANGED <<thread, canceller, listed>> /\ NextRun(r)
    BY <1>3, <1>c DEF ReconcileChild
  <2> QED BY <1>a, <2>1, <2>2, <2>3, NextFrame
<1>12. CASE ReconcileRaises(r)
  <2>1. PICK row : row \in {ToRecoveryPending(run[r]), run[r]} /\ Save(r, row)
    BY <1>12 DEF ReconcileRaises
  <2>2. Evolves(run[r], row) BY <1>0, <1>a, <2>1, StatusOps
  <2>3. LockKept /\ WorkersKept /\ UNCHANGED <<thread, canceller, listed>> /\ NextRun(r)
    BY <1>12, <1>c DEF ReconcileRaises
  <2> QED BY <1>a, <2>1, <2>2, <2>3, NextFrame
<1>4. CASE ReconcileRetain(r)
  <2>1. /\ LockKept /\ WorkersKept /\ UNCHANGED <<thread, canceller, listed>> /\ NextRun(r)
        /\ run' = run
    BY <1>4, <1>c DEF ReconcileRetain
  <2> QED BY <1>a, <1>b, <2>1, NextFrame
<1>5. CASE ReconcileReserve(r) BY <1>5, ReserveInv
<1>6. CASE ReconcileRespawn(r)
  <2>1. /\ server.cur = r /\ LockKept /\ UNCHANGED <<thread, canceller, listed>> /\ run' = run
    BY <1>6, <1>c DEF ReconcileRespawn
  <2>2. CASE /\ worker' = [worker EXCEPT ![r][server.snap.lease].pc = "boot"]
             /\ Then(r, "record", server.snap)
    <3>1. WorkersKept BY <1>a, <1>d, <2>1, <2>2, BootKept
    <3> QED BY <1>0, <1>a, <1>b, <1>d, <2>1, <2>2, <3>1, ThenFrame DEF ServerPCs
  <2>3. CASE (Then(r, "fail", run[r]) \/ NextRun(r)) /\ UNCHANGED worker
    <3>1. CASE NextRun(r) BY <1>a, <1>b, <1>c, <2>1, <2>3, <3>1, NextFrame
    <3>2. CASE Then(r, "fail", run[r])
      BY <1>a, <1>b, <1>c, <1>e, <2>1, <2>3, <3>2, ThenFrame DEF ServerPCs
    <3> QED BY <2>3, <3>1, <3>2
  <2> QED BY <1>6, <2>2, <2>3 DEF ReconcileRespawn
<1>7. CASE ReconcileRecord(r)
  <2> DEFINE n == server.snap.lease
  <2>1. /\ server.cur = r /\ LockKept /\ UNCHANGED <<thread, canceller, listed>>
    BY <1>7, <1>c DEF ReconcileRecord
  <2>2. PICK row :
          /\ row = run[r] \/ (run[r].status = "launch_pending" /\ row = Launched(run[r]))
          /\ Save(r, row)
          /\ \/ (NextRun(r) \/ Then(r, "fail", row)) /\ UNCHANGED worker
             \/ /\ \E K : worker' = [worker EXCEPT ![r][n] = Terminate(worker[r][n], K)]
                /\ NextRun(r)
    BY <1>7 DEF ReconcileRecord
  <2>3. Evolves(run[r], row) BY <1>0, <1>a, <2>2, StatusOps
  <2>4. CASE (NextRun(r) \/ Then(r, "fail", row)) /\ UNCHANGED worker
    <3>1. CASE NextRun(r) BY <1>a, <1>c, <2>1, <2>2, <2>3, <2>4, <3>1, NextFrame
    <3>2. CASE Then(r, "fail", row)
      BY <1>a, <1>c, <1>e, <2>1, <2>2, <2>3, <2>4, <3>2, ThenFrame DEF ServerPCs
    <3> QED BY <2>4, <3>1, <3>2
  <2>5. CASE /\ \E K : worker' = [worker EXCEPT ![r][n] = Terminate(worker[r][n], K)]
             /\ NextRun(r)
    <3>1. PICK K : worker' = [worker EXCEPT ![r][n] = Terminate(worker[r][n], K)] BY <2>5
    <3>2. n \in Leases /\ run'[r] = row BY <1>a, <1>d, <2>1, <2>2, <2>3, SaveSteady
    <3>3. WorkerOK(worker[r][n], row, n) BY <1>0, <1>a, <2>3, <3>2, EvolvesKeeps
    <3>4. WorkerOK(Terminate(worker[r][n], K), row, n) /\ Terminate(worker[r][n], K) \in Workers
      BY <1>0, <2>3, <3>2, <3>3, TerminateOK DEF Evolves
    <3>5. WorkersKept BY <3>1, <3>2, <3>4, SetWorkerKept DEF SetWorker
    <3> QED BY <1>a, <2>1, <2>2, <2>3, <2>5, <3>5, NextFrame
  <2> QED BY <2>2, <2>4, <2>5
<1>8. CASE ReconcileDead(r)
  <2>1. /\ LockKept /\ WorkersKept /\ UNCHANGED <<thread, canceller, listed>> /\ run' = run
        /\ Then(r, "fail", listed[r]) /\ listed[r].status # "none"
    BY <1>8, <1>c DEF ReconcileDead, Unclaimed
  <2>2. Agrees(listed[r], run[r]) /\ listed[r].lease \in Leases BY <1>0, <2>1 DEF RunOK, ListedOK
  <2> QED BY <1>0, <1>a, <1>b, <2>1, <2>2, ThenFrame DEF ServerPCs
<1>9. CASE ReconcileFail(r)
  <2>1. /\ LockKept /\ WorkersKept /\ UNCHANGED <<thread, canceller, listed>> /\ server.cur = r
    BY <1>9, <1>c DEF ReconcileFail
  <2>2. CASE NextRun(r) /\ UNCHANGED run BY <1>a, <1>b, <2>1, <2>2, NextFrame
  <2>3. CASE Save(r, ToTerminal(run[r], "failed")) /\ Then(r, "release", server.snap)
    <3>1. Evolves(run[r], ToTerminal(run[r], "failed")) BY <1>0, <1>a, StatusOps DEF Terminal
    <3> QED BY <1>0, <1>a, <1>d, <1>e, <2>1, <2>3, <3>1, ThenFrame DEF ServerPCs
  <2> QED BY <1>9, <2>2, <2>3 DEF ReconcileFail
<1>10. CASE ReconcileRelease(r)
  <2>1. /\ server.cur = r /\ WorkersKept /\ UNCHANGED <<thread, canceller, listed>>
        /\ NextRun(r) /\ ReleaseLock(r, server.snap.lease)
    BY <1>10, <1>c DEF ReconcileRelease
  <2>2. PICK ok \in BOOLEAN :
          Save(r, Released(Published(run[r], ok), r, server.snap.lease))
    BY <1>10, Outcomes DEF ReconcileRelease
  <2>3. Steady BY <1>a, <2>2, ReleaseSteady
  <2>4. LockKept BY <1>d, <2>1, LockSteps DEF Leases
  <2>5. ServerKept BY <2>1, <2>3, NextRunKept
  <2> QED BY <2>1, <2>3, <2>4, <2>5, Unchanged, Frame DEF OthersKept
<1> QED BY <1>1, <1>2, <1>3, <1>4, <1>5, <1>6, <1>7, <1>8, <1>9, <1>10, <1>12 DEF ReconcileStep

----
(* The server process. *)

\* A step of the reconciler that changes only where it is.
LEMMA PcKept ==
  ASSUME IInv, Steady, NEW pc \in ServerPCs, server' = [server EXCEPT !.pc = pc]
  PROVE  ServerKept
<1>1. server \in Servers /\ \A s \in Runs : run[s] \in Rows /\ ServerOK(server, s, run[s])
  BY Here DEF IInv, TypeOK, RunOK
<1>2. /\ server' \in Servers /\ server'.todo = server.todo /\ server'.cur = server.cur
      /\ server'.snap = server.snap
  BY <1>1 DEF Servers
<1>3. \A s \in Runs : ServerOK(server, s, run'[s]) BY <1>1, EvolvesKeeps DEF Steady, SteadyAt
<1> QED BY <1>2, <1>3 DEF ServerKept, ServerOK

\* Crash, restart and the end of reconcile_startup preserve the invariant.
LEMMA ServerInv ==
  ASSUME IInv
  PROVE  /\ ServerCrash => IInv'
         /\ ServerRestart => IInv'
         /\ ReconcilePublish => IInv'
         /\ RecoverStale => IInv'
<1>0. /\ run \in [Runs -> Rows] /\ thread \in [Owners -> Threads] /\ server \in Servers
      /\ canceller \in [Runs -> Cancels] /\ listed \in [Runs -> Rows] /\ lock \in Locks
      /\ \A s \in Runs : RunOK(s)
      /\ Runs \subseteq Owners
  BY DEF IInv, TypeOK, Owners
<1>a. [r \in Runs |-> NoRow] \in [Runs -> Rows] /\ NoRow.status = "none" BY NoRowType DEF NoRow
<1>b. listed' = [r \in Runs |-> NoRow] => ListedKept BY <1>a DEF ListedKept, ListedOK
<1>1. ASSUME ServerCrash PROVE IInv'
  <2>1. Steady /\ LockKept /\ WorkersKept /\ run' = run /\ ListedKept
    BY <1>1, <1>b, Unchanged DEF ServerCrash
  <2>2. ServerKept
    <3> DEFINE a == [server EXCEPT !.pc = "down"]
               b == [a EXCEPT !.todo = {}]
               c == [b EXCEPT !.cur = None]
               d == [c EXCEPT !.snap = NoRow]
               e == [d EXCEPT !.crashes = server.crashes + 1]
    <3>1. a \in Servers /\ a.crashes = server.crashes BY <1>0 DEF Servers, ServerPCs
    <3>2. b \in Servers /\ b.todo = {} /\ b.crashes = server.crashes BY <3>1 DEF Servers
    <3>3. c \in Servers /\ c.todo = {} /\ c.cur = None /\ c.crashes = server.crashes
      BY <3>2 DEF Servers
    <3>4. d \in Servers /\ d.todo = {} /\ d.cur = None /\ d.crashes = server.crashes
      BY <3>3, NoRowType DEF Servers
    <3>5. server' = e BY <1>0, <1>1 DEF ServerCrash, Servers
    <3>6. e \in Servers /\ e.todo = {} /\ e.cur = None
      <4>1. server.crashes + 1 \in Nat BY <1>0 DEF Servers
      <4> HIDE DEF d
      <4> QED BY <3>4, <4>1 DEF Servers
    <3> HIDE DEF e
    <3> QED BY <3>5, <3>6, OwnersAssumption DEF ServerKept, ServerOK
  <2>3. ThreadsKept
    <3> DEFINE t == [IdleThread EXCEPT !.pc = "dead"]
    <3>1. IdleThread \in Threads BY NoRowType DEF IdleThread, Threads, ThreadPCs
    <3>2. t \in Threads /\ t.pc = "dead" BY <3>1 DEF Threads, ThreadPCs
    <3>3. thread' = [o \in Owners |-> IF thread[o].host = "server" /\ thread[o].pc \in ActivePCs
                                      THEN t ELSE thread[o]]
      BY <1>1 DEF ServerCrash
    <3> HIDE DEF t
    <3> QED BY <1>0, <3>2, <3>3 DEF ThreadsKept, ThreadOK, CreatedPCs
  <2>4. CancelsKept
    <3>1. IdleCancel \in Cancels /\ IdleCancel.pc = "idle"
      BY NoRowType DEF Cancels, CancelPCs, IdleCancel
    <3>2. canceller' = [r \in Runs |-> IF canceller[r].host = "server"
                                       THEN IdleCancel ELSE canceller[r]]
      BY <1>1 DEF ServerCrash
    <3> QED BY <1>0, <3>1, <3>2 DEF CancelsKept, CancelOK
  <2> QED BY <2>1, <2>2, <2>3, <2>4, Frame DEF OthersKept
<1>2. ASSUME ServerRestart PROVE IInv'
  <2> DEFINE todo == {r \in Runs : run[r].status \in Recoverable}
  <2>1. Steady /\ LockKept /\ ThreadsKept /\ WorkersKept /\ CancelsKept /\ run' = run
    BY <1>2, Unchanged DEF ServerRestart
  <2>2. \A s \in todo : run[s].status # "none" BY DEF Recoverable
  <2>3. ServerKept
    <3> DEFINE a == [server EXCEPT !.pc = "runs"]
               b == [a EXCEPT !.todo = todo]
    <3>1. a \in Servers /\ a.cur = server.cur /\ a.snap = server.snap BY <1>0 DEF Servers, ServerPCs
    <3>2. b \in Servers /\ b.todo = todo /\ b.cur = server.cur /\ b.snap = server.snap
      BY <3>1 DEF Servers
    <3>3. server' = b BY <1>2 DEF ServerRestart
    <3> HIDE DEF b, todo
    <3> QED BY <1>0, <2>1, <2>2, <3>2, <3>3 DEF ServerKept, ServerOK, RunOK
  <2>4. ListedKept
    <3>1. listed' = [r \in Runs |-> IF r \in todo THEN run[r] ELSE NoRow] BY <1>2 DEF ServerRestart
    <3>2. \A s \in Runs : s \in todo => ListedOK(run[s], run[s])
      BY <1>0, <2>2, AgreesSelf DEF ListedOK, RunOK, RowOK
    <3>3. \A s \in Runs : ListedOK(NoRow, run[s]) BY <1>a DEF ListedOK
    <3> HIDE DEF todo
    <3> QED BY <1>0, <2>1, <3>1, <3>2, <3>3, NoRowType DEF ListedKept
  <2> QED BY <2>1, <2>3, <2>4, Frame DEF OthersKept
<1>3. ASSUME ReconcilePublish PROVE IInv'
  <2>1. /\ LockKept /\ ThreadsKept /\ WorkersKept /\ CancelsKept /\ ListedKept
        /\ server' = [server EXCEPT !.pc = "stale"]
    BY <1>3, Unchanged DEF ReconcilePublish
  <2>2. PICK ok \in [Runs -> BOOLEAN] :
          run' = [r \in Runs |-> IF listed[r].status = "none"
                                 THEN Published(run[r], ok[r]) ELSE run[r]]
    BY <1>3 DEF ReconcilePublish
  <2>3. \A s \in Runs : \A b \in BOOLEAN :
          /\ Published(run[s], b) \in Rows
          /\ run[s].status = "none" => Published(run[s], b) = run[s]
          /\ run[s].status # "none" => Evolves(run[s], Published(run[s], b))
    <3>1. \A s \in Runs : \A b \in BOOLEAN : Published(run[s], b) \in Rows BY <1>0, RowOpTypes
    <3>2. \A s \in Runs : \A b \in BOOLEAN :
            run[s].status = "none" => Published(run[s], b) = run[s]
      BY DEF Published, IsTerminal, Terminal
    <3>3. \A s \in Runs : \A b \in BOOLEAN :
            run[s].status # "none" => Evolves(run[s], Published(run[s], b))
      BY <1>0, SmallOps
    <3> QED BY <3>1, <3>2, <3>3
  <2>4. Steady BY <1>0, <2>2, <2>3 DEF Steady, SteadyAt
  <2>5. ServerKept BY <2>1, <2>4, PcKept DEF ServerPCs
  <2> QED BY <2>1, <2>4, <2>5, Frame DEF OthersKept
<1>4. ASSUME RecoverStale PROVE IInv'
  <2>1. /\ ThreadsKept /\ WorkersKept /\ CancelsKept /\ ListedKept
        /\ server' = [server EXCEPT !.pc = "ready"]
    BY <1>4, <1>b, Unchanged DEF RecoverStale
  <2>2. LockKept BY <1>4, LockSteps, Unchanged DEF RecoverStale
  <2>3. Steady
    <3>1. CASE ~(lock.run \in Runs /\ Exists(lock.run)) BY <1>4, <3>1, Unchanged DEF RecoverStale
    <3>2. CASE lock.run \in Runs /\ Exists(lock.run)
      <4> DEFINE r == lock.run
      <4>1. PICK row \in {Bound(run[r]), Bump(Bound(run[r]))} : Save(r, row)
        BY <1>4, <3>2 DEF RecoverStale, Save
      <4>2. Evolves(run[r], Bound(run[r])) /\ run[r] \in Rows /\ run[r].status # "none"
        BY <1>0, <3>2, LockOps DEF Exists
      <4>3. Bound(run[r]) \in Rows /\ Bound(run[r]).status # "none" BY <4>2 DEF Evolves
      <4>4. Evolves(Bound(run[r]), Bump(Bound(run[r]))) BY <4>3, SmallOps
      <4>5. Evolves(run[r], row) BY <4>1, <4>2, <4>3, <4>4, EvolvesTrans DEF Evolves
      <4> QED BY <3>2, <4>1, <4>2, <4>5, SaveSteady
    <3> QED BY <3>1, <3>2
  <2>4. ServerKept BY <2>1, <2>3, PcKept DEF ServerPCs
  <2> QED BY <2>1, <2>2, <2>3, <2>4, Frame DEF OthersKept
<1> QED BY <1>1, <1>2, <1>3, <1>4

----
(* The theorems. *)

\* Every step of the engine preserves the invariant.
LEMMA Step ==
  ASSUME IInv, [Next]_vars
  PROVE  IInv'
<1>1. CASE UNCHANGED vars
  <2>1. UNCHANGED <<run, lock, thread, worker, canceller, server, listed>> BY <1>1 DEF vars
  <2> QED BY <2>1, Unchanged, Frame DEF OthersKept
<1>2. ASSUME NEW o \in Owners, NEW h \in Hosts, AcquireRead(o, h) PROVE IInv' BY <1>2, AcquireInv
<1>3. ASSUME NEW o \in Owners, AcquireInsert(o) \/ SyncRelease(o) \/ HostCrash(o) PROVE IInv'
  BY <1>3, AcquireInv
<1>4. ASSUME NEW r \in Runs, LaunchStep(r) \/ CancelStep(r) \/ ReconcileStep(r) PROVE IInv'
  BY <1>4, LaunchInv, CancelInv, ReconcileInv
<1>5. ASSUME NEW r \in Runs, NEW h \in Hosts, CancelRead(r, h) PROVE IInv' BY <1>5, CancelInv
<1>6. ASSUME NEW r \in Runs, NEW n \in Leases,
             WorkerStep(r, n) \/ Heartbeat(r, n) \/ ChildExit(r, n) \/ WorkerCrash(r, n)
      PROVE  IInv'
  BY <1>6, WorkerInv
<1>7. ASSUME ServerCrash \/ ServerRestart \/ ReconcilePublish \/ RecoverStale PROVE IInv'
  BY <1>7, ServerInv
<1> QED BY <1>1, <1>2, <1>3, <1>4, <1>5, <1>6, <1>7 DEF Next

\* The invariant holds of the empty database.
LEMMA Start ==
  ASSUME Init
  PROVE  IInv
<1>1. NoRow \in Rows /\ NoRow.status = "none" BY NoRowType DEF NoRow
<1>2. IdleThread \in Threads /\ IdleThread.pc = "idle" BY <1>1 DEF IdleThread, Threads, ThreadPCs
<1>3. IdleCancel \in Cancels /\ IdleCancel.pc = "idle" BY <1>1 DEF IdleCancel, Cancels, CancelPCs
<1>4. NoWorker \in Workers /\ NoWorker.pc = "none" /\ NoWorker.child = FALSE
  BY <1>1 DEF NoWorker, Workers, WorkerPCs
<1>5. NoLock \in Locks /\ NoLock.run = None BY DEF NoLock, Locks
<1>6. server \in Servers /\ server.todo = {} /\ server.cur = None
  BY <1>1 DEF Init, Servers, ServerPCs
<1>7. TypeOK BY <1>1, <1>2, <1>3, <1>4, <1>5, <1>6 DEF Init, TypeOK
<1>8. ASSUME NEW r \in Runs PROVE RunOK(r)
  <2>1. /\ run[r] = NoRow /\ thread[r] = IdleThread /\ canceller[r] = IdleCancel
        /\ listed[r] = NoRow /\ lock = NoLock
        /\ \A n \in Leases : worker[r][n] = NoWorker
    BY DEF Init, Owners
  <2>2. RowOK(run[r]) /\ ThreadOK(thread[r], run[r]) /\ CancelOK(canceller[r], run[r])
        /\ ListedOK(listed[r], run[r])
    BY <1>1, <1>2, <1>3, <2>1 DEF RowOK, ThreadOK, CancelOK, ListedOK, CreatedPCs
  <2>3. ServerOK(server, r, run[r]) /\ LockOK(lock, r, run[r])
    BY <1>5, <1>6, <2>1, OwnersAssumption DEF ServerOK, LockOK
  <2>4. \A n \in Leases : WorkerOK(worker[r][n], run[r], n)
    BY <1>1, <1>4, <2>1 DEF WorkerOK, ClaimedPCs
  <2> QED BY <2>2, <2>3, <2>4 DEF RunOK
<1> QED BY <1>7, <1>8 DEF IInv

\* The inductive invariant holds of every reachable state.
THEOREM Invariance == Spec => []IInv
<1>1. Init => IInv BY Start
<1>2. IInv /\ [Next]_vars => IInv' BY Step
<1> QED BY <1>1, <1>2, PTL DEF Spec

\* Every variable of the engine keeps its type: in particular startup
\* reconciliation never reserves a lease beyond the bounded launch attempts.
THEOREM TypeCorrect == Spec => []TypeOK
<1>1. IInv => TypeOK BY DEF IInv
<1> QED BY <1>1, Invariance, PTL

\* The worker that executes a run holds the lease the run row names.
THEOREM LeaseOwnership == Spec => []ExecutorOwnsLease
<1>1. IInv => ExecutorOwnsLease BY DEF IInv, RunOK, WorkerOK, ExecutorOwnsLease, Executing
<1> QED BY <1>1, Invariance, PTL

\* A run is executed by at most one worker process at any time, whatever
\* crashes, restarts, relaunches and cancellations happen.
THEOREM SingleExecution == Spec => []AtMostOneExecution
<1>1. ExecutorOwnsLease => AtMostOneExecution BY DEF ExecutorOwnsLease, AtMostOneExecution
<1> QED BY <1>1, LeaseOwnership, PTL

\* The run table and the lock table agree about the lease of the lock's owner.
THEOREM LockAgreement == Spec => []LockAgreesWithRun
<1>1. IInv => LockAgreesWithRun BY DEF IInv, RunOK, LockOK, LockAgreesWithRun, Exists
<1> QED BY <1>1, Invariance, PTL

\* Run row, lock row and executing worker process name one lease.
THEOREM LeasesAgree == Spec => []LeaseAgreement
<1>1. ExecutorOwnsLease /\ LockAgreesWithRun => LeaseAgreement BY DEF LeaseAgreement
<1> QED BY <1>1, LeaseOwnership, LockAgreement, PTL

\* A row read earlier that has the current version agrees with the current row.
THEOREM VersionsIdentifyStates == Spec => []VersionIdentifiesState
<1>1. IInv => VersionIdentifiesState
  BY DEF IInv, RunOK, ThreadOK, CancelOK, ListedOK, ServerOK, WorkerOK, VersionIdentifiesState
<1> QED BY <1>1, Invariance, PTL

----
(* DurableRun implements RunLifecycle: the initial states correspond, and   *)
(* every step changes the status of at most one run, along an edge of the   *)
(* abstract lifecycle.                                                      *)

\* The moves of RunLifecycle, on the statuses of the run table.
Allowed(from, to) ==
    \/ from = to
    \/ from = "none" /\ to = "launch_pending"
    \/ from \in {"launch_pending", "queued"} /\ to \in {"launch_pending", "queued", "running"}
    \/ from \in Recoverable /\ to \in {"cancellation_pending", "recovery_pending", "failed"}
    \/ from = "running" /\ to \in {"completed", "timed_out"}
    \/ from = "cancellation_pending" /\ to = "cancelled"

LifeStep ==
    /\ \A s \in Runs : Allowed(run[s].status, run'[s].status)
    /\ \A s, t \in Runs :
         run'[s].status # run[s].status /\ run'[t].status # run[t].status => s = t

\* The status each row operation leaves.
LEMMA StatusAfter ==
  ASSUME NEW row \in Rows
  PROVE  /\ Bump(row).status = row.status
         /\ Beat(row).status = row.status
         /\ Adopted(row).status = row.status
         /\ WithChild(row).status = row.status
         /\ NotedCancelling(row).status = row.status
         /\ \A ph : SetPhase(row, ph).status = row.status
         /\ \A n, ph : Progress(row, n, ph).status = row.status
         /\ \A ok : Published(row, ok).status = row.status
         /\ Bound(row).status = row.status
         /\ ClaimedRow(row).status = row.status
         /\ \A r, n : Released(row, r, n).status = row.status
         /\ \A st : ToTerminal(row, st).status = st
         /\ ToRecoveryPending(row).status = "recovery_pending"
         /\ ToCancelling(row).status = "cancellation_pending"
         /\ ToRunning(row).status = "running"
         /\ Launched(row).status = "queued"
         /\ FirstLaunched(row).status = "queued"
         /\ Reserved(row).status = "launch_pending"
<1>1. Bump(row).status = row.status /\ Beat(row).status = row.status BY DEF Bump, Beat, Rows
<1>2. /\ Adopted(row).status = row.status /\ WithChild(row).status = row.status
      /\ NotedCancelling(row).status = row.status
  BY DEF Adopted, WithChild, NotedCancelling, Bump, Rows
<1>3. \A ph : SetPhase(row, ph).status = row.status BY DEF SetPhase, Bump, Beat, Rows
<1>4. \A n, ph : Progress(row, n, ph).status = row.status BY <1>3 DEF Progress
<1>5. \A ok : Published(row, ok).status = row.status BY DEF Published, Bump, Rows
<1>6. Bound(row).status = row.status BY <1>1 DEF Bound
<1>7. ClaimedRow(row).status = row.status
  <2>1. Bump(Bump(row)).status = row.status BY DEF Bump, Rows
  <2> QED BY <1>1, <2>1 DEF ClaimedRow, Bound
<1>8. \A r, n : Released(row, r, n).status = row.status BY <1>1 DEF Released
<1>9. \A st : ToTerminal(row, st).status = st BY DEF ToTerminal, Bump, Rows
<1>10. /\ ToRecoveryPending(row).status = "recovery_pending"
       /\ ToCancelling(row).status = "cancellation_pending"
       /\ ToRunning(row).status = "running"
  BY DEF ToRecoveryPending, ToCancelling, ToRunning, Bump, Rows
<1>11. /\ Launched(row).status = "queued" /\ FirstLaunched(row).status = "queued"
       /\ Reserved(row).status = "launch_pending"
  BY DEF Launched, FirstLaunched, Reserved, Bump, Rows
<1> QED BY <1>1, <1>2, <1>3, <1>4, <1>5, <1>6, <1>7, <1>8, <1>9, <1>10, <1>11

\* A step that leaves the run table alone is a step of the lifecycle.
LEMMA LifeKeep == run' = run => LifeStep
  BY DEF LifeStep, Allowed

\* So is a step that moves one run along an edge of the lifecycle.
LEMMA LifeSave ==
  ASSUME IInv, NEW r \in Runs, NEW row, Save(r, row), Allowed(run[r].status, row.status)
  PROVE  LifeStep
<1>1. run \in [Runs -> Rows] BY DEF IInv, TypeOK
<1> QED BY <1>1 DEF Save, LifeStep, Allowed

\* A run that exists and is not terminal has a recoverable status.
LEMMA NotTerminal ==
  ASSUME NEW row \in Rows, row.status # "none", ~IsTerminal(row)
  PROVE  row.status \in Recoverable
  BY DEF Rows, Statuses, IsTerminal

\* Publication and release change no status.
LEMMA LifeRelease ==
  ASSUME IInv, NEW r \in Runs, NEW ok, NEW n,
         \/ Save(r, Released(Published(run[r], ok), r, n))
         \/ Save(r, Published(run[r], ok)),
         ok \in BOOLEAN
  PROVE  LifeStep
<1>1. run[r] \in Rows BY Here
<1>2. Published(run[r], ok) \in Rows BY <1>1, RowOpTypes
<1> QED BY <1>1, <1>2, StatusAfter, LifeSave DEF Allowed

\* Launching: a run is accepted, recorded as queued, or failed while open.
LEMMA LaunchLife ==
  ASSUME IInv, NEW r \in Runs, LaunchStep(r)
  PROVE  LifeStep
<1>0. run[r] \in Rows /\ RunOK(r) BY Here
<1>1. CASE CreateRun(r)
  <2>1. run[r].status = "none" BY <1>0, <1>1 DEF CreateRun, RunOK, ThreadOK
  <2>2. NewRow.status = "launch_pending" BY DEF NewRow, NoRow
  <2> QED BY <1>1, <2>1, <2>2, LifeKeep, LifeSave DEF CreateRun, Allowed
<1>2. CASE BindRun(r)
  <2>1. run[r].status # "none" BY <1>2, RunExists DEF BindRun, CreatedPCs
  <2>2. Bound(run[r]) \in Rows BY <1>0, <2>1, LockOps DEF Evolves
  <2> QED BY <1>0, <1>2, <2>2, StatusAfter, LifeKeep, LifeSave DEF BindRun, Allowed
<1>3. CASE SpawnWorker(r) BY <1>3, LifeKeep DEF SpawnWorker
<1>4. CASE RecordLaunch(r)
  <2>1. PICK row : /\ Save(r, row)
                   /\ \/ row = run[r]
                      \/ run[r].status = "launch_pending" /\ row = FirstLaunched(run[r])
    BY <1>4 DEF RecordLaunch
  <2> QED BY <1>0, <2>1, StatusAfter, LifeSave DEF Allowed
<1>5. CASE LaunchEvent(r) BY <1>0, <1>5, StatusAfter, LifeSave DEF LaunchEvent, Allowed
<1>6. CASE FailLaunch(r)
  <2>1. run[r].status # "none" BY <1>6, RunExists DEF FailLaunch, CreatedPCs
  <2>2. CASE MatchesBeat(run[r], thread[r].snap)
    <3>1. run[r].status \in Recoverable BY <1>0, <2>1, <2>2, NotTerminal DEF MatchesBeat, Matches
    <3> QED BY <1>0, <1>6, <2>2, <3>1, StatusAfter, LifeSave DEF FailLaunch, Allowed
  <2>3. CASE ~MatchesBeat(run[r], thread[r].snap) BY <1>6, <2>3, LifeKeep DEF FailLaunch
  <2> QED BY <2>2, <2>3
<1>7. CASE UndoLaunch(r) BY <1>7, Outcomes, LifeRelease DEF UndoLaunch
<1> QED BY <1>1, <1>2, <1>3, <1>4, <1>5, <1>6, <1>7 DEF LaunchStep

\* A worker begins a waiting run, and settles, stops or holds a running one.
LEMMA WorkerLife ==
  ASSUME IInv, NEW r \in Runs, NEW n \in Leases,
         WorkerStep(r, n) \/ Heartbeat(r, n) \/ ChildExit(r, n) \/ WorkerCrash(r, n)
  PROVE  LifeStep
<1>0. run[r] \in Rows /\ RunOK(r) /\ worker[r][n] \in Workers BY Here
<1>1. CASE WorkerClaim(r, n)
  <2>1. CASE MayClaim(run[r], worker[r][n].snap, n)
    BY <1>0, <1>1, <2>1, StatusAfter, LifeSave DEF WorkerClaim, MayClaim, Allowed
  <2>2. CASE ~MayClaim(run[r], worker[r][n].snap, n) BY <1>1, <2>2, LifeKeep DEF WorkerClaim
  <2> QED BY <2>1, <2>2
<1>2. CASE WorkerLock(r, n)
  <2>1. run[r].status # "none" BY <1>2, RunExists DEF WorkerLock
  <2>2. ClaimedRow(run[r]) \in Rows BY <1>0, <2>1, LockOps DEF Evolves
  <2> QED BY <1>0, <1>2, <2>2, StatusAfter, LifeKeep, LifeSave DEF WorkerLock, Allowed
<1>3. CASE WorkerLost(r, n)
  <2>1. run' = run \/ (run[r].status = "running" /\ Save(r, ToRecoveryPending(run[r])))
    BY <1>3 DEF WorkerLost
  <2> QED BY <1>0, <2>1, StatusAfter, LifeKeep, LifeSave DEF Allowed, Recoverable
<1>4. CASE StartChild(r, n) BY <1>0, <1>4, StatusAfter, LifeKeep, LifeSave DEF StartChild, Allowed
<1>5. CASE AttachChild(r, n)
  <2>1. WithChild(run[r]) \in Rows BY <1>0, RowOpTypes
  <2>2. run' = run \/ Save(r, Progress(WithChild(run[r]), n, "executable")) BY <1>5 DEF AttachChild
  <2> QED BY <1>0, <2>1, <2>2, StatusAfter, LifeKeep, LifeSave DEF Allowed
<1>6. CASE TimeoutChild(r, n) BY <1>0, <1>6, StatusAfter, LifeSave DEF TimeoutChild, Allowed
<1>7. CASE WorkerCommit(r, n)
  <2> DEFINE out == worker[r][n].out
  <2>1. \/ run' = run
        \/ /\ run[r].status = "running"
           /\ \/ out \in Terminal /\ Save(r, ToTerminal(run[r], out))
              \/ Save(r, ToCancelling(run[r]))
    BY <1>7 DEF WorkerCommit
  <2>2. out \in Terminal => out \in {"completed", "failed", "timed_out"}
    BY <1>0 DEF Workers, Terminal
  <2>3. CASE run' = run BY <2>3, LifeKeep
  <2>4. CASE /\ run[r].status = "running"
             /\ out \in Terminal /\ Save(r, ToTerminal(run[r], out))
    BY <1>0, <2>2, <2>4, StatusAfter, LifeSave DEF Allowed, Recoverable
  <2>5. CASE run[r].status = "running" /\ Save(r, ToCancelling(run[r]))
    BY <1>0, <2>5, StatusAfter, LifeSave DEF Allowed, Recoverable
  <2> QED BY <2>1, <2>3, <2>4, <2>5
<1>8. CASE WorkerClose(r, n)
  <2>1. run' = run \/ \E ok \in BOOLEAN : Save(r, Released(Published(run[r], ok), r, n))
    BY <1>8, Outcomes DEF WorkerClose
  <2> QED BY <2>1, LifeKeep, LifeRelease
<1>9. CASE Heartbeat(r, n) BY <1>0, <1>9, StatusAfter, LifeSave DEF Heartbeat, Allowed
<1>10. CASE WorkerRead(r, n) \/ WaitChild(r, n) \/ WorkerFinish(r, n) \/ ChildExit(r, n)
            \/ WorkerCrash(r, n)
  BY <1>10, LifeKeep DEF WorkerRead, WaitChild, WorkerFinish, ChildExit, WorkerCrash
<1> QED BY <1>1, <1>2, <1>3, <1>4, <1>5, <1>6, <1>7, <1>8, <1>9, <1>10 DEF WorkerStep

\* Only a run asked to stop is cancelled.
LEMMA CancelLife ==
  ASSUME IInv, NEW r \in Runs, CancelStep(r)
  PROVE  LifeStep
<1>0. run[r] \in Rows /\ RunOK(r) BY Here
<1>1. CASE CancelMark(r)
  <2>1. run[r].status # "none" BY <1>1, RunExists DEF CancelMark
  <2>2. CASE Matches(run[r], canceller[r].snap)
    <3>1. run[r].status \in Recoverable BY <1>0, <2>1, <2>2, NotTerminal DEF Matches
    <3> QED BY <1>0, <1>1, <2>2, <3>1, StatusAfter, LifeSave DEF CancelMark, Allowed
  <2>3. CASE ~Matches(run[r], canceller[r].snap) BY <1>1, <2>3, LifeKeep DEF CancelMark
  <2> QED BY <2>2, <2>3
<1>2. CASE CancelKill(r)
  <2>1. run' = run \/ Save(r, NotedCancelling(run[r])) \/ Save(r, run[r]) BY <1>2 DEF CancelKill
  <2> QED BY <1>0, <2>1, StatusAfter, LifeKeep, LifeSave DEF Allowed
<1>3. CASE CancelFinish(r)
  <2>1. PICK row : /\ Save(r, row)
                   /\ \/ row = run[r]
                      \/ /\ run[r].status = "cancellation_pending"
                         /\ row = ToTerminal(run[r], "cancelled")
    BY <1>3 DEF CancelFinish
  <2> QED BY <1>0, <2>1, StatusAfter, LifeSave DEF Allowed
<1>4. CASE CancelRelease(r)
  <2>1. \E ok \in BOOLEAN : \/ Save(r, Released(Published(run[r], ok), r, canceller[r].snap.lease))
                            \/ Save(r, Published(run[r], ok))
    BY <1>4, Outcomes DEF CancelRelease
  <2> QED BY <2>1, LifeRelease
<1> QED BY <1>1, <1>2, <1>3, <1>4 DEF CancelStep

\* Reconciliation keeps a run waiting, holds it or fails it.
LEMMA ReconcileLife ==
  ASSUME IInv, NEW r \in Runs, ReconcileStep(r)
  PROVE  LifeStep
<1>0. run[r] \in Rows /\ listed[r] \in Rows /\ RunOK(r) BY Here
<1>a. run[r].status # "none" BY RunExists
     DEF ReconcileStep, ReconcileAdopt, ReconcileClaim, ReconcileRaises, ReconcileChild,
         ReconcileRetain,
         ReconcileReserve, ReconcileRespawn, ReconcileRecord, ReconcileDead, ReconcileFail,
         ReconcileRelease, InHand
<1>1. CASE ReconcileAdopt(r)
  <2>1. Save(r, Adopted(run[r])) \/ Save(r, run[r]) BY <1>1 DEF ReconcileAdopt
  <2> QED BY <1>0, <2>1, StatusAfter, LifeSave DEF Allowed
<1>2. CASE ReconcileClaim(r)
  <2>1. \/ Save(r, ClaimedRow(run[r])) \/ Save(r, run[r])
        \/ run[r].status = "running" /\ Save(r, ToRecoveryPending(run[r]))
    BY <1>2 DEF ReconcileClaim
  <2> QED BY <1>0, <2>1, StatusAfter, LifeSave DEF Allowed, Recoverable
<1>3. CASE ReconcileChild(r)
  <2>1. \/ Save(r, run[r])
        \/ ~IsTerminal(run[r]) /\ Save(r, ToRecoveryPending(run[r]))
    BY <1>3 DEF ReconcileChild, MatchesBeat, Matches
  <2> QED BY <1>0, <1>a, <2>1, NotTerminal, StatusAfter, LifeSave DEF Allowed
<1>12. CASE ReconcileRaises(r)
  <2>1. \/ Save(r, run[r])
        \/ ~IsTerminal(run[r]) /\ Save(r, ToRecoveryPending(run[r]))
    BY <1>12 DEF ReconcileRaises, MatchesBeat, Matches
  <2> QED BY <1>0, <1>a, <2>1, NotTerminal, StatusAfter, LifeSave DEF Allowed
<1>4. CASE ReconcileReserve(r)
  <2>1. \/ run' = run
        \/ Matches(run[r], listed[r]) /\ Unclaimed(listed[r]) /\ Save(r, Reserved(run[r]))
    BY <1>4 DEF ReconcileReserve
  <2> QED BY <1>0, <2>1, StatusAfter, LifeKeep, LifeSave DEF Allowed, Matches, Unclaimed
<1>5. CASE ReconcileRecord(r)
  <2>1. \/ Save(r, run[r])
        \/ run[r].status = "launch_pending" /\ Save(r, Launched(run[r]))
    BY <1>5 DEF ReconcileRecord
  <2> QED BY <1>0, <2>1, StatusAfter, LifeSave DEF Allowed
<1>6. CASE ReconcileFail(r)
  <2>1. \/ run' = run
        \/ ~IsTerminal(run[r]) /\ Save(r, ToTerminal(run[r], "failed"))
    BY <1>6 DEF ReconcileFail, MatchesBeat, Matches
  <2> QED BY <1>0, <1>a, <2>1, NotTerminal, StatusAfter, LifeKeep, LifeSave DEF Allowed
<1>7. CASE ReconcileRelease(r) BY <1>7, Outcomes, LifeRelease DEF ReconcileRelease
<1>8. CASE ReconcileRetain(r) \/ ReconcileRespawn(r) \/ ReconcileDead(r)
  BY <1>8, LifeKeep DEF ReconcileRetain, ReconcileRespawn, ReconcileDead
<1> QED BY <1>1, <1>2, <1>3, <1>4, <1>5, <1>6, <1>7, <1>8, <1>12 DEF ReconcileStep

\* The remaining steps change no status.
LEMMA OtherLife ==
  ASSUME IInv
  PROVE  /\ \A o \in Owners, h \in Hosts : AcquireRead(o, h) => LifeStep
         /\ \A o \in Owners : AcquireInsert(o) \/ SyncRelease(o) \/ HostCrash(o) => LifeStep
         /\ \A r \in Runs, h \in Hosts : CancelRead(r, h) => LifeStep
         /\ ServerCrash \/ ServerRestart \/ ReconcilePublish \/ RecoverStale => LifeStep
<1>0. run \in [Runs -> Rows] BY DEF IInv, TypeOK
<1>1. ASSUME NEW o \in Owners, AcquireInsert(o) PROVE LifeStep
  <2>1. run' = run \/ \E old \in Runs : Save(old, Bump(run[old])) BY <1>1 DEF AcquireInsert, Save
  <2> QED BY <1>0, <2>1, StatusAfter, LifeKeep, LifeSave DEF Allowed
<1>2. ASSUME ReconcilePublish PROVE LifeStep
  <2>1. \A s \in Runs : run'[s].status = run[s].status
    BY <1>0, <1>2, StatusAfter DEF ReconcilePublish
  <2> QED BY <2>1 DEF LifeStep, Allowed
<1>3. ASSUME RecoverStale PROVE LifeStep
  <2>1. \/ run' = run
        \/ \E r \in Runs : /\ run[r].status # "none"
                           /\ Save(r, Bound(run[r])) \/ Save(r, Bump(Bound(run[r])))
    BY <1>3 DEF RecoverStale, Save, Exists
  <2>2. ASSUME NEW r \in Runs, run[r].status # "none",
               Save(r, Bound(run[r])) \/ Save(r, Bump(Bound(run[r])))
        PROVE  LifeStep
    <3>1. Bound(run[r]) \in Rows BY <1>0, <2>2, LockOps DEF Evolves
    <3> QED BY <1>0, <2>2, <3>1, StatusAfter, LifeSave DEF Allowed
  <2> QED BY <2>1, <2>2, LifeKeep
<1>4. ASSUME NEW o \in Owners, NEW h \in Hosts, AcquireRead(o, h) PROVE LifeStep
  BY <1>4, LifeKeep DEF AcquireRead
<1>5. ASSUME NEW o \in Owners, SyncRelease(o) \/ HostCrash(o) PROVE LifeStep
  BY <1>5, LifeKeep DEF SyncRelease, HostCrash
<1>6. ASSUME NEW r \in Runs, NEW h \in Hosts, CancelRead(r, h) PROVE LifeStep
  BY <1>6, LifeKeep DEF CancelRead
<1>7. ASSUME ServerCrash \/ ServerRestart PROVE LifeStep
  BY <1>7, LifeKeep DEF ServerCrash, ServerRestart
<1> QED BY <1>1, <1>2, <1>3, <1>4, <1>5, <1>6, <1>7

\* Every step of the engine is a step of the lifecycle on statuses.
LEMMA StepLife ==
  ASSUME IInv, [Next]_vars
  PROVE  LifeStep
<1>1. CASE UNCHANGED vars BY <1>1, LifeKeep DEF vars
<1>2. CASE Next BY <1>2, LaunchLife, CancelLife, ReconcileLife, WorkerLife, OtherLife DEF Next
<1> QED BY <1>1, <1>2

----
LifeBar == [r \in Runs |-> LifeOf(run[r].status)]

\* Moving a run along an allowed edge is a step of the abstract specification.
LEMMA AbstractMove ==
  ASSUME NEW from \in Statuses, NEW to \in Statuses, Allowed(from, to)
  PROVE  \/ LifeOf(to) = LifeOf(from)
         \/ LifeOf(from) = "absent" /\ LifeOf(to) = "waiting"
         \/ LifeOf(from) = "waiting" /\ LifeOf(to) = "executing"
         \/ LifeOf(from) \in {"waiting", "executing", "held"} /\ LifeOf(to) = "stopping"
         \/ LifeOf(from) \in {"waiting", "executing", "stopping", "held"} /\ LifeOf(to) = "held"
         \/ LifeOf(from) = "executing" /\ LifeOf(to) \in {"completed", "timed_out"}
         \/ LifeOf(from) = "stopping" /\ LifeOf(to) = "cancelled"
         \/ LifeOf(from) \in Life!Open /\ LifeOf(to) = "failed"
  BY DEF Statuses, Allowed, LifeOf, Recoverable, Terminal, Life!Open

\* A lifecycle step on statuses is a step of the abstract specification.
LEMMA AbstractStep ==
  ASSUME run \in [Runs -> Rows], run' \in [Runs -> Rows], LifeStep
  PROVE  [Life!Next]_LifeBar
<1>0. \A s \in Runs : run[s].status \in Statuses /\ run'[s].status \in Statuses BY DEF Rows
<1>1. CASE \A s \in Runs : run'[s].status = run[s].status BY <1>1 DEF LifeBar
<1>2. ASSUME NEW r \in Runs, run'[r].status # run[r].status
      PROVE  [Life!Next]_LifeBar
  <2> DEFINE a == LifeOf(run[r].status)
             b == LifeOf(run'[r].status)
  <2>1. LifeBar[r] = a /\ LifeBar' = [LifeBar EXCEPT ![r] = b] BY <1>2 DEF LifeStep, LifeBar
  <2>2. \A F : a \in F => Life!Move(r, F, b) BY <2>1 DEF Life!Move, LifeBar
  <2>3. Allowed(run[r].status, run'[r].status) BY DEF LifeStep
  <2>4. CASE a = b BY <2>1, <2>4 DEF LifeBar
  <2>5. CASE a # b
    <3>1. \/ a = "absent" /\ b = "waiting"
          \/ a = "waiting" /\ b = "executing"
          \/ a \in {"waiting", "executing", "held"} /\ b = "stopping"
          \/ a \in {"waiting", "executing", "stopping", "held"} /\ b = "held"
          \/ a = "executing" /\ b \in {"completed", "timed_out"}
          \/ a = "stopping" /\ b = "cancelled"
          \/ a \in Life!Open /\ b = "failed"
      BY <1>0, <2>3, <2>5, AbstractMove
    <3> HIDE DEF a, b
    <3>2. \/ Life!Accept(r) \/ Life!Begin(r) \/ Life!Stop(r) \/ Life!Hold(r) \/ Life!Settle(r)
      BY <2>2, <3>1 DEF Life!Accept, Life!Begin, Life!Stop, Life!Hold, Life!Settle
    <3> QED BY <3>2 DEF Life!Next
  <2> QED BY <2>4, <2>5
<1> QED BY <1>1, <1>2

\* The engine implements the abstract lifecycle: at most one execution and at
\* most one outcome of every run, whatever launchers, workers, cancellers and
\* reconcilers interleave.
THEOREM Refinement == Spec => ImplementsLifecycle
<1>1. Init => Life!Init BY DEF Init, Life!Init, LifeOf, NoRow
<1>2. IInv /\ IInv' /\ [Next]_vars => [Life!Next]_LifeBar BY StepLife, AbstractStep DEF IInv, TypeOK
<1> QED BY <1>1, <1>2, Invariance, PTL DEF Spec, ImplementsLifecycle, Life!Spec, LifeBar

----
(* What the repository lock is for: two owners never work at the same       *)
(* time, and a run reported cancelled has stopped.  Unlike the invariants   *)
(* above this does not hold for every fault: Sheltered names what the       *)
(* argument needs, and TLC finds a violation without any one of its parts.  *)
(*                                                                          *)
(* The inductive invariant XInv says, next to IInv, where the processes of  *)
(* a run can be given its row and its lock, and what launchers, cancellers  *)
(* and the reconciler have made sure of before they end a run or release    *)
(* its lock.                                                                *)


\* One process launches and cancels, terminating a worker reaches its child and is
\* confirmed, a worker dies only when it is terminated, artifact writes succeed, and
\* the two halves of acquire are not interleaved with another acquire.
Sheltered ==
    /\ Hosts \subseteq {"server"} /\ TreeKill
    /\ Faults \cap {"io", "unconfirmed", "worker_crash", "acquire_race"} = {}

\* A process that does nothing for the run, and the control states before, at and
\* after a worker's work.
Quiet(w) == w.pc \notin ClaimedPCs /\ ~w.child
AtWork == {"spawn", "attach", "wait", "finish", "commit"}
Past == {"none", "boot", "claim", "close", "exited"}

\* Whoever works has the lock; the child belongs to a worker that waits for it; no
\* process of a later lease exists; an ended run has no process at work.
ProcessesOK(r) ==
    \A n \in Leases :
        /\ worker[r][n].child => worker[r][n].pc \in {"attach", "wait"}
        /\ n > run[r].lease => worker[r][n].pc = "none"
        /\ worker[r][n].pc \in AtWork => lock.run = r
        /\ IsTerminal(run[r]) => worker[r][n].pc \in Past

\* A launching thread works on the first lease, and gives up only a launch whose
\* process was not started or has been terminated.
LaunchOK(r) ==
    /\ thread[r].pc \in {"bind", "spawn", "record", "event", "fail", "undo"} => run[r].lease = 1
    /\ thread[r].pc \in {"bind", "spawn"} => worker[r][1].pc = "none"
    /\ thread[r].pc \in {"fail", "undo"} => worker[r][1].pc \in {"none", "exited"}
    /\ thread[r].pc = "undo" => IsTerminal(run[r])

\* A canceller that is about to terminate knows the worker; one that is about to
\* report the run cancelled has terminated it.
CancellingOK(r) ==
    /\ canceller[r].pc = "kill" =>
           /\ ~Unclaimed(run[r])
           /\ canceller[r].snap.lease = run[r].lease
           /\ run[r].wpid => canceller[r].snap.wpid
    /\ canceller[r].pc = "finish" =>
           ~Unclaimed(run[r]) /\ \A n \in Leases : Quiet(worker[r][n])
    /\ canceller[r].pc \in {"settle", "release"} => IsTerminal(run[r])

\* A relaunch starts a process under a lease that has none; a run about to be failed
\* has no process, unless it has changed meanwhile.
ReconcilingOK(r) ==
    server.cur = r =>
        /\ server.pc \in {"respawn", "record"} => server.snap.lease = run[r].lease
        /\ server.pc = "respawn" => worker[r][server.snap.lease].pc = "none"
        /\ server.pc = "fail" /\ run[r].ver = server.snap.ver =>
               \A n \in Leases : Quiet(worker[r][n])
        /\ server.pc = "release" => IsTerminal(run[r])

\* Launches and cancellations are the server's, and it serves them when it is ready.
HostOK ==
    /\ \A o \in Owners : thread[o].pc \in ActivePCs =>
           thread[o].host = "server" /\ server.pc = "ready"
    /\ \A r \in Runs : canceller[r].pc # "idle" =>
           canceller[r].host = "server" /\ server.pc = "ready"

\* An owner that will never work again.
Abandoned(p) ==
    IF p \in Runs /\ Exists(p) THEN IsTerminal(run[p]) ELSE thread[p].pc = "dead"

\* One thread at a time is between the halves of acquire, and what it will delete is
\* the row of an owner that is gone.
AcquireOK ==
    /\ \A o, p \in Owners : thread[o].pc = "insert" /\ thread[p].pc = "insert" => o = p
    /\ \A o \in Owners :
           thread[o].pc = "insert" =>
               \/ thread[o].seen = None
               \/ lock = NoLock
               \/ lock.run \in Owners /\ lock.run = thread[o].seen /\ Abandoned(lock.run)
    /\ \A o \in SyncOps : thread[o].pc = "work" => lock.run = o

\* The parts about single runs, and the invariant.
RunsOK == \A r \in Runs : ProcessesOK(r) /\ LaunchOK(r) /\ CancellingOK(r) /\ ReconcilingOK(r)

XInv == HostOK /\ AcquireOK /\ RunsOK

----
(* Steps that keep the invariant. *)

\* A row changes calmly: its version does not shrink, its lease stays, no worker
\* pid appears.
Calm(row, new) == row.ver <= new.ver /\ new.lease = row.lease /\ (new.wpid => row.wpid)

\* Two calm changes in one step are one.
LEMMA CalmTrans ==
  ASSUME NEW a \in Rows, NEW b \in Rows, NEW c \in Rows, Calm(a, b), Calm(b, c)
  PROVE  Calm(a, c)
  BY DEF Calm, Rows

\* Every row operation but creation, claim and relaunch is calm.
LEMMA CalmOps ==
  ASSUME NEW row \in Rows
  PROVE  /\ Calm(row, row)
         /\ Calm(row, Bump(row)) /\ Calm(row, Beat(row))
         /\ Calm(row, Adopted(row)) /\ Calm(row, WithChild(row))
         /\ Calm(row, NotedCancelling(row))
         /\ \A ph \in Phases : Calm(row, SetPhase(row, ph))
         /\ \A n, ph : ph \in Phases => Calm(row, Progress(row, n, ph))
         /\ \A ok \in BOOLEAN : Calm(row, Published(row, ok))
         /\ Calm(row, Bound(row)) /\ Calm(row, ClaimedRow(row))
         /\ \A r, n : Calm(row, Released(row, r, n))
         /\ \A st \in Terminal : Calm(row, ToTerminal(row, st))
         /\ Calm(row, ToRecoveryPending(row)) /\ Calm(row, ToCancelling(row))
         /\ Calm(row, Launched(row)) /\ Calm(row, FirstLaunched(row))
<1>1. Calm(row, row) BY DEF Calm, Rows
<1>2. Calm(row, Bump(row)) /\ Calm(row, Beat(row)) BY DEF Calm, Rows, Bump, Beat
<1>3. /\ Calm(row, Adopted(row)) /\ Calm(row, WithChild(row))
      /\ Calm(row, NotedCancelling(row))
  BY DEF Calm, Rows, Bump, Adopted, WithChild, NotedCancelling
<1>4. \A ph \in Phases : Calm(row, SetPhase(row, ph)) BY DEF Calm, Rows, Bump, Beat, SetPhase
<1>5. \A n, ph : ph \in Phases => Calm(row, Progress(row, n, ph)) BY <1>1, <1>4 DEF Progress
<1>6. \A ok \in BOOLEAN : Calm(row, Published(row, ok)) BY <1>1 DEF Calm, Rows, Bump, Published
<1>7. Calm(row, Bound(row)) BY <1>1, <1>2 DEF Bound
<1>8. Calm(row, ClaimedRow(row))
  <2>1. Calm(row, Bump(Bump(row))) BY DEF Calm, Rows, Bump
  <2> QED BY <1>1, <1>2, <2>1 DEF ClaimedRow, Bound
<1>9. \A r, n : Calm(row, Released(row, r, n)) BY <1>1, <1>2 DEF Released
<1>10. \A st \in Terminal : Calm(row, ToTerminal(row, st)) BY DEF Calm, Rows, Bump, ToTerminal
<1>11. Calm(row, ToRecoveryPending(row)) /\ Calm(row, ToCancelling(row))
  BY DEF Calm, Rows, Bump, ToRecoveryPending, ToCancelling
<1>12. Calm(row, Launched(row)) /\ Calm(row, FirstLaunched(row))
  BY DEF Calm, Rows, Bump, Launched, FirstLaunched
<1> QED BY <1>1, <1>2, <1>3, <1>4, <1>5, <1>6, <1>7, <1>8, <1>9, <1>10, <1>11, <1>12

\* The row of s, and its decisions.
CalmAt(s) ==
    /\ Calm(run[s], run'[s])
    /\ IsTerminal(run[s]) => IsTerminal(run'[s])
    /\ Unclaimed(run'[s]) => Unclaimed(run[s])

\* A calm change of a run that exists follows the lifecycle: an ended run stays
\* ended, a claimed one claimed.
LEMMA CalmLife ==
  ASSUME IInv, LifeStep, NEW s \in Runs, Calm(run[s], run'[s]),
         run[s].status # "none" \/ run'[s] = run[s]
  PROVE  CalmAt(s)
  BY DEF CalmAt, LifeStep, Allowed, IsTerminal, Terminal, Unclaimed, Recoverable

\* A worker process moves on, without beginning anything it had not begun.
Tame(w, v) ==
    /\ v.child => v.pc \in {"attach", "wait"}
    /\ w.pc = "none" => v.pc = "none"
    /\ w.pc \in {"none", "exited"} => v.pc \in {"none", "exited"}
    /\ Quiet(w) => Quiet(v)
    /\ w.pc \in Past => v.pc \in Past
\* The processes of a run are tame, and go to work only under its lock.
TameAt(s) ==
    \A n \in Leases :
        \/ worker'[s][n] = worker[s][n]
        \/ /\ Tame(worker[s][n], worker'[s][n])
           /\ worker'[s][n].pc \in AtWork => worker[s][n].pc \in AtWork \/ lock'.run = s

\* The lock stays with its owner, or is released when the owner does not work.
LockTame ==
    \/ lock' = lock
    \/ lock.run # None /\ lock'.run = lock.run
    \/ /\ lock' = NoLock
       /\ lock.run \in Runs => \A n \in Leases : worker'[lock.run][n].pc \notin AtWork
       /\ lock.run \in SyncOps => thread'[lock.run].pc # "work"

\* A run ends when none of its processes is at work.
EndsClean(s) ==
    IsTerminal(run'[s]) => IsTerminal(run[s]) \/ \A n \in Leases : worker'[s][n].pc \in Past

\* What is said of the processes is kept.
LEMMA ProcessesKept ==
  ASSUME IInv, RunsOK, NEW s \in Runs, CalmAt(s), TameAt(s), LockTame, EndsClean(s)
  PROVE  ProcessesOK(s)'
<1> SUFFICES ASSUME NEW n \in Leases
             PROVE  /\ worker'[s][n].child => worker'[s][n].pc \in {"attach", "wait"}
                    /\ n > run'[s].lease => worker'[s][n].pc = "none"
                    /\ worker'[s][n].pc \in AtWork => lock'.run = s
                    /\ IsTerminal(run'[s]) => worker'[s][n].pc \in Past
  BY DEF ProcessesOK, IsTerminal
<1>1. /\ worker[s][n].child => worker[s][n].pc \in {"attach", "wait"}
      /\ n > run[s].lease => worker[s][n].pc = "none"
      /\ worker[s][n].pc \in AtWork => lock.run = s
      /\ IsTerminal(run[s]) => worker[s][n].pc \in Past
  BY DEF RunsOK, ProcessesOK
<1>2. \/ worker'[s][n] = worker[s][n]
      \/ /\ Tame(worker[s][n], worker'[s][n])
         /\ worker'[s][n].pc \in AtWork => worker[s][n].pc \in AtWork \/ lock'.run = s
  BY DEF TameAt
<1>3. worker'[s][n].pc \in AtWork => lock'.run = s BY <1>1, <1>2 DEF LockTame
<1> QED BY <1>1, <1>2, <1>3 DEF CalmAt, Calm, EndsClean, Tame

\* What is said of a launching thread is kept while it does not move.
LEMMA LaunchKept ==
  ASSUME IInv, RunsOK, NEW s \in Runs, CalmAt(s), TameAt(s), thread'[s] = thread[s]
  PROVE  LaunchOK(s)'
<1>1. 1 \in Leases BY DEF Leases, MaxLaunchAttempts
<1>2. worker'[s][1] = worker[s][1] \/ Tame(worker[s][1], worker'[s][1]) BY <1>1 DEF TameAt
<1>3. LaunchOK(s) BY DEF RunsOK
<1> QED BY <1>2, <1>3 DEF LaunchOK, CalmAt, Calm, Tame, IsTerminal

\* What is said of a canceller is kept while it does not move.
LEMMA CancellingKept ==
  ASSUME IInv, RunsOK, NEW s \in Runs, CalmAt(s), TameAt(s), canceller'[s] = canceller[s]
  PROVE  CancellingOK(s)'
<1>1. CancellingOK(s) BY DEF RunsOK
<1>2. (\A n \in Leases : Quiet(worker[s][n])) => \A n \in Leases : Quiet(worker'[s][n])
  BY DEF TameAt, Tame
<1> QED BY <1>1, <1>2 DEF CancellingOK, CalmAt, Calm, IsTerminal, Unclaimed, Quiet

\* What is said of the reconciler is kept while it does not move, or turns to
\* another run.
LEMMA ReconcilingKept ==
  ASSUME IInv, RunsOK, NEW s \in Runs, CalmAt(s), TameAt(s), server' = server \/ server'.cur # s
  PROVE  ReconcilingOK(s)'
<1>1. CASE server'.cur # s BY <1>1 DEF ReconcilingOK
<1>2. CASE server' = server /\ server.cur = s
  <2>1. /\ server.pc \in {"respawn", "record"} => server.snap.lease = run[s].lease
        /\ server.pc = "respawn" => worker[s][server.snap.lease].pc = "none"
        /\ server.pc = "fail" /\ run[s].ver = server.snap.ver =>
               \A n \in Leases : Quiet(worker[s][n])
        /\ server.pc = "release" => IsTerminal(run[s])
    BY <1>2 DEF RunsOK, ReconcilingOK
  <2>2. server.snap.lease \in Leases /\ server.snap.ver <= run[s].ver
    BY <1>2, Here DEF RunOK, ServerOK, Agrees
  <2>3. (\A n \in Leases : Quiet(worker[s][n])) => \A n \in Leases : Quiet(worker'[s][n])
    BY DEF TameAt, Tame
  <2>4. server.pc = "respawn" => worker'[s][server.snap.lease].pc = "none"
    BY <2>1, <2>2 DEF TameAt, Tame
  <2>5. run'[s].ver = server.snap.ver => run[s].ver = server.snap.ver
    <3>1. run[s].ver \in Nat /\ server.snap.ver \in Nat BY Here DEF Rows, Servers
    <3>2. run[s].ver <= run'[s].ver BY DEF CalmAt, Calm
    <3> QED BY <2>2, <3>1, <3>2
  <2> QED BY <1>2, <2>1, <2>3, <2>4, <2>5 DEF ReconcilingOK, CalmAt, Calm, IsTerminal, Quiet
<1> QED BY <1>1, <1>2 DEF ReconcilingOK

\* No thread begins to acquire or to work, and no dead thread comes back.
ThreadsTame ==
    \A o \in Owners : \/ thread'[o] = thread[o]
                      \/ thread[o].pc # "dead" /\ thread'[o].pc \notin {"insert", "work"}

\* Only a launching thread creates a row.
Births == \A s \in Runs :
    run'[s] = run[s] \/ run[s].status # "none" \/ thread[s].pc = "create"

\* What is said of the acquiring thread is kept.
LEMMA AcquireKept ==
  ASSUME IInv, AcquireOK, LifeStep, LockTame, ThreadsTame, Births
  PROVE  AcquireOK'
<1>1. \A o, p \in Owners : thread'[o].pc = "insert" /\ thread'[p].pc = "insert" => o = p
  BY DEF AcquireOK, ThreadsTame
<1>2. ASSUME NEW o \in Owners, thread'[o].pc = "insert"
      PROVE  \/ thread'[o].seen = None
             \/ lock' = NoLock
             \/ lock'.run \in Owners /\ lock'.run = thread'[o].seen /\ Abandoned(lock.run)'
  <2>1. thread'[o] = thread[o] BY <1>2 DEF ThreadsTame
  <2>2. \/ thread[o].seen = None \/ lock = NoLock
        \/ lock.run \in Owners /\ lock.run = thread[o].seen /\ Abandoned(lock.run)
    BY <1>2, <2>1 DEF AcquireOK
  <2>3. ASSUME lock.run \in Owners, Abandoned(lock.run), lock'.run = lock.run
        PROVE  Abandoned(lock.run)'
    <3>1. CASE lock.run \in Runs /\ Exists(lock.run)
      BY <2>3, <3>1 DEF Abandoned, Exists, LifeStep, Allowed, IsTerminal, Terminal, Recoverable
    <3>2. CASE ~(lock.run \in Runs /\ Exists(lock.run))
      <4>1. thread[lock.run].pc = "dead" /\ thread'[lock.run].pc = "dead"
        BY <2>3, <3>2 DEF Abandoned, ThreadsTame
      <4>2. lock.run \in Runs => run'[lock.run].status = "none" BY <3>2, <4>1 DEF Births, Exists
      <4> QED BY <2>3, <4>1, <4>2 DEF Abandoned, Exists
    <3> QED BY <3>1, <3>2
  <2>4. NoLock.run = None BY DEF NoLock
  <2> QED BY <2>1, <2>2, <2>3, <2>4 DEF LockTame
<1>3. \A o \in SyncOps : thread'[o].pc = "work" => lock'.run = o
  <2>1. SyncOps \subseteq Owners BY DEF Owners
  <2> QED BY <2>1, OwnersAssumption DEF AcquireOK, ThreadsTame, LockTame, Owners
<1> QED BY <1>1, <1>2, <1>3 DEF AcquireOK

\* Threads and cancellers stay in the process that started them.
HostedThreads ==
    \A o \in Owners : \/ thread'[o] = thread[o]
                      \/ thread'[o].pc \notin ActivePCs
                      \/ thread[o].pc \in ActivePCs /\ thread'[o].host = thread[o].host
HostedCancels ==
    \A r \in Runs : \/ canceller'[r] = canceller[r]
                    \/ canceller'[r].pc = "idle"
                    \/ canceller[r].pc # "idle" /\ canceller'[r].host = canceller[r].host

\* What is said of the hosts is kept.
LEMMA HostKept ==
  ASSUME HostOK, HostedThreads, HostedCancels, server'.pc = server.pc \/ server.pc # "ready"
  PROVE  HostOK'
  BY DEF HostOK, HostedThreads, HostedCancels

----
\* What must be shown of each variable a step changes.
ThreadPart ==
    /\ ThreadsTame /\ HostedThreads
    /\ \A s \in Runs : thread'[s] = thread[s] \/ LaunchOK(s)'
CancelPart ==
    /\ HostedCancels
    /\ \A s \in Runs : canceller'[s] = canceller[s] \/ CancellingOK(s)'
ServerPart ==
    /\ server'.pc = server.pc \/ server.pc # "ready"
    /\ \A s \in Runs : server' = server \/ server'.cur # s \/ ReconcilingOK(s)'
RowPart == Births /\ \A s \in Runs : CalmAt(s) /\ EndsClean(s)
WorkerPart == \A s \in Runs : TameAt(s)

\* The runs, in a step that keeps every part of what is said of them.
LEMMA RunsFrame ==
  ASSUME IInv, RunsOK, LockTame, RowPart, WorkerPart,
         \A s \in Runs : thread'[s] = thread[s] \/ LaunchOK(s)',
         \A s \in Runs : canceller'[s] = canceller[s] \/ CancellingOK(s)',
         \A s \in Runs : server' = server \/ server'.cur # s \/ ReconcilingOK(s)'
  PROVE  RunsOK'
<1>1. ASSUME NEW s \in Runs
      PROVE  ProcessesOK(s)' /\ LaunchOK(s)' /\ CancellingOK(s)' /\ ReconcilingOK(s)'
  <2>1. CalmAt(s) /\ TameAt(s) /\ EndsClean(s) BY DEF RowPart, WorkerPart
  <2>2. ProcessesOK(s)' BY <2>1, ProcessesKept
  <2>3. LaunchOK(s)' BY <2>1, LaunchKept
  <2>4. CancellingOK(s)' BY <2>1, CancellingKept
  <2>5. ReconcilingOK(s)' BY <2>1, ReconcilingKept
  <2> QED BY <2>2, <2>3, <2>4, <2>5
<1> QED BY <1>1 DEF RunsOK

\* A step that keeps every part of the invariant.
LEMMA XFrame ==
  ASSUME IInv, XInv, LifeStep, LockTame, ThreadPart, CancelPart, ServerPart, RowPart, WorkerPart
  PROVE  XInv'
<1>1. HostOK' BY HostKept DEF XInv, ThreadPart, CancelPart, ServerPart
<1>2. AcquireOK' BY AcquireKept DEF XInv, ThreadPart, RowPart
<1>3. RunsOK' BY RunsFrame DEF XInv, ThreadPart, CancelPart, ServerPart
<1> QED BY <1>1, <1>2, <1>3 DEF XInv

\* What does not change is kept.
LEMMA XUnchanged ==
  ASSUME IInv
  PROVE  /\ thread' = thread => ThreadPart
         /\ canceller' = canceller => CancelPart
         /\ server' = server => ServerPart
         /\ run' = run => RowPart
         /\ worker' = worker => WorkerPart
         /\ lock' = lock => LockTame
<1>1. run' = run => RowPart
  <2>1. \A s \in Runs : Calm(run[s], run[s]) BY Here, CalmOps
  <2> QED BY <2>1 DEF RowPart, Births, CalmAt, EndsClean
<1> QED BY <1>1 DEF ThreadPart, ThreadsTame, HostedThreads, CancelPart, HostedCancels, ServerPart,
          WorkerPart, TameAt, LockTame

\* Saving a calm row of a run that exists.
LEMMA SaveCalm ==
  ASSUME IInv, LifeStep, NEW r \in Runs, NEW row, Save(r, row), Calm(run[r], row),
         run[r].status # "none",
         IsTerminal(row) => IsTerminal(run[r]) \/ \A n \in Leases : worker'[r][n].pc \in Past
  PROVE  RowPart
<1>1. run'[r] = row /\ \A s \in Runs : s # r => run'[s] = run[s] BY DEF Save, IInv, TypeOK
<1>2. \A s \in Runs : Calm(run[s], run[s]) BY Here, CalmOps
<1>3. \A s \in Runs : CalmAt(s) BY <1>1, <1>2, CalmLife
<1> QED BY <1>1, <1>3 DEF RowPart, Births, EndsClean

\* One worker process moves on.
LEMMA SetWorkerTame ==
  ASSUME IInv, NEW r \in Runs, NEW n \in Leases, NEW w, SetWorker(r, n, w),
         Tame(worker[r][n], w), w.pc \in AtWork => worker[r][n].pc \in AtWork \/ lock'.run = r
  PROVE  WorkerPart
<1>1. /\ worker'[r][n] = w
      /\ \A s \in Runs, m \in Leases : s # r \/ m # n => worker'[s][m] = worker[s][m]
  BY DEF SetWorker, IInv, TypeOK
<1> QED BY <1>1 DEF WorkerPart, TameAt

----
(* The worker processes. *)

\* A termination attempt is confirmed.
LEMMA Confirmed ==
  ASSUME Sheltered, NEW targets
  PROVE  KillOutcomes(targets) = {targets}
  BY DEF Sheltered, KillOutcomes

\* Of a run's workers at most the one with the run's lease executes.
LEMMA OneExecutes ==
  ASSUME IInv, NEW r \in Runs, NEW n \in Leases, worker[r][n].pc \in ClaimedPCs \/ worker[r][n].child
  PROVE  /\ run[r].lease = n /\ run[r].wpid /\ ~Unclaimed(run[r]) /\ run[r].status # "none"
         /\ \A m \in Leases : m # n => Quiet(worker[r][m]) /\ worker[r][m].pc \in Past
<1>1. \A m \in Leases : WorkerOK(worker[r][m], run[r], m) /\ worker[r][m] \in Workers
  BY Here DEF RunOK
<1>2. run[r].lease = n /\ run[r].wpid /\ ~Unclaimed(run[r]) BY <1>1 DEF WorkerOK
<1>3. run[r].status # "none"
  <2>1. ~(NoWorker.pc \in ClaimedPCs \/ NoWorker.child) BY DEF NoWorker, ClaimedPCs
  <2> QED BY <1>1, <2>1 DEF WorkerOK
<1>4. \A m \in Leases : m # n => Quiet(worker[r][m]) BY <1>1, <1>2 DEF WorkerOK, Quiet
<1>5. \A m \in Leases : Quiet(worker[r][m]) => worker[r][m].pc \in Past
  BY <1>1 DEF Quiet, Past, Workers, WorkerPCs, ClaimedPCs
<1> QED BY <1>2, <1>3, <1>4, <1>5

\* What terminate_process_tree leaves of a child, of a worker, and of a worker
\* with its tree.
LEMMA Terminated ==
  ASSUME Sheltered, NEW w \in Workers, NEW K
  PROVE  /\ Terminate(w, K).child => w.child /\ "child" \notin K
         /\ Terminate(w, K).pc = w.pc \/ Terminate(w, K).pc = "exited"
         /\ w.pc = "none" => Terminate(w, K).pc = "none"
         /\ "worker" \notin K => Terminate(w, K).pc = w.pc
         /\ "worker" \in K /\ w.pc \notin {"none", "exited"} =>
                Terminate(w, K).pc = "exited" /\ ~Terminate(w, K).child
<1> DEFINE stopped == "worker" \in K /\ w.pc \notin {"none", "exited"}
           v == IF stopped THEN Exited(w) ELSE w
           b == v.child /\ "child" \notin K /\ ~(stopped /\ TreeKill)
           u == [v EXCEPT !.child = b]
<1>1. Exited(w) \in Workers /\ Exited(w).pc = "exited" /\ Exited(w).child = w.child BY TerminateOK
<1>2. v \in Workers /\ v.child = w.child /\ v.pc = IF stopped THEN "exited" ELSE w.pc BY <1>1
<1>3. Terminate(w, K) = u BY DEF Terminate
<1>4. u.pc = v.pc /\ u.child = b BY <1>2 DEF Workers
<1>5. TreeKill BY DEF Sheltered
<1> HIDE DEF u
<1> QED BY <1>2, <1>3, <1>4, <1>5

\* A worker that stays at work, or whose process ends without a child, is tame.
LEMMA TameMoves ==
  ASSUME NEW w \in Workers, NEW v,
         v.child => v.pc \in {"attach", "wait"},
         w.pc # "none", w.pc = "exited" => v.pc = "exited",
         \/ w.pc \in ClaimedPCs /\ (w.pc = "close" => v.pc \in Past)
         \/ v.pc \in {"claim", "exited"} /\ ~v.child
  PROVE  Tame(w, v)
  BY DEF Tame, Quiet, Past, ClaimedPCs, WorkerPCs

\* A step of a worker process: its record, its row, the lock.
LEMMA WorkerFrameX ==
  ASSUME IInv, XInv, LifeStep, UNCHANGED <<thread, canceller, server>>,
         LockTame, RowPart, WorkerPart
  PROVE  XInv'
  BY XFrame, XUnchanged

\* The lock stays with the run that has it.
LEMMA LockStays ==
  ASSUME IInv, NEW r \in Runs, lock.run = r
  PROVE  /\ lock' = ClaimedLock => LockTame
         /\ lock' = [lock EXCEPT !.bound = TRUE] => LockTame
         /\ ClaimedLock.run = r
<1>1. lock \in Locks /\ r # None BY Here, OwnersAssumption
<1> QED BY <1>1 DEF LockTame, ClaimedLock, Locks

\* A lock whose run nobody works on may be released.
LEMMA ReleaseTame ==
  ASSUME IInv, NEW r \in Runs, NEW n, ReleaseLock(r, n),
         \A m \in Leases : worker'[r][m].pc \notin AtWork
  PROVE  LockTame
  BY OwnersAssumption DEF ReleaseLock, HoldsLock, LockTame

\* A run whose row, threads and processes a step leaves alone, with its lock.
LEMMA OtherRun ==
  ASSUME IInv, RunsOK, NEW s \in Runs, run'[s] = run[s], thread'[s] = thread[s],
         \A n \in Leases : worker'[s][n] = worker[s][n],
         canceller'[s] = canceller[s], server' = server \/ server'.cur # s,
         lock'.run = lock.run \/ lock.run # s
  PROVE  ProcessesOK(s)' /\ LaunchOK(s)' /\ CancellingOK(s)' /\ ReconcilingOK(s)'
<1>1. ProcessesOK(s) /\ LaunchOK(s) /\ CancellingOK(s) /\ ReconcilingOK(s) BY DEF RunsOK
<1>2. CalmAt(s) /\ TameAt(s)
  <2>1. Calm(run[s], run[s]) BY Here, CalmOps
  <2> QED BY <2>1 DEF CalmAt, TameAt
<1>3. ProcessesOK(s)' BY <1>1 DEF ProcessesOK, IsTerminal
<1> QED BY <1>2, <1>3, LaunchKept, CancellingKept, ReconcilingKept

\* Winning claim_worker: the run was unclaimed, so nobody is cancelling or ending it.
LEMMA ClaimX ==
  ASSUME Sheltered, IInv, XInv, LifeStep, NEW r \in Runs, NEW n \in Leases, WorkerClaim(r, n),
         MayClaim(run[r], worker[r][n].snap, n)
  PROVE  XInv'
<1> DEFINE v == [worker[r][n] EXCEPT !.pc = "lock", !.snap = NoRow]
<1>1. /\ Save(r, ToRunning(run[r])) /\ SetWorker(r, n, v) /\ worker[r][n].pc = "claim"
      /\ UNCHANGED <<lock, thread, canceller, server>>
  BY DEF WorkerClaim
<1>2. run[r] \in Rows /\ worker[r][n] \in Workers /\ server \in Servers BY Here
<1>3. Unclaimed(run[r]) /\ run[r].status # "none" /\ ~IsTerminal(run[r])
  BY DEF MayClaim, Unclaimed, IsTerminal, Terminal
<1>4. v.pc = "lock" /\ v.child = worker[r][n].child BY <1>2 DEF Workers
<1>5. ~worker[r][n].child BY <1>1 DEF XInv, RunsOK, ProcessesOK
<1> HIDE DEF v
<1>6. /\ run'[r] = ToRunning(run[r]) /\ \A s \in Runs : s # r => run'[s] = run[s]
      /\ worker'[r][n] = v
      /\ \A s \in Runs, m \in Leases : s # r \/ m # n => worker'[s][m] = worker[s][m]
  BY <1>1 DEF Save, SetWorker, IInv, TypeOK
<1>7. /\ run'[r].ver = run[r].ver + 1 /\ run'[r].lease = run[r].lease
      /\ run'[r].status = "running" /\ ~IsTerminal(run'[r])
  BY <1>2, <1>6 DEF ToRunning, Bump, Rows, IsTerminal, Terminal
<1>8. HostOK' BY <1>1 DEF XInv, HostOK
<1>9. AcquireOK'
  <2>1. LockTame /\ ThreadsTame /\ Births BY <1>1, <1>3, <1>6 DEF LockTame, ThreadsTame, Births
  <2> QED BY <2>1, AcquireKept DEF XInv
<1>10. ASSUME NEW s \in Runs, s # r
       PROVE  ProcessesOK(s)' /\ LaunchOK(s)' /\ CancellingOK(s)' /\ ReconcilingOK(s)'
  BY <1>1, <1>6, <1>10, OtherRun DEF XInv
<1>11. ProcessesOK(r) /\ LaunchOK(r) /\ CancellingOK(r) /\ ReconcilingOK(r) BY DEF XInv, RunsOK
<1>12. ProcessesOK(r)'
  <2> SUFFICES ASSUME NEW m \in Leases
               PROVE  /\ worker'[r][m].child => worker'[r][m].pc \in {"attach", "wait"}
                      /\ m > run'[r].lease => worker'[r][m].pc = "none"
                      /\ worker'[r][m].pc \in AtWork => lock'.run = r
                      /\ IsTerminal(run'[r]) => worker'[r][m].pc \in Past
    BY DEF ProcessesOK, IsTerminal
  <2>1. CASE m # n BY <1>1, <1>6, <1>7, <1>11, <2>1 DEF ProcessesOK
  <2>2. CASE m = n
    <3>1. run[r].lease = n /\ ~(n > n) BY DEF MayClaim, Leases, MaxLaunchAttempts
    <3> QED BY <1>4, <1>5, <1>6, <1>7, <2>2, <3>1 DEF AtWork
  <2> QED BY <2>1, <2>2
<1>13. LaunchOK(r)'
  BY <1>1, <1>3, <1>6, <1>7, <1>11 DEF LaunchOK, IsTerminal, Leases, MaxLaunchAttempts
<1>14. CancellingOK(r)' BY <1>1, <1>3, <1>11 DEF CancellingOK
<1>15. ReconcilingOK(r)'
  <2> SUFFICES ASSUME server.cur = r
               PROVE  /\ server.pc \in {"respawn", "record"} => server.snap.lease = run'[r].lease
                      /\ server.pc = "respawn" => worker'[r][server.snap.lease].pc = "none"
                      /\ server.pc # "fail" \/ run'[r].ver # server.snap.ver
                      /\ server.pc # "release"
    BY <1>1 DEF ReconcilingOK
  <2>1. server.snap.lease \in Leases /\ server.snap.ver <= run[r].ver
        /\ run[r].ver \in Nat /\ server.snap.ver \in Nat
    BY <1>2, Here DEF RunOK, ServerOK, Agrees, Rows, Servers
  <2>2. server.pc = "respawn" => server.snap.lease # n BY <1>1, <1>11 DEF ReconcilingOK
  <2>3. run'[r].ver # server.snap.ver BY <1>7, <2>1
  <2> QED BY <1>3, <1>6, <1>7, <1>11, <2>1, <2>2, <2>3 DEF ReconcilingOK
<1> QED BY <1>8, <1>9, <1>10, <1>12, <1>13, <1>14, <1>15 DEF XInv, RunsOK

\* Publishing and releasing are calm.
LEMMA ReleaseCalm ==
  ASSUME NEW row \in Rows, NEW ok \in BOOLEAN, NEW r, NEW n
  PROVE  /\ Calm(row, Released(Published(row, ok), r, n))
         /\ Released(Published(row, ok), r, n).status = row.status
         /\ Published(row, ok).status = row.status
<1>1. Published(row, ok) \in Rows BY RowOpTypes
<1>2. Released(Published(row, ok), r, n) \in Rows BY <1>1, RowOpTypes DEF Released
<1>3. Calm(row, Published(row, ok)) BY CalmOps
<1>4. Calm(Published(row, ok), Released(Published(row, ok), r, n)) BY <1>1, CalmOps
<1>5. Calm(row, Released(Published(row, ok), r, n)) BY <1>1, <1>2, <1>3, <1>4, CalmTrans
<1> QED BY <1>1, <1>5, StatusAfter

\* The steps of a worker process keep the invariant.
LEMMA WorkerX ==
  ASSUME Sheltered, IInv, XInv, LifeStep, NEW r \in Runs, NEW n \in Leases,
         WorkerStep(r, n) \/ Heartbeat(r, n) \/ ChildExit(r, n) \/ WorkerCrash(r, n)
  PROVE  XInv'
<1> DEFINE w == worker[r][n]
<1>1. /\ run[r] \in Rows /\ w \in Workers /\ lock \in Locks
      /\ w.child => w.pc \in {"attach", "wait"}
  BY Here DEF XInv, RunsOK, ProcessesOK
<1>2. w.pc # "none" => run[r].status # "none" BY RunExists
<1>3. run' = run => RowPart BY XUnchanged
<1>4. lock' = lock => LockTame BY XUnchanged
<1>5. w.pc \in ClaimedPCs \/ w.child =>
        /\ run[r].lease = n
        /\ \A m \in Leases : m # n => worker[r][m].pc \in Past
  BY OneExecutes
<1>6. NoRow \in Rows BY NoRowType
<1>7. Exited(w).pc = "exited" /\ Exited(w).child = w.child BY <1>1, TerminateOK
<1> USE WorkerFrameX
<1>8. CASE WorkerRead(r, n)
  <2>1. CASE run[r].status = "cancelled"
    <3>1. Tame(w, Exited(w)) BY <1>1, <1>7, <1>8, TameMoves DEF WorkerRead
    <3>2. WorkerPart BY <1>7, <1>8, <2>1, <3>1, SetWorkerTame DEF WorkerRead, AtWork
    <3> QED BY <1>3, <1>4, <1>8, <3>2 DEF WorkerRead
  <2>2. CASE run[r].status # "cancelled"
    <3> DEFINE v == [w EXCEPT !.pc = "claim", !.snap = run[r]]
    <3>1. v.pc = "claim" /\ v.child = w.child BY <1>1 DEF Workers
    <3>2. SetWorker(r, n, v) BY <1>8, <2>2 DEF WorkerRead
    <3> HIDE DEF v
    <3>3. Tame(w, v) BY <1>1, <1>8, <3>1, TameMoves DEF WorkerRead
    <3>4. WorkerPart BY <3>1, <3>2, <3>3, SetWorkerTame DEF AtWork
    <3> QED BY <1>3, <1>4, <1>8, <3>4 DEF WorkerRead
  <2> QED BY <2>1, <2>2
<1>9. CASE WorkerClaim(r, n)
  <2>1. CASE MayClaim(run[r], w.snap, n) BY <1>9, <2>1, ClaimX
  <2>2. CASE ~MayClaim(run[r], w.snap, n)
    <3>1. Tame(w, Exited(w)) BY <1>1, <1>7, <1>9, TameMoves DEF WorkerClaim
    <3>2. WorkerPart BY <1>7, <1>9, <2>2, <3>1, SetWorkerTame DEF WorkerClaim, AtWork
    <3> QED BY <1>3, <1>4, <1>9, <2>2, <3>2 DEF WorkerClaim
  <2> QED BY <2>1, <2>2
<1>10. CASE WorkerLock(r, n)
  <2>1. CASE HoldsLock(r, n)
    <3> DEFINE v == [w EXCEPT !.pc = "spawn"]
               row == Progress(ClaimedRow(run[r]), n, "worker")
    <3>1. v.pc = "spawn" /\ v.child = w.child BY <1>1 DEF Workers
    <3>2. SetWorker(r, n, v) /\ Save(r, row) /\ lock' = ClaimedLock BY <1>10, <2>1 DEF WorkerLock
    <3>3. LockTame /\ lock'.run = r BY <2>1, <3>2, LockStays DEF HoldsLock
    <3>4. ClaimedRow(run[r]) \in Rows BY <1>1, <1>2, <1>10, LockOps DEF WorkerLock, Evolves
    <3>5. Calm(run[r], row) /\ row.status = run[r].status
      <4>1. row \in Rows BY <3>4, RowOpTypes, Literals DEF Progress
      <4>2. Calm(run[r], ClaimedRow(run[r])) /\ Calm(ClaimedRow(run[r]), row)
        BY <1>1, <3>4, CalmOps, Literals
      <4> QED BY <1>1, <3>4, <4>1, <4>2, CalmTrans, StatusAfter
    <3> HIDE DEF v, row
    <3>6. Tame(w, v) BY <1>1, <1>10, <3>1, TameMoves DEF WorkerLock, ClaimedPCs, WorkerPCs
    <3>7. WorkerPart BY <3>1, <3>2, <3>3, <3>6, SetWorkerTame DEF AtWork
    <3>8. RowPart BY <1>2, <1>10, <3>2, <3>5, SaveCalm DEF WorkerLock, IsTerminal
    <3> QED BY <1>10, <3>3, <3>7, <3>8 DEF WorkerLock
  <2>2. CASE ~HoldsLock(r, n)
    <3> DEFINE v == [w EXCEPT !.pc = "lost", !.snap = run[r]]
    <3>1. v.pc = "lost" /\ v.child = w.child BY <1>1 DEF Workers
    <3>2. SetWorker(r, n, v) BY <1>10, <2>2 DEF WorkerLock
    <3> HIDE DEF v
    <3>3. Tame(w, v) BY <1>1, <1>10, <3>1, TameMoves DEF WorkerLock, ClaimedPCs, WorkerPCs
    <3>4. WorkerPart BY <3>1, <3>2, <3>3, SetWorkerTame DEF AtWork
    <3> QED BY <1>3, <1>4, <1>10, <2>2, <3>4 DEF WorkerLock
  <2> QED BY <2>1, <2>2
<1>11. CASE WorkerLost(r, n)
  <2>1. Tame(w, Exited(w)) BY <1>1, <1>7, <1>11, TameMoves DEF WorkerLost
  <2>2. WorkerPart BY <1>7, <1>11, <2>1, SetWorkerTame DEF WorkerLost, AtWork
  <2>3. RowPart
    <3>1. CASE Save(r, ToRecoveryPending(run[r]))
      <4>1. ~IsTerminal(ToRecoveryPending(run[r])) BY <1>1, StatusAfter DEF IsTerminal, Terminal
      <4>2. Calm(run[r], ToRecoveryPending(run[r])) BY <1>1, CalmOps
      <4> QED BY <1>2, <1>11, <3>1, <4>1, <4>2, SaveCalm DEF WorkerLost
    <3> QED BY <1>3, <1>11, <3>1 DEF WorkerLost
  <2> QED BY <1>4, <1>11, <2>2, <2>3 DEF WorkerLost
<1>12. CASE StartChild(r, n)
  <2>1. CASE /\ Save(r, Progress(run[r], n, "executable"))
             /\ SetWorker(r, n, [worker[r][n] EXCEPT !.pc = "attach", !.child = TRUE])
    <3> DEFINE v == [w EXCEPT !.pc = "attach", !.child = TRUE]
    <3>1. v.pc = "attach" BY <1>1 DEF Workers
    <3>2. SetWorker(r, n, v) BY <2>1
    <3> HIDE DEF v
    <3>3. Tame(w, v) BY <1>1, <1>12, <3>1, TameMoves DEF StartChild, ClaimedPCs, WorkerPCs
    <3>4. WorkerPart BY <1>12, <3>1, <3>2, <3>3, SetWorkerTame DEF AtWork, StartChild
    <3>5. /\ Calm(run[r], Progress(run[r], n, "executable"))
          /\ Progress(run[r], n, "executable").status = run[r].status
      BY <1>1, CalmOps, Literals, StatusAfter
    <3>6. RowPart BY <1>2, <1>12, <2>1, <3>5, SaveCalm DEF StartChild, IsTerminal
    <3> QED BY <1>4, <1>12, <3>4, <3>6 DEF StartChild
  <2>2. CASE /\ SetWorker(r, n, [worker[r][n] EXCEPT !.pc = "finish", !.out = "failed"])
             /\ UNCHANGED run
    <3> DEFINE v == [w EXCEPT !.pc = "finish", !.out = "failed"]
    <3>1. v.pc = "finish" /\ v.child = w.child BY <1>1 DEF Workers
    <3>2. SetWorker(r, n, v) BY <2>2
    <3> HIDE DEF v
    <3>3. Tame(w, v) BY <1>1, <1>12, <3>1, TameMoves DEF StartChild, ClaimedPCs, WorkerPCs
    <3>4. WorkerPart BY <1>12, <3>1, <3>2, <3>3, SetWorkerTame DEF AtWork, StartChild
    <3> QED BY <1>3, <1>4, <1>12, <2>2, <3>4 DEF StartChild
  <2> QED BY <1>12, <2>1, <2>2 DEF StartChild
<1>13. CASE AttachChild(r, n)
  <2>1. CASE run[r].status = "running" /\ run[r].lease = n
    <3> DEFINE v == [w EXCEPT !.pc = "wait"]
               row == Progress(WithChild(run[r]), n, "executable")
    <3>1. v.pc = "wait" BY <1>1 DEF Workers
    <3>2. SetWorker(r, n, v) /\ Save(r, row) BY <1>13, <2>1 DEF AttachChild, Sheltered
    <3>3. WithChild(run[r]) \in Rows BY <1>1, RowOpTypes
    <3>4. Calm(run[r], row) /\ row.status = run[r].status
      <4>1. row \in Rows BY <3>3, RowOpTypes, Literals DEF Progress
      <4>2. Calm(run[r], WithChild(run[r])) /\ Calm(WithChild(run[r]), row)
        BY <1>1, <3>3, CalmOps, Literals
      <4> QED BY <1>1, <3>3, <4>1, <4>2, CalmTrans, StatusAfter
    <3> HIDE DEF v, row
    <3>5. Tame(w, v) BY <1>1, <1>13, <3>1, TameMoves DEF AttachChild, ClaimedPCs, WorkerPCs
    <3>6. WorkerPart BY <1>13, <3>1, <3>2, <3>5, SetWorkerTame DEF AtWork, AttachChild
    <3>7. RowPart BY <1>2, <1>13, <3>2, <3>4, SaveCalm DEF AttachChild, IsTerminal
    <3> QED BY <1>4, <1>13, <3>6, <3>7 DEF AttachChild
  <2>2. CASE ~(run[r].status = "running" /\ run[r].lease = n)
    <3> DEFINE t == Terminate(w, {"child"})
               v == [t EXCEPT !.pc = "finish", !.out = "failed"]
    <3>1. t \in Workers /\ ~t.child BY <1>1, TerminateOK, Terminated
    <3>2. v.pc = "finish" /\ v.child = t.child
      <4> HIDE DEF t
      <4> QED BY <3>1 DEF Workers
    <3>3. SetWorker(r, n, v) BY <1>13, <2>2, Confirmed DEF AttachChild
    <3> HIDE DEF v, t
    <3>4. Tame(w, v) BY <1>1, <1>13, <3>1, <3>2, TameMoves DEF AttachChild, ClaimedPCs, WorkerPCs
    <3>5. WorkerPart BY <1>13, <3>2, <3>3, <3>4, SetWorkerTame DEF AtWork, AttachChild
    <3> QED BY <1>3, <1>4, <1>13, <2>2, <3>5 DEF AttachChild
  <2> QED BY <2>1, <2>2
<1>14. CASE WaitChild(r, n)
  <2> PICK out \in {"completed", "failed"} :
             SetWorker(r, n, [worker[r][n] EXCEPT !.pc = "finish", !.out = out])
    BY <1>14 DEF WaitChild
  <2> DEFINE v == [w EXCEPT !.pc = "finish", !.out = out]
  <2>1. v.pc = "finish" /\ v.child = w.child BY <1>1 DEF Workers
  <2>2. SetWorker(r, n, v) OBVIOUS
  <2> HIDE DEF v
  <2>3. Tame(w, v) BY <1>1, <1>14, <2>1, TameMoves DEF WaitChild, ClaimedPCs, WorkerPCs
  <2>4. WorkerPart BY <1>14, <2>1, <2>2, <2>3, SetWorkerTame DEF AtWork, WaitChild
  <2> QED BY <1>3, <1>4, <1>14, <2>4 DEF WaitChild
<1>15. CASE TimeoutChild(r, n)
  <2>0. PICK K \in KillOutcomes({"child"}) :
           SetWorker(r, n, [Terminate(w, K) EXCEPT
               !.pc = "finish",
               !.out = IF "child" \in K THEN "timed_out" ELSE "cancellation_pending"])
    BY <1>15 DEF TimeoutChild
  <2> DEFINE t == Terminate(w, K)
             x == IF "child" \in K THEN "timed_out" ELSE "cancellation_pending"
             v == [t EXCEPT !.pc = "finish", !.out = x]
  <2>1. t \in Workers /\ ~t.child BY <1>1, TerminateOK, Terminated, Confirmed
  <2>2. v.pc = "finish" /\ v.child = t.child
    <3> HIDE DEF t, x
    <3> QED BY <2>1 DEF Workers
  <2>3. SetWorker(r, n, v) BY <2>0
  <2> HIDE DEF v, t
  <2>4. Tame(w, v) BY <1>1, <1>15, <2>1, <2>2, TameMoves DEF TimeoutChild, ClaimedPCs, WorkerPCs
  <2>5. WorkerPart BY <1>15, <2>2, <2>3, <2>4, SetWorkerTame DEF AtWork, TimeoutChild
  <2>6. /\ Calm(run[r], Progress(run[r], n, "executable"))
        /\ Progress(run[r], n, "executable").status = run[r].status
    BY <1>1, CalmOps, Literals, StatusAfter
  <2>7. RowPart BY <1>2, <1>15, <2>6, SaveCalm DEF TimeoutChild, IsTerminal
  <2> QED BY <1>4, <1>15, <2>5, <2>7 DEF TimeoutChild
<1>16. CASE WorkerFinish(r, n)
  <2> DEFINE v == [w EXCEPT !.pc = "commit", !.snap = run[r]]
  <2>1. v.pc = "commit" /\ v.child = w.child BY <1>1 DEF Workers
  <2>2. SetWorker(r, n, v) BY <1>16 DEF WorkerFinish
  <2> HIDE DEF v
  <2>3. Tame(w, v) BY <1>1, <1>16, <2>1, TameMoves DEF WorkerFinish, ClaimedPCs, WorkerPCs
  <2>4. WorkerPart BY <1>16, <2>1, <2>2, <2>3, SetWorkerTame DEF AtWork, WorkerFinish
  <2> QED BY <1>3, <1>4, <1>16, <2>4 DEF WorkerFinish
<1>17. CASE WorkerCommit(r, n)
  <2> DEFINE v == [w EXCEPT !.pc = "close", !.snap = NoRow]
  <2>1. v.pc = "close" /\ v.child = w.child BY <1>1 DEF Workers
  <2>2. SetWorker(r, n, v) BY <1>17 DEF WorkerCommit
  <2> HIDE DEF v
  <2>3. Tame(w, v) BY <1>1, <1>17, <2>1, TameMoves DEF WorkerCommit, ClaimedPCs, WorkerPCs
  <2>4. WorkerPart BY <1>17, <2>1, <2>2, <2>3, SetWorkerTame DEF AtWork, WorkerCommit
  <2>5. \A m \in Leases : worker'[r][m].pc \in Past
    <3>1. /\ worker'[r][n] = v /\ \A m \in Leases : m # n => worker'[r][m] = worker[r][m]
      BY <2>2 DEF SetWorker, IInv, TypeOK
    <3> QED BY <1>5, <1>17, <2>1, <3>1 DEF WorkerCommit, ClaimedPCs, WorkerPCs, Past
  <2>6. RowPart
    <3>1. ASSUME NEW st \in Terminal, Save(r, ToTerminal(run[r], st)) PROVE RowPart
      <4>1. Calm(run[r], ToTerminal(run[r], st)) BY <1>1, CalmOps
      <4> QED BY <1>2, <1>17, <2>5, <3>1, <4>1, SaveCalm DEF WorkerCommit
    <3>2. ASSUME Save(r, ToCancelling(run[r])) PROVE RowPart
      <4>1. Calm(run[r], ToCancelling(run[r])) BY <1>1, CalmOps
      <4> QED BY <1>2, <1>17, <2>5, <3>2, <4>1, SaveCalm DEF WorkerCommit
    <3> QED BY <1>3, <1>17, <3>1, <3>2 DEF WorkerCommit
  <2> QED BY <1>4, <1>17, <2>4, <2>6 DEF WorkerCommit
<1>18. CASE WorkerClose(r, n)
  <2>1. Tame(w, Exited(w)) BY <1>1, <1>7, <1>18, TameMoves DEF WorkerClose
  <2>2. WorkerPart BY <1>7, <1>18, <2>1, SetWorkerTame DEF WorkerClose, AtWork
  <2>3. \A m \in Leases : worker'[r][m].pc \in Past
    <3>1. /\ worker'[r][n] = Exited(w) /\ \A m \in Leases : m # n => worker'[r][m] = worker[r][m]
      BY <1>18 DEF WorkerClose, SetWorker, IInv, TypeOK
    <3> QED BY <1>5, <1>7, <1>18, <3>1 DEF WorkerClose, ClaimedPCs, WorkerPCs, Past
  <2>4. PICK ok \in PublishOutcomes(r) :
           IF run[r].status # "cancellation_pending"
           THEN /\ Save(r, Released(Published(run[r], ok), r, n))
                /\ ReleaseLock(r, n)
           ELSE UNCHANGED <<run, lock>>
    BY <1>18 DEF WorkerClose
  <2>5. ok \in BOOLEAN BY Outcomes
  <2>6. CASE run[r].status # "cancellation_pending"
    <3>1. LockTame
      <4>1. \A m \in Leases : worker'[r][m].pc \notin AtWork BY <2>3 DEF Past, AtWork
      <4> QED BY <2>4, <2>6, <4>1, ReleaseTame
    <3>2. RowPart
      BY <1>1, <1>2, <1>18, <2>3, <2>4, <2>5, <2>6, ReleaseCalm, SaveCalm DEF WorkerClose
    <3> QED BY <1>18, <2>2, <3>1, <3>2 DEF WorkerClose
  <2>7. CASE run[r].status = "cancellation_pending"
    BY <1>3, <1>4, <1>18, <2>2, <2>4, <2>7 DEF WorkerClose
  <2> QED BY <2>6, <2>7
<1>19. CASE Heartbeat(r, n)
  <2>1. Calm(run[r], Beat(run[r])) /\ Beat(run[r]).status = run[r].status
    BY <1>1, CalmOps, StatusAfter
  <2>2. run[r].status # "none" BY <1>19 DEF Heartbeat
  <2>3. RowPart BY <1>19, <2>1, <2>2, SaveCalm DEF Heartbeat, IsTerminal
  <2>4. WorkerPart BY <1>19, XUnchanged DEF Heartbeat
  <2> QED BY <1>4, <1>19, <2>3, <2>4 DEF Heartbeat
<1>20. CASE ChildExit(r, n)
  <2> DEFINE v == [w EXCEPT !.child = FALSE]
  <2>1. v.pc = w.pc /\ ~v.child BY <1>1 DEF Workers
  <2>2. SetWorker(r, n, v) BY <1>20 DEF ChildExit
  <2> HIDE DEF v
  <2>3. Tame(w, v) BY <2>1 DEF Tame, Quiet
  <2>4. WorkerPart BY <2>1, <2>2, <2>3, SetWorkerTame
  <2> QED BY <1>3, <1>4, <1>20, <2>4 DEF ChildExit
<1>21. CASE WorkerCrash(r, n) BY <1>21 DEF WorkerCrash, Sheltered
<1> QED BY <1>8, <1>9, <1>10, <1>11, <1>12, <1>13, <1>14, <1>15, <1>16, <1>17, <1>18, <1>19, <1>20,
     <1>21 DEF WorkerStep

----
(* The launching threads. *)

\* A launching thread goes on, or ends.
LEMMA ThreadMoves ==
  ASSUME IInv, NEW o \in Owners, NEW t, thread' = [thread EXCEPT ![o] = t],
         thread[o].pc # "dead", t.pc \notin {"insert", "work"},
         t.pc \in ActivePCs => thread[o].pc \in ActivePCs /\ t.host = thread[o].host,
         o \in Runs => LaunchOK(o)'
  PROVE  ThreadPart /\ thread'[o] = t
<1>1. thread'[o] = t /\ \A p \in Owners : p # o => thread'[p] = thread[p] BY DEF IInv, TypeOK
<1>2. Runs \subseteq Owners BY DEF Owners
<1> QED BY <1>1, <1>2 DEF ThreadPart, ThreadsTame, HostedThreads

\* The three ways a step writes a thread.
LEMMA ThreadWrites ==
  ASSUME IInv, NEW o \in Owners
  PROVE  /\ \A pc : Goto(o, pc) =>
              \E t : thread' = [thread EXCEPT ![o] = t] /\ t.pc = pc /\ t.host = thread[o].host
         /\ \A pc, row : GotoWith(o, pc, row) =>
              \E t : thread' = [thread EXCEPT ![o] = t] /\ t.pc = pc /\ t.host = thread[o].host
         /\ \A pc : End(o, pc) =>
              \E t : thread' = [thread EXCEPT ![o] = t] /\ t.pc = pc
<1>1. thread \in [Owners -> Threads] BY DEF IInv, TypeOK
<1>2. ASSUME NEW pc, Goto(o, pc)
      PROVE  \E t : thread' = [thread EXCEPT ![o] = t] /\ t.pc = pc /\ t.host = thread[o].host
  <2> DEFINE t == [thread[o] EXCEPT !.pc = pc]
  <2>1. t.pc = pc /\ t.host = thread[o].host BY <1>1 DEF Threads
  <2>2. thread' = [thread EXCEPT ![o] = t] BY <1>1, <1>2 DEF Goto
  <2> QED BY <2>1, <2>2
<1>3. ASSUME NEW pc, NEW row, GotoWith(o, pc, row)
      PROVE  \E t : thread' = [thread EXCEPT ![o] = t] /\ t.pc = pc /\ t.host = thread[o].host
  <2> DEFINE t == [thread[o] EXCEPT !.pc = pc, !.snap = row]
  <2>1. t.pc = pc /\ t.host = thread[o].host BY <1>1 DEF Threads
  <2>2. thread' = [thread EXCEPT ![o] = t] BY <1>1, <1>3 DEF GotoWith
  <2> QED BY <2>1, <2>2
<1>4. ASSUME NEW pc, End(o, pc)
      PROVE  \E t : thread' = [thread EXCEPT ![o] = t] /\ t.pc = pc
  <2> DEFINE t == [IdleThread EXCEPT !.pc = pc]
  <2>1. t.pc = pc BY DEF IdleThread
  <2>2. thread' = [thread EXCEPT ![o] = t] BY <1>4 DEF End
  <2> QED BY <2>1, <2>2
<1> QED BY <1>2, <1>3, <1>4

\* A thread that ends has no launch left to say anything of.
LEMMA EndPart ==
  ASSUME IInv, NEW o \in Owners, NEW pc \in {"refused", "failed", "done", "accepted"}, End(o, pc),
         thread[o].pc # "dead"
  PROVE  ThreadPart
<1>1. PICK t : thread' = [thread EXCEPT ![o] = t] /\ t.pc = pc BY ThreadWrites
<1>2. thread'[o] = t BY <1>1 DEF IInv, TypeOK
<1>3. o \in Runs => LaunchOK(o)' BY <1>1, <1>2 DEF LaunchOK
<1> QED BY <1>1, <1>3, ThreadMoves DEF ActivePCs

\* A thread that goes on with its launch.
LEMMA GoPart ==
  ASSUME IInv, NEW r \in Runs, NEW pc \in {"bind", "spawn", "record", "event", "fail", "undo"},
         NEW row, Goto(r, pc) \/ GotoWith(r, pc, row), thread[r].pc \in ActivePCs,
         run'[r].lease = 1,
         pc \in {"bind", "spawn"} => worker'[r][1].pc = "none",
         pc \in {"fail", "undo"} => worker'[r][1].pc \in {"none", "exited"},
         pc = "undo" => IsTerminal(run'[r])
  PROVE  ThreadPart
<1>1. r \in Owners BY DEF Owners
<1>2. PICK t : thread' = [thread EXCEPT ![r] = t] /\ t.pc = pc /\ t.host = thread[r].host
  BY <1>1, ThreadWrites
<1>3. thread'[r] = t BY <1>1, <1>2 DEF IInv, TypeOK
<1>4. LaunchOK(r)' BY <1>2, <1>3 DEF LaunchOK, IsTerminal
<1> QED BY <1>1, <1>2, <1>4, ThreadMoves DEF ActivePCs

\* The worker of lease n is started.
LEMMA BootX ==
  ASSUME Sheltered, IInv, XInv, LifeStep, NEW r \in Runs, NEW n \in Leases,
         worker' = [worker EXCEPT ![r][n].pc = "boot"], worker[r][n].pc = "none",
         n = run[r].lease, UNCHANGED <<run, lock, canceller>>,
         thread' = thread \/ ThreadPart, server' = server \/ ServerPart,
         LaunchOK(r)', ReconcilingOK(r)'
  PROVE  XInv'
<1>1. ~worker[r][n].child BY DEF XInv, RunsOK, ProcessesOK
<1>2. worker'[r][n].pc = "boot" /\ worker'[r][n].child = worker[r][n].child
      /\ \A s \in Runs, m \in Leases : s # r \/ m # n => worker'[s][m] = worker[s][m]
  BY DEF IInv, TypeOK, Workers
<1>3. ThreadPart /\ ServerPart /\ LockTame /\ RowPart /\ CancelPart BY XUnchanged
<1>4. HostOK' BY <1>3, HostKept DEF XInv, ThreadPart, ServerPart, CancelPart
<1>5. AcquireOK' BY <1>3, AcquireKept DEF XInv, ThreadPart, RowPart
<1>6. ASSUME NEW s \in Runs
      PROVE  ProcessesOK(s)' /\ LaunchOK(s)' /\ CancellingOK(s)' /\ ReconcilingOK(s)'
  <2>1. ProcessesOK(s) /\ LaunchOK(s) /\ CancellingOK(s) /\ ReconcilingOK(s) BY DEF XInv, RunsOK
  <2>2. CASE s # r
    <3>1. CalmAt(s) /\ TameAt(s) /\ EndsClean(s) BY <1>2, <1>3, <2>2 DEF RowPart, TameAt
    <3>2. ProcessesOK(s)' BY <1>3, <3>1, ProcessesKept DEF XInv
    <3>3. LaunchOK(s)' BY <1>3, <3>1, LaunchKept DEF XInv, ThreadPart
    <3>4. CancellingOK(s)' BY <3>1, CancellingKept DEF XInv
    <3>5. ReconcilingOK(s)' BY <1>3, <3>1, ReconcilingKept DEF XInv, ServerPart
    <3> QED BY <3>2, <3>3, <3>4, <3>5
  <2>3. CASE s = r
    <3>1. ProcessesOK(r)'
      <4> SUFFICES ASSUME NEW m \in Leases
                   PROVE  /\ worker'[r][m].child => worker'[r][m].pc \in {"attach", "wait"}
                          /\ m > run[r].lease => worker'[r][m].pc = "none"
                          /\ worker'[r][m].pc \in AtWork => lock.run = r
                          /\ IsTerminal(run[r]) => worker'[r][m].pc \in Past
        BY DEF ProcessesOK, IsTerminal
      <4>1. CASE m # n BY <1>2, <2>1, <2>3, <4>1 DEF ProcessesOK
      <4>2. CASE m = n
        <5>1. ~(n > n) BY DEF Leases, MaxLaunchAttempts
        <5> QED BY <1>1, <1>2, <4>2, <5>1 DEF AtWork, Past
      <4> QED BY <4>1, <4>2
    <3>2. CancellingOK(r)'
      <4>1. \A m \in Leases : Quiet(worker[r][m]) => Quiet(worker'[r][m])
        BY <1>1, <1>2 DEF Quiet, ClaimedPCs
      <4> QED BY <2>1, <2>3, <4>1 DEF CancellingOK, IsTerminal, Unclaimed, Quiet
    <3> QED BY <2>3, <3>1, <3>2
  <2> QED BY <2>2, <2>3
<1> QED BY <1>4, <1>5, <1>6 DEF XInv, RunsOK

\* Creating the row: nobody knows the run yet.
LEMMA CreateX ==
  ASSUME Sheltered, IInv, XInv, LifeStep, NEW r \in Runs, CreateRun(r)
  PROVE  XInv'
<1>1. /\ Save(r, NewRow) /\ Goto(r, "bind") /\ thread[r].pc = "create"
      /\ UNCHANGED <<lock, worker, canceller, server>>
  BY DEF CreateRun, Sheltered
<1>2. run'[r] = NewRow /\ \A s \in Runs : s # r => run'[s] = run[s] BY <1>1 DEF Save, IInv, TypeOK
<1>3. NewRow.lease = 1 /\ ~IsTerminal(NewRow) BY DEF NewRow, NoRow, IsTerminal, Terminal
<1>4. run[r].status = "none" BY <1>1, Here DEF RunOK, ThreadOK
<1>5. \A n \in Leases : worker[r][n].pc = "none" /\ ~worker[r][n].child BY <1>4, RunExists
<1>6. canceller[r].pc = "idle" /\ server.cur # r BY <1>4, RunExists
<1>7. 1 \in Leases BY DEF Leases, MaxLaunchAttempts
<1>8. ThreadPart BY <1>1, <1>2, <1>3, <1>5, <1>7, GoPart DEF ActivePCs
<1>9. LockTame /\ Births /\ CancelPart /\ ServerPart BY <1>1, <1>2, XUnchanged DEF Births
<1>10. HostOK' BY <1>8, <1>9, HostKept DEF XInv, ThreadPart, CancelPart, ServerPart
<1>11. AcquireOK' BY <1>8, <1>9, AcquireKept DEF XInv, ThreadPart
<1>12. r \in Owners /\ thread'[r] # thread[r]
  <2>1. r \in Owners BY DEF Owners
  <2>2. PICK t : thread' = [thread EXCEPT ![r] = t] /\ t.pc = "bind" BY <1>1, <2>1, ThreadWrites
  <2> QED BY <1>1, <2>1, <2>2 DEF IInv, TypeOK
<1>13. ASSUME NEW s \in Runs
       PROVE  ProcessesOK(s)' /\ LaunchOK(s)' /\ CancellingOK(s)' /\ ReconcilingOK(s)'
  <2>1. CASE s # r
    <3>1. thread'[s] = thread[s] BY <1>1, <2>1 DEF Goto, IInv, TypeOK, Owners
    <3> QED BY <1>1, <1>2, <2>1, <3>1, OtherRun DEF XInv
  <2>2. CASE s = r
    <3>1. ProcessesOK(r)' BY <1>1, <1>2, <1>3, <1>5 DEF ProcessesOK, AtWork, IsTerminal
    <3>2. LaunchOK(r)' BY <1>8, <1>12 DEF ThreadPart
    <3>3. CancellingOK(r)' BY <1>1, <1>6 DEF CancellingOK
    <3>4. ReconcilingOK(r)' BY <1>1, <1>6 DEF ReconcilingOK
    <3> QED BY <2>2, <3>1, <3>2, <3>3, <3>4
  <2> QED BY <2>1, <2>2
<1> QED BY <1>10, <1>11, <1>13 DEF XInv, RunsOK

\* No worker of a run that has ended is at work.
LEMMA EndedQuiet ==
  ASSUME IInv, RunsOK, NEW r \in Runs, IsTerminal(run[r]), worker' = worker
  PROVE  \A m \in Leases : worker'[r][m].pc \in Past /\ worker'[r][m].pc \notin AtWork
  BY DEF RunsOK, ProcessesOK, Past, AtWork

\* The steps of _create_and_launch keep the invariant.
LEMMA LaunchX ==
  ASSUME Sheltered, IInv, XInv, LifeStep, NEW r \in Runs, LaunchStep(r)
  PROVE  XInv'
<1>1. /\ run[r] \in Rows /\ r \in Owners /\ thread[r] \in Threads /\ 1 \in Leases
      /\ worker[r][1] \in Workers
      /\ ProcessesOK(r) /\ LaunchOK(r)
  BY Here DEF XInv, RunsOK, Leases, MaxLaunchAttempts
<1>2. thread[r].pc \in CreatedPCs => run[r].status # "none" BY RunExists
<1>3. /\ run' = run => RowPart
      /\ lock' = lock => LockTame
      /\ worker' = worker => WorkerPart
      /\ canceller' = canceller => CancelPart
      /\ server' = server => ServerPart
  BY XUnchanged
<1>4. CASE CreateRun(r) BY <1>4, CreateX
<1>5. CASE BindRun(r)
  <2>1. run[r].lease = 1 /\ worker[r][1].pc = "none" /\ run[r].status # "none"
    BY <1>1, <1>2, <1>5 DEF BindRun, LaunchOK, CreatedPCs
  <2>2. CASE HoldsLock(r, 1)
    <3> DEFINE row == SetPhase(Bound(run[r]), "launch_pending")
    <3>1. Save(r, row) /\ GotoWith(r, "spawn", row) /\ lock' = [lock EXCEPT !.bound = TRUE]
      BY <1>5, <2>2 DEF BindRun, Sheltered
    <3>2. Bound(run[r]) \in Rows BY <1>1, RowOpTypes DEF Bound
    <3>3. row \in Rows /\ Calm(run[r], row) /\ row.status = run[r].status
      <4>1. row \in Rows BY <3>2, RowOpTypes, Literals
      <4>2. Calm(run[r], Bound(run[r])) /\ Calm(Bound(run[r]), row) BY <1>1, <3>2, CalmOps, Literals
      <4> QED BY <1>1, <3>2, <4>1, <4>2, CalmTrans, StatusAfter
    <3>4. run'[r] = row BY <3>1 DEF Save, IInv, TypeOK
    <3> HIDE DEF row
    <3>5. RowPart BY <2>1, <3>1, <3>3, SaveCalm DEF IsTerminal
    <3>6. LockTame BY <2>2, <3>1, LockStays DEF HoldsLock
    <3>7. ThreadPart BY <1>5, <2>1, <3>1, <3>3, <3>4, GoPart DEF BindRun, Calm, ActivePCs
    <3> QED BY <1>3, <1>5, <3>5, <3>6, <3>7, XFrame DEF BindRun
  <2>3. CASE ~HoldsLock(r, 1)
    <3>1. ThreadPart BY <1>5, <2>1, <2>3, GoPart DEF BindRun, ActivePCs
    <3> QED BY <1>3, <1>5, <2>3, <3>1, XFrame DEF BindRun
  <2> QED BY <2>2, <2>3
<1>6. CASE SpawnWorker(r)
  <2>1. run[r].lease = 1 /\ worker[r][1].pc = "none" BY <1>1, <1>6 DEF SpawnWorker, LaunchOK
  <2>2. CASE worker' = [worker EXCEPT ![r][1].pc = "boot"] /\ Goto(r, "record")
    <3>1. ThreadPart BY <1>6, <2>1, <2>2, GoPart DEF SpawnWorker, ActivePCs
    <3>2. LaunchOK(r)'
      <4>1. PICK t : thread' = [thread EXCEPT ![r] = t] /\ t.pc = "record"
        BY <1>1, <2>2, ThreadWrites
      <4>2. thread'[r].pc = "record" BY <1>1, <4>1 DEF IInv, TypeOK
      <4> QED BY <1>6, <2>1, <4>2 DEF LaunchOK, SpawnWorker
    <3>3. ReconcilingOK(r)'
      <4>1. server.pc = "ready" BY <1>1, <1>6 DEF XInv, HostOK, SpawnWorker, ActivePCs
      <4> QED BY <1>6, <4>1 DEF ReconcilingOK, SpawnWorker
    <3> QED BY <1>1, <1>6, <2>1, <2>2, <3>1, <3>2, <3>3, BootX DEF SpawnWorker
  <2>3. CASE GotoWith(r, "fail", run[r]) /\ UNCHANGED worker
    <3>1. ThreadPart BY <1>6, <2>1, <2>3, GoPart DEF SpawnWorker, ActivePCs
    <3> QED BY <1>3, <1>6, <2>3, <3>1, XFrame DEF SpawnWorker
  <2> QED BY <1>6, <2>2, <2>3 DEF SpawnWorker
<1>7. CASE RecordLaunch(r)
  <2>1. run[r].lease = 1 /\ run[r].status # "none" /\ thread[r].pc \in ActivePCs
    BY <1>1, <1>2, <1>7 DEF RecordLaunch, LaunchOK, CreatedPCs, ActivePCs
  <2>2. PICK row \in {run[r], FirstLaunched(run[r])} :
          /\ Save(r, row)
          /\ IF row.lease = 1 /\ row.status \in {"queued", "running"}
             THEN GotoWith(r, "event", NoRow) /\ UNCHANGED worker
             ELSE /\ \E K \in KillOutcomes({"worker"}) :
                       worker' = [worker EXCEPT ![r][1] = Terminate(@, K)]
                  /\ GotoWith(r, "fail", row)
    BY <1>7 DEF RecordLaunch
  <2>3. Calm(run[r], row) /\ (IsTerminal(row) => IsTerminal(run[r]))
    BY <1>1, CalmOps, StatusAfter DEF IsTerminal, Terminal
  <2>4. RowPart BY <2>1, <2>2, <2>3, SaveCalm
  <2>5. run'[r].lease = 1 BY <2>1, <2>2, <2>3 DEF Save, IInv, TypeOK, Calm
  <2>6. CASE GotoWith(r, "event", NoRow) /\ UNCHANGED worker
    <3>1. ThreadPart BY <2>1, <2>5, <2>6, GoPart
    <3> QED BY <1>3, <1>7, <2>4, <2>6, <3>1, XFrame DEF RecordLaunch
  <2>7. CASE /\ \E K \in KillOutcomes({"worker"}) :
                  worker' = [worker EXCEPT ![r][1] = Terminate(@, K)]
             /\ GotoWith(r, "fail", row)
    <3> DEFINE v == Terminate(worker[r][1], {"worker"})
    <3>0. PICK K \in KillOutcomes({"worker"}) :
             worker' = [worker EXCEPT ![r][1] = Terminate(@, K)]
      BY <2>7
    <3>1. SetWorker(r, 1, v)
      <4>1. K = {"worker"} BY <3>0, Confirmed
      <4> QED BY <3>0, <4>1 DEF SetWorker
    <3>2. /\ v.child => worker[r][1].child
          /\ v.pc \in {"none", "exited"} /\ (worker[r][1].pc = "none" => v.pc = "none")
          /\ worker[r][1].pc \notin {"none", "exited"} => ~v.child
      BY <1>1, Terminated
    <3> HIDE DEF v
    <3>3. worker[r][1].child => worker[r][1].pc \in {"attach", "wait"} BY <1>1 DEF ProcessesOK
    <3>4. Tame(worker[r][1], v) BY <3>2, <3>3 DEF Tame, Quiet, Past, ClaimedPCs
    <3>5. WorkerPart BY <1>1, <3>1, <3>2, <3>4, SetWorkerTame DEF AtWork
    <3>6. worker'[r][1] = v BY <1>1, <3>1 DEF SetWorker, IInv, TypeOK
    <3>7. ThreadPart BY <2>1, <2>5, <2>7, <3>2, <3>6, GoPart
    <3> QED BY <1>3, <1>7, <2>4, <3>5, <3>7, XFrame DEF RecordLaunch
  <2> QED BY <2>2, <2>6, <2>7
<1>8. CASE LaunchEvent(r)
  <2>1. Save(r, SetPhase(run[r], "worker")) /\ End(r, "accepted") BY <1>8 DEF LaunchEvent, Sheltered
  <2>2. /\ Calm(run[r], SetPhase(run[r], "worker"))
        /\ SetPhase(run[r], "worker").status = run[r].status
    BY <1>1, CalmOps, Literals, StatusAfter
  <2>3. RowPart BY <1>2, <1>8, <2>1, <2>2, SaveCalm DEF LaunchEvent, CreatedPCs, IsTerminal
  <2>4. ThreadPart BY <1>1, <1>8, <2>1, EndPart DEF LaunchEvent
  <2> QED BY <1>3, <1>8, <2>3, <2>4, XFrame DEF LaunchEvent
<1>9. CASE FailLaunch(r)
  <2>1. run[r].lease = 1 /\ run[r].status # "none" /\ worker[r][1].pc \in {"none", "exited"}
    BY <1>1, <1>2, <1>9 DEF FailLaunch, LaunchOK, CreatedPCs
  <2>2. CASE Save(r, ToTerminal(run[r], "failed")) /\ Goto(r, "undo")
    <3>1. \A m \in Leases : worker'[r][m].pc \in Past
      <4>1. \A m \in Leases : m = 1 \/ m > 1 BY DEF Leases, MaxLaunchAttempts
      <4> QED BY <1>1, <1>9, <2>1, <4>1 DEF FailLaunch, ProcessesOK, Past
    <3>2. /\ Calm(run[r], ToTerminal(run[r], "failed"))
          /\ IsTerminal(ToTerminal(run[r], "failed"))
      BY <1>1, CalmOps, StatusAfter DEF IsTerminal, Terminal
    <3>3. RowPart BY <2>1, <2>2, <3>1, <3>2, SaveCalm
    <3>4. run'[r] = ToTerminal(run[r], "failed") BY <2>2 DEF Save, IInv, TypeOK
    <3>5. ThreadPart BY <1>9, <2>1, <2>2, <3>2, <3>4, GoPart DEF FailLaunch, ActivePCs, Calm
    <3> QED BY <1>3, <1>9, <3>3, <3>5, XFrame DEF FailLaunch
  <2>3. CASE End(r, "failed") /\ UNCHANGED run
    <3>1. ThreadPart BY <1>1, <1>9, <2>3, EndPart DEF FailLaunch
    <3> QED BY <1>3, <1>9, <2>3, <3>1, XFrame DEF FailLaunch
  <2> QED BY <1>9, <2>2, <2>3 DEF FailLaunch
<1>10. CASE UndoLaunch(r)
  <2>1. IsTerminal(run[r]) /\ run[r].status # "none"
    BY <1>1, <1>2, <1>10 DEF UndoLaunch, LaunchOK, CreatedPCs
  <2>2. PICK ok \in PublishOutcomes(r) :
          Save(r, Released(Published(run[r], ok), r, thread[r].snap.lease))
    BY <1>10 DEF UndoLaunch
  <2>3. RowPart BY <1>1, <2>1, <2>2, Outcomes, ReleaseCalm, SaveCalm
  <2>4. LockTame
    <3>1. \A m \in Leases : worker'[r][m].pc \notin AtWork
      BY <1>10, <2>1, EndedQuiet DEF UndoLaunch, XInv
    <3> QED BY <1>10, <3>1, ReleaseTame DEF UndoLaunch
  <2>5. ThreadPart BY <1>1, <1>10, EndPart DEF UndoLaunch
  <2> QED BY <1>3, <1>10, <2>3, <2>4, <2>5, XFrame DEF UndoLaunch
<1> QED BY <1>4, <1>5, <1>6, <1>7, <1>8, <1>9, <1>10 DEF LaunchStep

----
(* Acquiring the lock. *)

\* acquire, first half: the reader has seen no row, or the row of an owner that
\* is gone.
LEMMA ReadX ==
  ASSUME Sheltered, IInv, XInv, LifeStep, NEW o \in Owners, NEW h \in Hosts, AcquireRead(o, h)
  PROVE  XInv'
<1>1. /\ h = "server" /\ server.pc = "ready" /\ thread[o].pc = "idle"
      /\ \A p \in Owners : thread[p].pc # "insert"
      /\ UNCHANGED <<run, lock, worker, canceller, server>>
  BY DEF AcquireRead, Sheltered, HostUp
<1>2. RowPart /\ LockTame /\ WorkerPart /\ CancelPart /\ ServerPart BY <1>1, XUnchanged
<1>3. CASE End(o, "refused")
  <2>1. ThreadPart BY <1>1, <1>3, EndPart
  <2> QED BY <1>2, <2>1, XFrame
<1>4. CASE ~End(o, "refused")
  <2> DEFINE t == [pc |-> "insert", host |-> h, seen |-> lock.run, snap |-> NoRow]
  <2>1. (lock = NoLock \/ IsStale) /\ thread' = [thread EXCEPT ![o] = t] BY <1>4 DEF AcquireRead
  <2>2. t.pc = "insert" /\ t.host = "server" /\ t.seen = lock.run BY <1>1
  <2> HIDE DEF t
  <2>3. thread'[o] = t /\ \A p \in Owners : p # o => thread'[p] = thread[p] BY <2>1 DEF IInv, TypeOK
  <2>4. HostOK' BY <1>1, <2>2, <2>3 DEF XInv, HostOK
  <2>5. AcquireOK'
    <3>1. lock.run = None \/ (lock.run \in Owners /\ Abandoned(lock.run)')
      <4>1. CASE lock = NoLock BY <4>1 DEF NoLock
      <4>2. CASE IsStale /\ lock.run \in Runs /\ Exists(lock.run)
        <5>1. lock.run \in Owners BY <4>2 DEF Owners
        <5>2. IsTerminal(run[lock.run]) BY <4>2 DEF IsStale
        <5> QED BY <1>1, <4>2, <5>1, <5>2 DEF Abandoned, Exists, IsTerminal
      <4>3. CASE IsStale /\ ~(lock.run \in Runs /\ Exists(lock.run))
        <5>1. lock.run \in Owners /\ thread[lock.run].pc = "dead" BY <4>3 DEF IsStale
        <5>2. thread'[lock.run].pc = "dead" BY <1>1, <2>3, <5>1
        <5> QED BY <1>1, <4>3, <5>1, <5>2 DEF Abandoned, Exists
      <4> QED BY <2>1, <4>1, <4>2, <4>3
    <3>2. \A p, q \in Owners : thread'[p].pc = "insert" /\ thread'[q].pc = "insert" => p = q
      BY <1>1, <2>3
    <3>3. \A p \in Owners : thread'[p].pc = "insert" =>
             \/ thread'[p].seen = None
             \/ lock' = NoLock
             \/ lock'.run \in Owners /\ lock'.run = thread'[p].seen /\ Abandoned(lock.run)'
      BY <1>1, <2>2, <2>3, <3>1
    <3>4. \A p \in SyncOps : thread'[p].pc = "work" => lock'.run = p
      BY <1>1, <2>2, <2>3 DEF XInv, AcquireOK, Owners
    <3> QED BY <3>2, <3>3, <3>4 DEF AcquireOK
  <2>6. RunsOK'
    <3>1. \A s \in Runs : thread'[s] = thread[s] \/ LaunchOK(s)' BY <2>2, <2>3 DEF LaunchOK, Owners
    <3> QED BY <1>2, <3>1, RunsFrame DEF XInv, CancelPart, ServerPart
  <2> QED BY <2>4, <2>5, <2>6 DEF XInv
<1> QED BY <1>3, <1>4

\* acquire, second half: the row that is deleted is that of an owner that is gone,
\* so nobody is at work when the new owner gets the repository.
LEMMA InsertX ==
  ASSUME Sheltered, IInv, XInv, LifeStep, NEW o \in Owners, AcquireInsert(o)
  PROVE  XInv'
<1>1. thread[o].pc = "insert" /\ UNCHANGED <<worker, canceller, server>> BY DEF AcquireInsert
<1>2. WorkerPart /\ CancelPart /\ ServerPart BY <1>1, XUnchanged
<1>3. CASE lock # NoLock /\ thread[o].seen = None
  <2>1. End(o, "refused") /\ UNCHANGED <<run, lock>> BY <1>3 DEF AcquireInsert
  <2>2. ThreadPart BY <1>1, <2>1, EndPart
  <2>3. RowPart /\ LockTame BY <2>1, XUnchanged
  <2> QED BY <1>2, <2>2, <2>3, XFrame
<1>4. CASE ~(lock # NoLock /\ thread[o].seen = None)
  <2> DEFINE old == thread[o].seen
             pc == IF o \in Runs THEN "create" ELSE "work"
             t == [thread[o] EXCEPT !.pc = pc, !.seen = None]
  <2>1. /\ lock'.run = o
        /\ run' = run \/ (old \in Runs /\ Exists(old) /\ run' = [run EXCEPT ![old] = Bump(@)])
        /\ thread' = [thread EXCEPT ![o] = t]
    <3>1. /\ lock' = [run |-> o, lease |-> 1, owner |-> "host", bound |-> FALSE]
          /\ run' = IF lock # NoLock /\ old \in Runs /\ Exists(old)
                    THEN [run EXCEPT ![old] = Bump(@)] ELSE run
          /\ thread' = [thread EXCEPT ![o].pc = IF o \in Runs THEN "create" ELSE "work",
                                      ![o].seen = None]
      BY <1>4 DEF AcquireInsert
    <3>2. thread \in [Owners -> Threads] BY DEF IInv, TypeOK
    <3>3. thread' = [thread EXCEPT ![o] = t] BY <3>1, <3>2
    <3> QED BY <3>1, <3>3
  <2>2. t.pc = pc /\ t.host = thread[o].host BY DEF IInv, TypeOK, Threads
  <2> HIDE DEF t
  <2>3. thread'[o] = t /\ \A p \in Owners : p # o => thread'[p] = thread[p] BY <2>1 DEF IInv, TypeOK
  <2>4. lock.run \in Owners => Abandoned(lock.run)
    <3>1. lock.run \in Owners => lock # NoLock BY OwnersAssumption DEF NoLock, Owners
    <3> QED BY <1>1, <1>4, <3>1 DEF XInv, AcquireOK
  <2>5. \A s \in Runs, m \in Leases : worker[s][m].pc \notin AtWork
    <3> SUFFICES ASSUME NEW s \in Runs, NEW m \in Leases, worker[s][m].pc \in AtWork
                 PROVE  FALSE
      OBVIOUS
    <3>1. lock.run = s /\ (IsTerminal(run[s]) => worker[s][m].pc \in Past)
      BY DEF XInv, RunsOK, ProcessesOK
    <3>2. Exists(s) BY RunExists DEF Exists, AtWork
    <3>3. IsTerminal(run[s]) BY <2>4, <3>1, <3>2 DEF Abandoned, Owners
    <3> QED BY <3>1, <3>3 DEF AtWork, Past
  <2>6. RowPart
    <3>1. CASE run' = run BY <3>1, XUnchanged
    <3>2. CASE old \in Runs /\ Exists(old) /\ run' = [run EXCEPT ![old] = Bump(@)]
      <4>1. run[old] \in Rows BY <3>2, Here
      <4>2. Save(old, Bump(run[old])) BY <3>2 DEF Save
      <4>3. Calm(run[old], Bump(run[old])) /\ Bump(run[old]).status = run[old].status
        BY <4>1, CalmOps, StatusAfter
      <4> QED BY <3>2, <4>2, <4>3, SaveCalm DEF Exists, IsTerminal
    <3> QED BY <2>1, <3>1, <3>2
  <2>7. HostOK'
    <3>1. HostedThreads BY <1>1, <2>2, <2>3 DEF HostedThreads, ActivePCs
    <3> QED BY <1>2, <3>1, HostKept DEF XInv, CancelPart, ServerPart
  <2>8. AcquireOK'
    <3>1. \A p \in Owners : thread'[p].pc # "insert" BY <1>1, <2>2, <2>3 DEF XInv, AcquireOK
    <3>2. ASSUME NEW p \in SyncOps, thread'[p].pc = "work" PROVE lock'.run = p
      <4>1. CASE p = o BY <2>1, <4>1
      <4>2. CASE p # o
        <5>1. p \in Owners /\ p \notin Runs BY OwnersAssumption DEF Owners
        <5>2. thread[p].pc = "work" /\ lock.run = p BY <2>3, <3>2, <4>2, <5>1 DEF XInv, AcquireOK
        <5> QED BY <2>4, <5>1, <5>2 DEF Abandoned
      <4> QED BY <4>1, <4>2
    <3> QED BY <3>1, <3>2 DEF AcquireOK
  <2>9. ASSUME NEW s \in Runs
        PROVE  ProcessesOK(s)' /\ LaunchOK(s)' /\ CancellingOK(s)' /\ ReconcilingOK(s)'
    <3>1. CalmAt(s) /\ TameAt(s) BY <1>2, <2>6 DEF RowPart, WorkerPart
    <3>2. ProcessesOK(s)'
      <4>1. ProcessesOK(s) /\ worker' = worker BY <1>1 DEF XInv, RunsOK
      <4>2. run'[s].lease = run[s].lease /\ (IsTerminal(run'[s]) => IsTerminal(run[s]))
        <5>1. EndsClean(s) /\ CalmAt(s) BY <2>6 DEF RowPart
        <5>2. run'[s].status = run[s].status
          <6>1. CASE run' = run BY <6>1
          <6>2. CASE old \in Runs /\ run' = [run EXCEPT ![old] = Bump(@)]
            <7>1. Bump(run[old]).status = run[old].status BY <6>2, Here, StatusAfter
            <7>2. run'[s] = run[s] \/ (s = old /\ run'[s] = Bump(run[old])) BY <6>2 DEF IInv, TypeOK
            <7> QED BY <7>1, <7>2
          <6> QED BY <2>1, <6>1, <6>2
        <5> QED BY <5>1, <5>2 DEF CalmAt, Calm, IsTerminal
      <4> QED BY <2>5, <4>1, <4>2 DEF ProcessesOK, IsTerminal
    <3>3. LaunchOK(s)'
      <4>1. CASE s = o BY <2>2, <2>3, <4>1 DEF LaunchOK
      <4>2. CASE s # o BY <2>3, <3>1, <4>2, LaunchKept DEF XInv, Owners
      <4> QED BY <4>1, <4>2
    <3>4. CancellingOK(s)' BY <1>1, <3>1, CancellingKept DEF XInv
    <3>5. ReconcilingOK(s)' BY <1>1, <3>1, ReconcilingKept DEF XInv
    <3> QED BY <3>2, <3>3, <3>4, <3>5
  <2> QED BY <2>7, <2>8, <2>9 DEF XInv, RunsOK
<1> QED BY <1>3, <1>4

\* A synchronous operation releases the lock when it has stopped working; with one
\* host, no launching process dies apart from the server.
LEMMA SyncX ==
  ASSUME Sheltered, IInv, XInv, LifeStep, NEW o \in Owners, SyncRelease(o) \/ HostCrash(o)
  PROVE  XInv'
<1>1. CASE SyncRelease(o)
  <2>1. ThreadPart BY <1>1, EndPart DEF SyncRelease
  <2>2. thread'[o].pc = "done" BY <1>1 DEF SyncRelease, End, IdleThread, IInv, TypeOK
  <2>3. LockTame BY <1>1, <2>2, OwnersAssumption DEF SyncRelease, LockTame
  <2> QED BY <1>1, <2>1, <2>3, XUnchanged, XFrame DEF SyncRelease
<1>2. CASE HostCrash(o) BY <1>2 DEF HostCrash, XInv, HostOK
<1> QED BY <1>1, <1>2

----
(* Cancelling. *)

\* A cancelling thread goes on, or ends.
LEMMA CancelMoves ==
  ASSUME IInv, NEW r \in Runs, NEW c, SetCancel(r, c), canceller[r].pc # "idle",
         c.pc = "idle" \/ c.host = canceller[r].host, canceller'[r] = c => CancellingOK(r)'
  PROVE  CancelPart
<1>1. canceller'[r] = c /\ \A s \in Runs : s # r => canceller'[s] = canceller[s]
  BY DEF SetCancel, IInv, TypeOK
<1> QED BY <1>1 DEF CancelPart, HostedCancels

\* A step of a cancelling thread: the thread, the row, a process, the lock.
LEMMA CancelFrameX ==
  ASSUME IInv, XInv, LifeStep, UNCHANGED <<thread, server>>,
         LockTame, RowPart, WorkerPart, CancelPart
  PROVE  XInv'
  BY XFrame, XUnchanged

\* The steps of cancel_run keep the invariant.
LEMMA CancelX ==
  ASSUME Sheltered, IInv, XInv, LifeStep, NEW r \in Runs,
         CancelStep(r) \/ \E h \in Hosts : CancelRead(r, h)
  PROVE  XInv'
<1> DEFINE c == canceller[r]
<1>1. /\ run[r] \in Rows /\ c \in Cancels
      /\ ProcessesOK(r) /\ CancellingOK(r)
  BY Here DEF XInv, RunsOK
<1>2. c.pc # "idle" => /\ run[r].status # "none" /\ Agrees(c.snap, run[r])
                       /\ c.snap.lease \in Leases
  BY Here DEF RunOK, CancelOK
<1>3. /\ run' = run => RowPart
      /\ lock' = lock => LockTame
      /\ worker' = worker => WorkerPart
  BY XUnchanged
<1>4. IdleCancel.pc = "idle" BY DEF IdleCancel
<1>5. canceller'[r] = IdleCancel => CancellingOK(r)' BY <1>4 DEF CancellingOK
<1>6. \A n \in Leases : Quiet(worker[r][n]) => worker[r][n].pc \in Past
  BY Here DEF Quiet, Past, Workers, WorkerPCs, ClaimedPCs
<1>7. \A x : LET d == [c EXCEPT !.pc = x] IN d.pc = x /\ d.host = c.host /\ d.snap = c.snap
  BY <1>1 DEF Cancels
<1>8. ASSUME NEW h \in Hosts, CancelRead(r, h) PROVE XInv'
  <2> DEFINE d == [pc |-> IF IsTerminal(run[r]) THEN "settle" ELSE "mark",
                   host |-> h, snap |-> run[r], ver |-> 0]
  <2>1. /\ h = "server" /\ server.pc = "ready" /\ SetCancel(r, d)
        /\ UNCHANGED <<run, lock, thread, worker, server>>
    BY <1>8 DEF CancelRead, HostUp, Sheltered
  <2>2. /\ d.pc = IF IsTerminal(run[r]) THEN "settle" ELSE "mark"
        /\ d.host = "server"
    BY <2>1
  <2> HIDE DEF d
  <2>3. canceller'[r] = d /\ \A s \in Runs : s # r => canceller'[s] = canceller[s]
    BY <2>1 DEF SetCancel, IInv, TypeOK
  <2>4. LockTame /\ RowPart /\ WorkerPart /\ ThreadPart /\ ServerPart BY <2>1, XUnchanged
  <2>5. HostOK' BY <2>1, <2>2, <2>3 DEF XInv, HostOK
  <2>6. AcquireOK' BY <2>4, AcquireKept DEF XInv, ThreadPart, RowPart
  <2>7. CancellingOK(r)' BY <2>1, <2>2, <2>3 DEF CancellingOK, IsTerminal
  <2>8. RunsOK' BY <2>3, <2>4, <2>7, RunsFrame DEF XInv, ThreadPart, ServerPart
  <2> QED BY <2>5, <2>6, <2>8 DEF XInv
<1>9. CASE CancelMark(r)
  <2>1. CASE Matches(run[r], c.snap)
    <3> DEFINE d == [c EXCEPT !.pc = "kill"]
    <3>1. Save(r, ToCancelling(run[r])) /\ SetCancel(r, d) BY <1>9, <2>1 DEF CancelMark
    <3>2. d.pc = "kill" /\ d.host = c.host /\ d.snap = c.snap BY <1>7
    <3> HIDE DEF d
    <3>3. run'[r] = ToCancelling(run[r]) BY <3>1 DEF Save, IInv, TypeOK
    <3>4. /\ run'[r].status = "cancellation_pending" /\ run'[r].lease = run[r].lease
          /\ run'[r].wpid = run[r].wpid
      BY <1>1, <3>3 DEF ToCancelling, Bump, Rows
    <3>5. c.snap.lease = run[r].lease /\ (run[r].wpid => c.snap.wpid)
      BY <1>2, <1>9, <2>1 DEF CancelMark, Matches, Agrees
    <3>6. canceller'[r] = d => CancellingOK(r)' BY <3>2, <3>4, <3>5 DEF CancellingOK, Unclaimed
    <3>7. CancelPart BY <1>9, <3>1, <3>2, <3>6, CancelMoves DEF CancelMark
    <3>8. Calm(run[r], ToCancelling(run[r])) /\ ~IsTerminal(ToCancelling(run[r]))
      BY <1>1, CalmOps, StatusAfter DEF IsTerminal, Terminal
    <3>9. RowPart BY <1>2, <1>9, <3>1, <3>8, SaveCalm DEF CancelMark
    <3> QED BY <1>3, <1>9, <3>7, <3>9, CancelFrameX DEF CancelMark
  <2>2. CASE ~Matches(run[r], c.snap)
    <3>1. UNCHANGED <<run, lock, thread, worker, server>> BY <1>9, <2>2 DEF CancelMark
    <3>2. CancelPart
      <4>1. CASE IsTerminal(run[r])
        <5> DEFINE d == [c EXCEPT !.pc = "settle"]
        <5>1. SetCancel(r, d) BY <1>9, <2>2, <4>1 DEF CancelMark
        <5>2. d.pc = "settle" /\ d.host = c.host BY <1>7
        <5> HIDE DEF d
        <5>3. canceller'[r] = d => CancellingOK(r)' BY <3>1, <4>1, <5>2 DEF CancellingOK, IsTerminal
        <5> QED BY <1>9, <5>1, <5>2, <5>3, CancelMoves DEF CancelMark
      <4>2. CASE ~IsTerminal(run[r]) BY <1>4, <1>5, <1>9, <2>2, <4>2, CancelMoves DEF CancelMark
      <4> QED BY <4>1, <4>2
    <3> QED BY <1>3, <3>1, <3>2, CancelFrameX
  <2> QED BY <2>1, <2>2
<1>10. CASE CancelKill(r)
  <2> DEFINE s == c.snap
             w == worker[r][s.lease]
             targets == {t \in {"child", "worker"} :
                           (t = "child" /\ s.cpid) \/ (t = "worker" /\ (s.wpid \/ s.lpid))}
             v == Terminate(w, targets)
  <2>1. c.pc = "kill" /\ s.lease \in Leases /\ UNCHANGED <<lock, thread, server>>
    BY <1>2, <1>10 DEF CancelKill
  <2>2. ~Unclaimed(run[r]) /\ s.lease = run[r].lease /\ (run[r].wpid => s.wpid)
    BY <1>1, <2>1 DEF CancellingOK
  <2>3. SetWorker(r, s.lease, v)
    <3>1. KillOutcomes(targets) = {targets} BY Confirmed
    <3> HIDE DEF targets
    <3> QED BY <1>10, <3>1 DEF CancelKill, targets
  <2>4. w \in Workers /\ (w.child => w.pc \in {"attach", "wait"})
    BY <1>1, <2>1, Here DEF ProcessesOK
  <2>5. /\ v.child => w.child /\ v.pc = w.pc
        /\ v.pc = w.pc \/ v.pc = "exited"
        /\ w.pc = "none" => v.pc = "none"
        /\ "worker" \in targets /\ w.pc \notin {"none", "exited"} => v.pc = "exited" /\ ~v.child
    BY <2>4, Terminated
  <2>6. s.wpid => "worker" \in targets OBVIOUS
  <2> HIDE DEF v, targets
  <2>7. Tame(w, v) BY <2>4, <2>5 DEF Tame, Quiet, Past, ClaimedPCs
  <2>8. WorkerPart BY <2>1, <2>3, <2>5, <2>7, SetWorkerTame DEF AtWork
  <2>9. \A n \in Leases : Quiet(worker'[r][n])
    <3>1. worker'[r][s.lease] = v /\ \A n \in Leases : n # s.lease => worker'[r][n] = worker[r][n]
      BY <2>1, <2>3 DEF SetWorker, IInv, TypeOK
    <3>2. \A n \in Leases : n # s.lease => Quiet(worker[r][n]) BY <2>2, OneExecutes DEF Quiet
    <3>3. Quiet(v)
      <4>1. CASE Quiet(w) BY <2>7, <4>1 DEF Tame
      <4>2. CASE ~Quiet(w)
        <5>1. s.wpid BY <2>1, <2>2, <4>2, OneExecutes DEF Quiet
        <5>2. w.pc \notin {"none", "exited"} BY <2>4, <4>2 DEF Quiet, ClaimedPCs
        <5> QED BY <2>5, <2>6, <5>1, <5>2 DEF Quiet, ClaimedPCs
      <4> QED BY <4>1, <4>2
    <3> QED BY <3>1, <3>2, <3>3
  <2>10. \/ SetCancel(r, [c EXCEPT !.pc = "finish", !.ver = run[r].ver]) /\ UNCHANGED run
         \/ /\ SetCancel(r, IdleCancel)
            /\ Save(r, NotedCancelling(run[r])) \/ Save(r, run[r])
    <3> HIDE DEF w, s
    <3> QED BY <1>10 DEF CancelKill, w, s
  <2>11. CASE SetCancel(r, [c EXCEPT !.pc = "finish", !.ver = run[r].ver]) /\ UNCHANGED run
    <3> DEFINE d == [c EXCEPT !.pc = "finish", !.ver = run[r].ver]
    <3>1. d.pc = "finish" /\ d.host = c.host BY <1>1 DEF Cancels
    <3>2. SetCancel(r, d) BY <2>11
    <3> HIDE DEF d
    <3>3. canceller'[r] = d => CancellingOK(r)'
      BY <2>2, <2>9, <2>11, <3>1 DEF CancellingOK, Unclaimed, Quiet
    <3>4. CancelPart BY <2>1, <3>1, <3>2, <3>3, CancelMoves
    <3> QED BY <1>3, <2>1, <2>8, <2>11, <3>4, CancelFrameX
  <2>12. CASE /\ SetCancel(r, IdleCancel)
              /\ Save(r, NotedCancelling(run[r])) \/ Save(r, run[r])
    <3>1. CancelPart BY <1>4, <1>5, <2>1, <2>12, CancelMoves
    <3>2. /\ Calm(run[r], NotedCancelling(run[r])) /\ Calm(run[r], run[r])
          /\ NotedCancelling(run[r]).status = run[r].status
      BY <1>1, CalmOps, StatusAfter
    <3>3. RowPart BY <1>2, <2>1, <2>12, <3>2, SaveCalm DEF IsTerminal
    <3> QED BY <1>3, <2>1, <2>8, <3>1, <3>3, CancelFrameX
  <2> QED BY <2>10, <2>11, <2>12
<1>11. CASE CancelFinish(r)
  <2>1. \A n \in Leases : worker'[r][n].pc \in Past
    BY <1>1, <1>6, <1>11 DEF CancelFinish, CancellingOK
  <2>2. PICK row \in {run[r], ToTerminal(run[r], "cancelled")}, x \in {"release", "settle"} :
          /\ Save(r, row)
          /\ SetCancel(r, IF IsTerminal(row) THEN [c EXCEPT !.pc = x] ELSE IdleCancel)
    BY <1>11 DEF CancelFinish
  <2>3. Calm(run[r], row) BY <1>1, CalmOps DEF Terminal
  <2>4. RowPart BY <1>2, <1>11, <2>1, <2>2, <2>3, SaveCalm DEF CancelFinish
  <2>5. run'[r] = row BY <2>2 DEF Save, IInv, TypeOK
  <2>6. CancelPart
    <3>1. CASE IsTerminal(row)
      <4> DEFINE d == [c EXCEPT !.pc = x]
      <4>1. d.pc = x /\ d.host = c.host BY <1>7
      <4>2. SetCancel(r, d) BY <2>2, <3>1
      <4> HIDE DEF d
      <4>3. canceller'[r] = d => CancellingOK(r)' BY <2>5, <3>1, <4>1 DEF CancellingOK, IsTerminal
      <4> QED BY <1>11, <4>1, <4>2, <4>3, CancelMoves DEF CancelFinish
    <3>2. CASE ~IsTerminal(row) BY <1>4, <1>5, <1>11, <2>2, <3>2, CancelMoves DEF CancelFinish
    <3> QED BY <3>1, <3>2
  <2> QED BY <1>3, <1>11, <2>4, <2>6, CancelFrameX DEF CancelFinish
<1>12. CASE CancelRelease(r)
  <2>1. IsTerminal(run[r]) /\ run[r].status # "none" /\ c.pc # "idle"
    BY <1>1, <1>2, <1>12 DEF CancelRelease, CancellingOK
  <2>2. CancelPart BY <1>4, <1>5, <1>12, <2>1, CancelMoves DEF CancelRelease
  <2>3. PICK ok \in PublishOutcomes(r) :
          \/ /\ Save(r, Released(Published(run[r], ok), r, c.snap.lease))
             /\ ReleaseLock(r, c.snap.lease)
          \/ Save(r, Published(run[r], ok)) /\ UNCHANGED lock
    BY <1>12 DEF CancelRelease
  <2>4. RowPart BY <1>1, <2>1, <2>3, Outcomes, CalmOps, ReleaseCalm, SaveCalm
  <2>5. LockTame
    <3>1. \A m \in Leases : worker'[r][m].pc \notin AtWork
      BY <1>12, <2>1, EndedQuiet DEF CancelRelease, XInv
    <3> QED BY <1>3, <2>3, <3>1, ReleaseTame
  <2> QED BY <1>3, <1>12, <2>2, <2>4, <2>5, CancelFrameX DEF CancelRelease
<1> QED BY <1>8, <1>9, <1>10, <1>11, <1>12 DEF CancelStep

----
(* Startup reconciliation. *)

\* The server is not ready: no launching or cancelling thread is active.
LEMMA Silence ==
  ASSUME IInv, XInv, server.pc # "ready", NEW r \in Runs
  PROVE  thread[r].pc \notin ActivePCs /\ canceller[r].pc = "idle"
  BY DEF XInv, HostOK, Owners

\* Reconciliation goes on to another run, or on with this one.
LEMMA ServerMoves ==
  ASSUME IInv, NEW r \in Runs, server.pc # "ready"
  PROVE  /\ NextRun(r) => ServerPart
         /\ \A pc, row : Then(r, pc, row) =>
              /\ server'.pc = pc /\ server'.cur = r /\ server'.snap = row
              /\ ReconcilingOK(r)' => ServerPart
<1>1. server \in Servers BY Here
<1>2. NextRun(r) => ServerPart BY <1>1, OwnersAssumption DEF NextRun, ServerPart, Servers
<1>3. ASSUME NEW pc, NEW row, Then(r, pc, row)
      PROVE  server'.pc = pc /\ server'.cur = r /\ server'.snap = row
  BY <1>1, <1>3 DEF Then, Servers
<1>4. ASSUME NEW pc, NEW row, Then(r, pc, row), ReconcilingOK(r)' PROVE ServerPart
  BY <1>3, <1>4 DEF ServerPart
<1> QED BY <1>2, <1>3, <1>4

\* A step of the reconciliation: the server, the row, the lock.
LEMMA ReconcileFrameX ==
  ASSUME IInv, XInv, LifeStep, UNCHANGED <<thread, worker, canceller>>,
         LockTame, RowPart, ServerPart
  PROVE  XInv'
  BY XFrame, XUnchanged

\* A relaunch moves the run to a lease that no process has had.
LEMMA ReserveX ==
  ASSUME Sheltered, IInv, XInv, LifeStep, NEW r \in Runs, ReconcileReserve(r),
         Matches(run[r], listed[r]), HoldsLock(r, listed[r].lease)
  PROVE  XInv'
<1> DEFINE row == Reserved(run[r])
<1>1. /\ Save(r, row) /\ lock' = ReservedLock(r, row) /\ Then(r, "respawn", row)
      /\ UNCHANGED <<thread, worker, canceller>> /\ server.pc = "runs" /\ r \in server.todo
      /\ Unclaimed(listed[r]) /\ AttemptsLeft(listed[r])
  BY DEF ReconcileReserve, InHand
<1>2. run[r] \in Rows /\ run[r].status # "none" BY <1>1, Here, RunExists
<1>3. row.lease = run[r].lease + 1 /\ row.status = "launch_pending" BY <1>2 DEF Reserved, Bump, Rows
<1>4. row.lease \in Leases
  <2>1. listed[r] \in Rows /\ ListedOK(listed[r], run[r]) /\ RowOK(run[r]) BY Here DEF RunOK
  <2>2. Agrees(listed[r], run[r]) /\ listed[r].ver = run[r].ver
    BY <1>1, <2>1 DEF ListedOK, Unclaimed, Matches
  <2>3. run[r].att = listed[r].att BY <2>2 DEF Agrees
  <2> QED BY <1>1, <1>2, <1>3, <2>1, <2>3 DEF RowOK, Rows, AttemptsLeft, Leases, MaxLaunchAttempts
<1>5. run'[r] = row /\ \A s \in Runs : s # r => run'[s] = run[s] BY <1>1 DEF Save, IInv, TypeOK
<1>6. lock.run = r /\ lock'.run = r BY <1>1 DEF HoldsLock, ReservedLock
<1>7. server'.pc = "respawn" /\ server'.cur = r /\ server'.snap = row BY <1>1, ServerMoves
<1> HIDE DEF row
<1>8. thread[r].pc \notin ActivePCs /\ canceller[r].pc = "idle" BY <1>1, Silence
<1>9. ProcessesOK(r) BY DEF XInv, RunsOK
<1>10. ProcessesOK(r)'
  <2>1. \A n \in Leases : n > row.lease => n > run[r].lease
    BY <1>2, <1>3 DEF Rows, Leases, MaxLaunchAttempts
  <2>2. ~IsTerminal(row) BY <1>3 DEF IsTerminal, Terminal
  <2> QED BY <1>1, <1>5, <1>6, <1>9, <2>1, <2>2 DEF ProcessesOK, IsTerminal
<1>11. LaunchOK(r)' BY <1>1, <1>8 DEF LaunchOK, ActivePCs
<1>12. CancellingOK(r)' BY <1>1, <1>8 DEF CancellingOK
<1>13. ReconcilingOK(r)'
  <2>1. row.lease > run[r].lease BY <1>2, <1>3 DEF Rows, Leases, MaxLaunchAttempts
  <2>2. worker[r][row.lease].pc = "none" BY <1>4, <1>9, <2>1 DEF ProcessesOK
  <2> QED BY <1>1, <1>5, <1>7, <2>2 DEF ReconcilingOK
<1>14. ASSUME NEW s \in Runs
       PROVE  ProcessesOK(s)' /\ LaunchOK(s)' /\ CancellingOK(s)' /\ ReconcilingOK(s)'
  <2>1. CASE s = r BY <1>10, <1>11, <1>12, <1>13, <2>1
  <2>2. CASE s # r BY <1>1, <1>5, <1>6, <1>7, <2>2, OtherRun DEF XInv
  <2> QED BY <2>1, <2>2
<1>15. ThreadPart /\ CancelPart BY <1>1, XUnchanged
<1>16. HostOK' BY <1>1, <1>15, HostKept DEF XInv, ThreadPart, CancelPart
<1>17. AcquireOK'
  <2>1. LockTame BY <1>6, OwnersAssumption DEF LockTame
  <2>2. Births BY <1>2, <1>5 DEF Births
  <2> QED BY <1>15, <2>1, <2>2, AcquireKept DEF XInv, ThreadPart
<1> QED BY <1>14, <1>16, <1>17 DEF XInv, RunsOK

\* The steps of reconcile_startup for one run keep the invariant.
LEMMA ReconcileX ==
  ASSUME Sheltered, IInv, XInv, LifeStep, NEW r \in Runs, ReconcileStep(r)
  PROVE  XInv'
<1>1. /\ run[r] \in Rows /\ server \in Servers /\ listed[r] \in Rows
      /\ ProcessesOK(r) /\ ReconcilingOK(r)
  BY Here DEF XInv, RunsOK
<1>2. /\ server.cur = r => run[r].status # "none"
      /\ InHand(r) => run[r].status # "none"
  BY RunExists DEF InHand
<1>3. /\ run' = run => RowPart
      /\ lock' = lock => LockTame
  BY XUnchanged
<1>4. server.pc # "ready"
  BY DEF ReconcileStep, ReconcileAdopt, ReconcileClaim, ReconcileRaises, ReconcileChild,
         ReconcileRetain,
         ReconcileReserve, ReconcileRespawn, ReconcileRecord, ReconcileDead, ReconcileFail,
         ReconcileRelease, InHand
<1>5. NextRun(r) => ServerPart BY <1>4, ServerMoves
<1>6. \A n \in Leases : Quiet(worker[r][n]) => worker[r][n].pc \in Past
  BY Here DEF Quiet, Past, Workers, WorkerPCs, ClaimedPCs
<1>7. CASE ReconcileAdopt(r)
  <2>1. PICK row \in {run[r], Adopted(run[r])} :
          Save(r, row) /\ (Then(r, "claim", row) \/ NextRun(r))
    BY <1>7 DEF ReconcileAdopt
  <2>2. Calm(run[r], row) /\ row.status = run[r].status BY <1>1, CalmOps, StatusAfter
  <2>3. RowPart BY <1>2, <1>7, <2>1, <2>2, SaveCalm DEF ReconcileAdopt, IsTerminal
  <2>4. ServerPart
    <3>1. ASSUME Then(r, "claim", row) PROVE ServerPart
      <4>1. server'.pc = "claim" BY <1>4, <3>1, ServerMoves
      <4>2. ReconcilingOK(r)' BY <4>1 DEF ReconcilingOK
      <4> QED BY <1>4, <3>1, <4>2, ServerMoves
    <3> QED BY <1>5, <2>1, <3>1
  <2> QED BY <1>3, <1>7, <2>3, <2>4, ReconcileFrameX DEF ReconcileAdopt
<1>8. CASE ReconcileClaim(r)
  <2>1. run[r].status # "none" BY <1>2, <1>8 DEF ReconcileClaim
  <2>2. CASE HoldsLock(r, listed[r].lease)
    <3>1. lock' = ClaimedLock /\ Save(r, ClaimedRow(run[r])) BY <1>8, <2>2 DEF ReconcileClaim
    <3>2. LockTame BY <2>2, <3>1, LockStays DEF HoldsLock
    <3>3. /\ Calm(run[r], ClaimedRow(run[r]))
          /\ ClaimedRow(run[r]).status = run[r].status
      BY <1>1, CalmOps, StatusAfter
    <3>4. RowPart BY <2>1, <3>1, <3>3, SaveCalm DEF IsTerminal
    <3> QED BY <1>5, <1>8, <3>2, <3>4, ReconcileFrameX DEF ReconcileClaim
  <2>3. CASE ~HoldsLock(r, listed[r].lease)
    <3>1. PICK row \in {run[r], ToRecoveryPending(run[r])} : Save(r, row)
      BY <1>8, <2>3 DEF ReconcileClaim
    <3>2. Calm(run[r], row) /\ (IsTerminal(row) => IsTerminal(run[r]))
      BY <1>1, CalmOps, StatusAfter DEF IsTerminal, Terminal
    <3>3. RowPart BY <2>1, <3>1, <3>2, SaveCalm
    <3> QED BY <1>3, <1>5, <1>8, <2>3, <3>3, ReconcileFrameX DEF ReconcileClaim
  <2> QED BY <2>2, <2>3
<1>9. CASE ReconcileChild(r)
  <2>1. PICK row \in {run[r], ToRecoveryPending(run[r])} : Save(r, row) BY <1>9 DEF ReconcileChild
  <2>2. Calm(run[r], row) /\ (IsTerminal(row) => IsTerminal(run[r]))
    BY <1>1, CalmOps, StatusAfter DEF IsTerminal, Terminal
  <2>3. RowPart BY <1>2, <1>9, <2>1, <2>2, SaveCalm DEF ReconcileChild
  <2> QED BY <1>3, <1>5, <1>9, <2>3, ReconcileFrameX DEF ReconcileChild
<1>20. CASE ReconcileRaises(r)
  <2>1. PICK row \in {run[r], ToRecoveryPending(run[r])} : Save(r, row) BY <1>20 DEF ReconcileRaises
  <2>2. Calm(run[r], row) /\ (IsTerminal(row) => IsTerminal(run[r]))
    BY <1>1, CalmOps, StatusAfter DEF IsTerminal, Terminal
  <2>3. RowPart BY <1>2, <1>20, <2>1, <2>2, SaveCalm DEF ReconcileRaises
  <2> QED BY <1>3, <1>5, <1>20, <2>3, ReconcileFrameX DEF ReconcileRaises
<1>10. CASE ReconcileRetain(r) BY <1>3, <1>5, <1>10, ReconcileFrameX DEF ReconcileRetain
<1>11. CASE ReconcileReserve(r)
  <2>1. CASE Matches(run[r], listed[r]) /\ HoldsLock(r, listed[r].lease) BY <1>11, <2>1, ReserveX
  <2>2. CASE ~(Matches(run[r], listed[r]) /\ HoldsLock(r, listed[r].lease))
    BY <1>3, <1>5, <1>11, <2>2, ReconcileFrameX DEF ReconcileReserve
  <2> QED BY <2>1, <2>2
<1>12. CASE ReconcileRespawn(r)
  <2> DEFINE n == server.snap.lease
  <2>1. /\ server.pc = "respawn" /\ server.cur = r /\ n = run[r].lease
        /\ worker[r][n].pc = "none" /\ n \in Leases
    BY <1>1, <1>12, Here DEF ReconcileRespawn, ReconcilingOK, RunOK, ServerOK
  <2>2. CASE /\ worker' = [worker EXCEPT ![r][n].pc = "boot"]
             /\ Then(r, "record", server.snap)
    <3>1. server'.pc = "record" /\ server'.cur = r /\ server'.snap = server.snap
      BY <1>4, <2>2, ServerMoves
    <3>2. ReconcilingOK(r)' BY <1>12, <2>1, <3>1 DEF ReconcilingOK, ReconcileRespawn
    <3>3. ServerPart BY <1>4, <2>2, <3>2, ServerMoves
    <3>4. LaunchOK(r)' BY <1>4, <1>12, Silence DEF LaunchOK, ActivePCs, ReconcileRespawn
    <3> HIDE DEF n
    <3> QED BY <1>12, <2>1, <2>2, <3>2, <3>3, <3>4, BootX DEF ReconcileRespawn
  <2>3. CASE /\ IF run[r].lease = server.snap.lease
                THEN Then(r, "fail", run[r]) ELSE NextRun(r)
             /\ UNCHANGED worker
    <3>1. Then(r, "fail", run[r]) BY <2>1, <2>3
    <3>2. server'.pc = "fail" /\ server'.cur = r BY <1>4, <3>1, ServerMoves
    <3>3. \A m \in Leases : Quiet(worker[r][m])
      <4>1. Quiet(worker[r][n]) BY <1>1, <2>1 DEF ProcessesOK, Quiet, ClaimedPCs
      <4>2. \A m \in Leases : m # n => Quiet(worker[r][m]) BY <2>1, OneExecutes DEF Quiet
      <4> QED BY <4>1, <4>2
    <3>4. ReconcilingOK(r)' BY <2>3, <3>2, <3>3 DEF ReconcilingOK, Quiet
    <3>5. ServerPart BY <1>4, <3>1, <3>4, ServerMoves
    <3> QED BY <1>3, <1>12, <2>3, <3>5, ReconcileFrameX DEF ReconcileRespawn
  <2> QED BY <1>12, <2>2, <2>3 DEF ReconcileRespawn
<1>13. CASE ReconcileRecord(r)
  <2>1. server.snap.lease = run[r].lease /\ run[r].status # "none"
    BY <1>1, <1>2, <1>13 DEF ReconcileRecord, ReconcilingOK
  <2>2. PICK row \in {run[r], Launched(run[r])} :
          /\ Save(r, row)
          /\ row.lease = server.snap.lease => NextRun(r) /\ UNCHANGED worker
    BY <1>13 DEF ReconcileRecord, Sheltered
  <2>3. Calm(run[r], row) /\ (IsTerminal(row) => IsTerminal(run[r]))
    BY <1>1, CalmOps, StatusAfter DEF IsTerminal, Terminal
  <2>4. RowPart BY <2>1, <2>2, <2>3, SaveCalm
  <2>5. NextRun(r) /\ UNCHANGED worker BY <2>1, <2>2, <2>3 DEF Calm
  <2> QED BY <1>3, <1>5, <1>13, <2>4, <2>5, ReconcileFrameX DEF ReconcileRecord
<1>14. CASE ReconcileDead(r)
  <2>1. Then(r, "fail", listed[r]) BY <1>14 DEF ReconcileDead
  <2>2. server'.pc = "fail" /\ server'.cur = r /\ server'.snap = listed[r]
    BY <1>4, <2>1, ServerMoves
  <2>3. ASSUME run[r].ver = listed[r].ver, NEW m \in Leases PROVE Quiet(worker[r][m])
    <3>1. Agrees(listed[r], run[r]) BY <1>14, Here DEF RunOK, ListedOK, ReconcileDead, Unclaimed
    <3>2. listed[r].lease = run[r].lease /\ listed[r].wpid = run[r].wpid BY <2>3, <3>1 DEF Agrees
    <3>3. ~WorkerVerified(r, listed[r]) BY <1>14 DEF ReconcileDead, NoProcess
    <3>4. ASSUME ~Quiet(worker[r][m]) PROVE FALSE
      <4>1. run[r].lease = m /\ run[r].wpid BY <3>4, OneExecutes DEF Quiet
      <4>2. Alive(r, m) BY <1>1, <3>4 DEF Alive, Quiet, ProcessesOK, ClaimedPCs
      <4> QED BY <3>2, <3>3, <4>1, <4>2 DEF WorkerVerified
    <3> QED BY <3>4
  <2>4. ReconcilingOK(r)' BY <1>14, <2>2, <2>3 DEF ReconcilingOK, ReconcileDead, Quiet
  <2>5. ServerPart BY <1>4, <2>1, <2>4, ServerMoves
  <2> QED BY <1>3, <1>14, <2>5, ReconcileFrameX DEF ReconcileDead
<1>15. CASE ReconcileFail(r)
  <2>1. CASE MatchesBeat(run[r], server.snap)
    <3>1. Save(r, ToTerminal(run[r], "failed")) /\ Then(r, "release", server.snap)
      BY <1>15, <2>1 DEF ReconcileFail
    <3>2. \A m \in Leases : worker'[r][m].pc \in Past
      BY <1>1, <1>6, <1>15, <2>1 DEF ReconcileFail, ReconcilingOK, MatchesBeat, Matches
    <3>3. /\ Calm(run[r], ToTerminal(run[r], "failed"))
          /\ IsTerminal(ToTerminal(run[r], "failed"))
      BY <1>1, CalmOps, StatusAfter DEF IsTerminal, Terminal
    <3>4. RowPart BY <1>2, <1>15, <3>1, <3>2, <3>3, SaveCalm DEF ReconcileFail
    <3>5. server'.pc = "release" /\ server'.cur = r BY <1>4, <3>1, ServerMoves
    <3>6. run'[r] = ToTerminal(run[r], "failed") BY <3>1 DEF Save, IInv, TypeOK
    <3>7. ReconcilingOK(r)' BY <3>3, <3>5, <3>6 DEF ReconcilingOK, IsTerminal
    <3>8. ServerPart BY <1>4, <3>1, <3>7, ServerMoves
    <3> QED BY <1>3, <1>15, <3>4, <3>8, ReconcileFrameX DEF ReconcileFail
  <2>2. CASE ~MatchesBeat(run[r], server.snap)
    BY <1>3, <1>5, <1>15, <2>2, ReconcileFrameX DEF ReconcileFail
  <2> QED BY <2>1, <2>2
<1>16. CASE ReconcileRelease(r)
  <2>1. IsTerminal(run[r]) /\ run[r].status # "none"
    BY <1>1, <1>2, <1>16 DEF ReconcileRelease, ReconcilingOK
  <2>2. PICK ok \in PublishOutcomes(r) :
          Save(r, Released(Published(run[r], ok), r, server.snap.lease))
    BY <1>16 DEF ReconcileRelease
  <2>3. RowPart BY <1>1, <2>1, <2>2, Outcomes, ReleaseCalm, SaveCalm
  <2>4. LockTame
    <3>1. \A m \in Leases : worker'[r][m].pc \notin AtWork
      BY <1>16, <2>1, EndedQuiet DEF ReconcileRelease, XInv
    <3> QED BY <1>16, <3>1, ReleaseTame DEF ReconcileRelease
  <2> QED BY <1>5, <1>16, <2>3, <2>4, ReconcileFrameX DEF ReconcileRelease
<1> QED BY <1>7, <1>8, <1>9, <1>10, <1>11, <1>12, <1>13, <1>14, <1>15, <1>16, <1>20 DEF ReconcileStep

----
(* The server process. *)

\* Death, restart and the last two steps of the reconciliation keep the invariant.
LEMMA ServerX ==
  ASSUME Sheltered, IInv, XInv, LifeStep,
         ServerCrash \/ ServerRestart \/ ReconcilePublish \/ RecoverStale
  PROVE  XInv'
<1>1. server \in Servers /\ lock \in Locks /\ thread \in [Owners -> Threads] BY DEF IInv, TypeOK
<1>2. /\ run' = run => RowPart
      /\ lock' = lock => LockTame
      /\ thread' = thread => ThreadPart
      /\ worker' = worker => WorkerPart
      /\ canceller' = canceller => CancelPart
  BY XUnchanged
<1>3. CASE ServerCrash
  <2>1. server'.pc = "down" /\ server'.cur = None BY <1>1, <1>3 DEF ServerCrash, Servers
  <2>2. \A o \in Owners : /\ thread'[o].pc \notin ActivePCs
                          /\ thread'[o] = thread[o] \/ thread'[o].pc = "dead"
    BY <1>3 DEF ServerCrash, XInv, HostOK, IdleThread, ActivePCs
  <2>3. \A r \in Runs : canceller'[r].pc = "idle" BY <1>3 DEF ServerCrash, XInv, HostOK, IdleCancel
  <2>4. HostOK' BY <2>2, <2>3 DEF HostOK
  <2>5. AcquireOK' BY <2>2 DEF AcquireOK, ActivePCs, Owners
  <2>6. RunsOK'
    <3>1. \A s \in Runs : LaunchOK(s)' BY <2>2 DEF LaunchOK, ActivePCs, Owners
    <3>2. \A s \in Runs : CancellingOK(s)' BY <2>3 DEF CancellingOK
    <3>3. \A s \in Runs : server'.cur # s BY <2>1, OwnersAssumption
    <3> QED BY <1>2, <1>3, <3>1, <3>2, <3>3, RunsFrame DEF XInv, ServerCrash
  <2> QED BY <2>4, <2>5, <2>6 DEF XInv
<1>4. CASE ServerRestart
  <2>1. server.pc = "down" /\ server'.pc = "runs" BY <1>1, <1>4 DEF ServerRestart, Servers
  <2>2. ServerPart BY <2>1 DEF ServerPart, ReconcilingOK
  <2> QED BY <1>2, <1>4, <2>2, XFrame DEF ServerRestart
<1>5. CASE ReconcilePublish
  <2>1. server.pc = "runs" /\ server'.pc = "stale" BY <1>1, <1>5 DEF ReconcilePublish, Servers
  <2>2. ServerPart BY <2>1 DEF ServerPart, ReconcilingOK
  <2>3. PICK ok \in [Runs -> BOOLEAN] :
          run' = [r \in Runs |-> IF listed[r].status = "none"
                                 THEN Published(run[r], ok[r]) ELSE run[r]]
    BY <1>5, Outcomes DEF ReconcilePublish
  <2>4. ASSUME NEW s \in Runs
        PROVE  /\ CalmAt(s) /\ EndsClean(s)
               /\ run'[s] = run[s] \/ run[s].status # "none"
    <3>1. run[s] \in Rows /\ ok[s] \in BOOLEAN BY Here
    <3>2. Calm(run[s], Published(run[s], ok[s])) /\ Calm(run[s], run[s])
          /\ Published(run[s], ok[s]).status = run[s].status
      BY <3>1, CalmOps, StatusAfter
    <3>3. run'[s] = Published(run[s], ok[s]) \/ run'[s] = run[s] BY <2>3
    <3>4. run[s].status = "none" => Published(run[s], ok[s]) = run[s]
      BY DEF Published, IsTerminal, Terminal
    <3>5. CalmAt(s) BY <3>2, <3>3, <3>4, CalmLife
    <3> QED BY <3>2, <3>3, <3>4, <3>5 DEF EndsClean, IsTerminal
  <2>5. RowPart BY <2>4 DEF RowPart, Births
  <2> QED BY <1>2, <1>5, <2>2, <2>5, XFrame DEF ReconcilePublish
<1>6. CASE RecoverStale
  <2>1. server.pc = "stale" /\ server'.pc = "ready" BY <1>1, <1>6 DEF RecoverStale, Servers
  <2>2. ServerPart BY <2>1 DEF ServerPart, ReconcilingOK
  <2>3. RowPart
    <3>1. CASE lock.run \in Runs /\ Exists(lock.run)
      <4> DEFINE r == lock.run
      <4>1. PICK row \in {Bound(run[r]), Bump(Bound(run[r]))} : Save(r, row)
        BY <1>6, <3>1 DEF RecoverStale, Save
      <4>2. run[r] \in Rows BY <3>1, Here
      <4>3. Bound(run[r]) \in Rows BY <4>2, RowOpTypes DEF Bound
      <4>4. Bump(Bound(run[r])) \in Rows BY <4>3, RowOpTypes
      <4>5. Calm(run[r], Bound(run[r])) /\ Calm(Bound(run[r]), Bump(Bound(run[r])))
        BY <4>2, <4>3, CalmOps
      <4>6. Calm(run[r], row) /\ row.status = run[r].status
        BY <4>2, <4>3, <4>4, <4>5, CalmTrans, StatusAfter
      <4> QED BY <3>1, <4>1, <4>6, SaveCalm DEF Exists, IsTerminal
    <3>2. CASE ~(lock.run \in Runs /\ Exists(lock.run)) BY <1>2, <1>6, <3>2 DEF RecoverStale
    <3> QED BY <3>1, <3>2
  <2>4. LockTame
    <3>1. CASE IsStale
      <4>1. lock' = NoLock BY <1>6, <3>1 DEF RecoverStale
      <4>2. ASSUME lock.run \in Runs, NEW n \in Leases PROVE worker'[lock.run][n].pc \notin AtWork
        <5>1. CASE Exists(lock.run)
          BY <1>6, <3>1, <4>2, <5>1, EndedQuiet DEF IsStale, RecoverStale, XInv
        <5>2. CASE ~Exists(lock.run) BY <1>6, <4>2, <5>2, RunExists DEF Exists, RecoverStale, AtWork
        <5> QED BY <5>1, <5>2
      <4>3. lock.run \in SyncOps => thread'[lock.run].pc # "work"
        BY <1>6, <3>1, OwnersAssumption DEF IsStale, RecoverStale
      <4> QED BY <4>1, <4>2, <4>3 DEF LockTame
    <3>2. CASE ~IsStale BY <1>2, <1>6, <3>2, LockStays DEF RecoverStale
    <3> QED BY <3>1, <3>2
  <2> QED BY <1>2, <1>6, <2>2, <2>3, <2>4, XFrame DEF RecoverStale
<1> QED BY <1>3, <1>4, <1>5, <1>6

----
\* In the initial state nobody holds, reads or does anything.
LEMMA StartX == Init => XInv
<1> SUFFICES ASSUME Init PROVE XInv
  OBVIOUS
<1>1. /\ \A o \in Owners : thread[o].pc = "idle"
      /\ \A r \in Runs : /\ run[r].status = "none" /\ canceller[r].pc = "idle"
                         /\ \A n \in Leases : worker[r][n].pc = "none" /\ ~worker[r][n].child
      /\ server.cur = None
  BY DEF Init, IdleThread, IdleCancel, NoRow, NoWorker
<1>2. \A r \in Runs : r \in Owners /\ r # None BY OwnersAssumption DEF Owners
<1>3. HostOK BY <1>1 DEF HostOK, ActivePCs
<1>4. AcquireOK BY <1>1 DEF AcquireOK, Owners
<1>5. RunsOK
  BY <1>1, <1>2 DEF RunsOK, ProcessesOK, LaunchOK, CancellingOK, ReconcilingOK, AtWork, IsTerminal,
                    Terminal
<1> QED BY <1>3, <1>4, <1>5 DEF XInv

\* Every step keeps the invariant.
LEMMA StepX ==
  ASSUME Sheltered, IInv, XInv, [Next]_vars
  PROVE  XInv'
<1>1. LifeStep BY StepLife
<1>2. CASE UNCHANGED vars BY <1>1, <1>2, XUnchanged, XFrame DEF vars
<1>3. CASE Next
  BY <1>1, <1>3, ReadX, InsertX, SyncX, LaunchX, CancelX, ReconcileX, WorkerX, ServerX DEF Next
<1> QED BY <1>2, <1>3

\* The repository lock does its job and a cancelled run has stopped, for any number
\* of runs, synchronous operations, server crashes, failing spawns and publications,
\* where one process launches and cancels, terminations reach the whole tree and are
\* confirmed, and workers, artifact writes and acquire are not cut off in the middle.
THEOREM Exclusion ==
  ASSUME Sheltered PROVE Spec => [](RepositoryExclusion /\ CancelledMeansStopped)
<1>1. Init => XInv BY StartX
<1>2. IInv /\ XInv /\ [Next]_vars => XInv' BY StepX
<1>3. Spec => []IInv BY Invariance
<1>4. XInv => RepositoryExclusion
  <2> SUFFICES ASSUME XInv, NEW o \in Owners, Busy(o) PROVE lock.run = o BY DEF RepositoryExclusion
  <2>1. CASE o \in Runs
    <3>1. PICK n \in Leases : worker[o][n].pc \in {"spawn", "attach", "wait"} \/ worker[o][n].child
      BY <2>1 DEF Busy, Working
    <3>2. worker[o][n].pc \in AtWork BY <2>1, <3>1 DEF XInv, RunsOK, ProcessesOK, AtWork
    <3> QED BY <2>1, <3>2 DEF XInv, RunsOK, ProcessesOK
  <2>2. CASE o \notin Runs BY <2>2 DEF Busy, XInv, AcquireOK, Owners
  <2> QED BY <2>1, <2>2
<1>5. XInv => CancelledMeansStopped
  BY DEF XInv, RunsOK, ProcessesOK, CancelledMeansStopped, IsTerminal, Terminal, Past
<1> QED BY <1>1, <1>2, <1>3, <1>4, <1>5, PTL DEF Spec

\* The instance of the engine the safety run checks with one launching process: a run
\* reported cancelled has no process left (job_manager.py:3025-3103,
\* process_control.py).
THEOREM CancelledStops ==
  ASSUME Sheltered PROVE MCSpec => []CancelledHasStopped
<1> DEFINE Inv == focus = "exclusion" => IInv /\ XInv
<1>1. MCInit => Inv BY Start, StartX DEF MCInit
<1>2. Inv /\ [MCNext]_<<vars, focus>> => Inv'
  <2> SUFFICES ASSUME Inv, [MCNext]_<<vars, focus>>, focus' = "exclusion" PROVE IInv' /\ XInv'
    OBVIOUS
  <2>1. focus = "exclusion" /\ [Next]_vars BY DEF MCNext
  <2>2. IInv' BY <2>1, Step
  <2>3. XInv' BY <2>1, StepX
  <2> QED BY <2>2, <2>3
<1>3. Inv => CancelledHasStopped
  BY DEF XInv, RunsOK, ProcessesOK, CancelledHasStopped, CancelledMeansStopped, IsTerminal,
         Terminal, Past
<1> QED BY <1>1, <1>2, <1>3, PTL DEF MCSpec
=============================================================================
