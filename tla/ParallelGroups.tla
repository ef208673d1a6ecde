--------------------------- MODULE ParallelGroups ---------------------------
(***************************************************************************)
(* Parallel PowerShell command groups: the reservation of a group and its  *)
(* children, the initial launch, the refill of free slots by every process *)
(* that ends or cancels a child, the failure policy, cancellation of one   *)
(* child or of a group, the published aggregate, and the server's restart. *)
(*                                                                         *)
(* The children are durable runs without a repository lock (the launcher   *)
(* accepts no other policy).  One action is one transaction of the run     *)
(* database with the process operations up to the actor's next one.        *)
(*                                                                         *)
(* Abstractions.                                                           *)
(*  - reserve_next_launch gives a run its next lease only together with    *)
(*    its lock row.  A group child has none, so it keeps its first lease,  *)
(*    and each recorded pid is a Boolean.                                  *)
(*  - Processes are those of Windows, where PowerShell runs: terminating a *)
(*    process terminates the processes it started, and is confirmed.  The  *)
(*    window between Popen and attach_child_pid, unconfirmed terminations, *)
(*    artifact errors of the worker and publication are in DurableRun.     *)
(*  - heartbeat_at is compared only for runs without a live worker, except *)
(*    by an adoption, which a heartbeat may defeat.                        *)
(*  - Nothing reads what refresh_group writes but refresh_group, so the    *)
(*    groups of refresh_all_groups are refreshed in one step.              *)
(***************************************************************************)
EXTENDS Naturals, FiniteSets, SequencesExt

CONSTANTS
    Groups, Children,
    GroupOf,        \* the group of each child
    Position,       \* its position in the group
    Requested,      \* requested_concurrency of each group, or None
    MaxConcurrent,  \* max_concurrent_powershell, or None
    CancelRemaining,\* groups with failure_policy cancel_remaining_on_failure
    Clients,        \* request threads of the server, one request each
    Startup,        \* the server's startup thread
    None,
    Requests,       \* the cancellations clients may ask for
    Exits,          \* how PowerShell may end
    Faults,         \* the failures and races that may happen
    MaxCrashes      \* bound: how often the server process may die

AllFaults == {"spawn", "files", "worker_crash", "launch_race"}

ASSUME GroupsAssumption ==
    /\ GroupOf \in [Children -> Groups]
    /\ Position \in [Children -> Nat]
    /\ \A c, d \in Children :
         c # d /\ GroupOf[c] = GroupOf[d] => Position[c] # Position[d]
ASSUME FiniteAssumption == IsFiniteSet(Children)
ASSUME LimitsAssumption ==
    /\ None \notin Nat
    /\ MaxConcurrent \in (Nat \ {0}) \cup {None}
    /\ Requested \in [Groups -> (Nat \ {0}) \cup {None}]
    /\ \A g \in Groups : MaxConcurrent # None /\ Requested[g] # None
                           => Requested[g] <= MaxConcurrent
ASSUME ActorsAssumption ==
    /\ Clients \cap Children = {}
    /\ {Startup, None} \cap (Clients \cup Children) = {} /\ Startup # None
ASSUME ScopeAssumption ==
    /\ CancelRemaining \subseteq Groups
    /\ Requests \subseteq {"child", "group"}
    /\ Exits \subseteq {"completed", "failed", "timed_out"}
    /\ Faults \subseteq AllFaults
    /\ MaxCrashes \in Nat

Actors == Clients \cup Children \cup {Startup}

Terminal == {"completed", "failed", "cancelled", "timed_out"}
Active == {"launch_pending", "queued", "running", "cancellation_pending",
           "recovery_pending"}
Statuses == {"none", "pending"} \cup Active \cup Terminal
Phases == {"none", "pending", "launch_pending", "queued", "worker", "executable",
           "cancellation_pending", "recovery_pending", "result"}
GroupStatuses == {"none", "launch_pending", "running", "completed", "cancelled",
                  "failed", "partial"}

VARIABLES
    child,   \* the children's rows of the runs table
    group,   \* status and creation order of each command_groups row
    proc,    \* the worker process of each child and its PowerShell process
    act,     \* what each thread or exiting worker is doing
    server,  \* the server process
    spawned  \* history: how many workers were started for each child

vars == <<child, group, proc, act, server, spawned>>

NoRow == [status |-> "none", phase |-> "none", ver |-> 0, lpid |-> FALSE,
          wpid |-> FALSE, cpid |-> FALSE]
NoProc == [pc |-> "none", open |-> FALSE, ver |-> 0, out |-> "none", parent |-> None]
Unseen == [c \in Children |-> 0]
Idle == [kind |-> "none", pc |-> "idle", todo |-> <<>>, seen |-> Unseen,
         row |-> NoRow, rounds |-> 0]
Done == [Idle EXCEPT !.pc = "done"]

Rows == [status : Statuses, phase : Phases, ver : Nat, lpid : BOOLEAN,
         wpid : BOOLEAN, cpid : BOOLEAN]
Procs == [pc : {"none", "boot", "claim", "start", "run", "finish", "commit",
                "policy", "exit", "gone"},
          open : BOOLEAN, ver : Nat,
          out : {"none", "completed", "failed", "timed_out"},
          parent : Children \cup {None}]
Acts == [kind : {"none", "launch", "child", "group", "policy", "exit", "startup"},
         pc : {"idle", "files", "spawn", "record", "event", "fail", "read", "mark",
               "kill", "settle", "claim", "members", "refresh", "done"},
         todo : Seq(Children), seen : [Children -> Nat], row : Rows, rounds : 0..2]

Init ==
    /\ child = [c \in Children |-> NoRow]
    /\ group = [g \in Groups |-> [status |-> "none", created |-> 0]]
    /\ proc = [c \in Children |-> NoProc]
    /\ act = [a \in Actors |-> Idle]
    /\ server = [pc |-> "ready", todo |-> {}, crashes |-> 0,
                 listed |-> [c \in Children |-> NoRow]]
    /\ spawned = [c \in Children |-> 0]

----
(* Rows: RunStore's conditional updates. *)

IsTerminal(row) == row.status \in Terminal
Bump(row) == [row EXCEPT !.ver = @ + 1]
SetStatus(row, status) == [Bump(row) EXCEPT !.status = status, !.phase = status]
SetPhase(row, phase) ==
    IF row.phase = phase THEN row ELSE [Bump(row) EXCEPT !.phase = phase]
ToTerminal(row, status) ==
    [Bump(row) EXCEPT !.status = status, !.phase = "result"]
ToRunning(row) == [Bump(row) EXCEPT !.status = "running", !.phase = "worker", !.wpid = TRUE]
Launched(row) == [SetStatus(row, "queued") EXCEPT !.lpid = TRUE]
Save(c, row) == child' = [child EXCEPT ![c] = row]
MatchesAnyStatus(row, snap) ==  \* mutant: reject_terminal forgotten
    row.status = snap.status /\ row.ver = snap.ver
Matches(row, snap) ==
    row.status = snap.status /\ row.ver = snap.ver /\ ~IsTerminal(row)

Siblings(g) == {c \in Children : GroupOf[c] = g}
Ahead(c, d) == \/ group[GroupOf[c]].created < group[GroupOf[d]].created
               \/ GroupOf[c] = GroupOf[d] /\ Position[c] < Position[d]
\* The sequence of S in which each child is ahead of the later ones.
InOrder(S) == CHOOSE s \in [1..Cardinality(S) -> S] :
                \A i, j \in 1..Cardinality(S) : i < j => Ahead(s[i], s[j])

----
(* Processes. *)

Alive(c) == proc[c].pc \notin {"none", "gone"}

\* The live processes below c's worker: each started by one that is still alive.
Tree(c) ==
    {d \in Children : \A S \in SUBSET Children :
        (/\ c \in S
         /\ \A x \in S, y \in Children : proc[y].parent = x /\ Alive(x) => y \in S)
        => d \in S}
Gone == [NoProc EXCEPT !.pc = "gone"]

\* terminate_process_tree of c's worker: a process that has already stopped
\* has no tree any more.
KilledTree(c) == IF Alive(c) THEN {d \in Tree(c) : proc[d].pc # "none"} ELSE {}
AfterKill(K) == [d \in Children |-> IF d \in K THEN Gone ELSE proc[d]]
Stopped(b, K) == b \in K /\ act[b].pc # "idle"

ServerUp == server.pc = "ready"

\* An actor has c in hand to launch it.  Without "launch_race" no worker reads
\* and no cancellation marks a child that its launcher is still busy with.
Launching(a, c) == /\ act[a].pc \in {"files", "members", "spawn", "record", "event", "fail"}
                   /\ \E i \in DOMAIN act[a].todo : act[a].todo[i] = c
Undisturbed(c) == "launch_race" \in Faults \/ \A a \in Actors : ~Launching(a, c)
Booting(c) == "launch_race" \in Faults
              \/ \A a \in Actors : ~(act[a].pc \in {"record", "event"} /\ Head(act[a].todo) = c)

Become(a, rec) == act' = [act EXCEPT ![a] = rec]

----
(* ParallelGroupStore.refresh_group: the aggregate of the children's rows. *)

Aggregate(S) ==
    LET status == {child[c].status : c \in S}
    IN  IF status \subseteq Terminal
        THEN IF status = {"completed"} THEN "completed"
             ELSE IF status = {"cancelled"} THEN "cancelled"
             ELSE IF status \cap {"failed", "timed_out"} # {} THEN "failed"
             ELSE "partial"
        ELSE IF status \cap {"queued", "running", "cancellation_pending", "recovery_pending"} # {}
             THEN "running" ELSE "launch_pending"
RefreshedWithPending ==  \* mutant: only groups with pending children
    [g \in Groups |-> IF group[g].status = "none"
                         \/ \A c \in Siblings(g) : child[c].status # "pending" THEN group[g]
                      ELSE [group[g] EXCEPT !.status = Aggregate(Siblings(g))]]
Refreshed ==
    [g \in Groups |-> IF group[g].status = "none" THEN group[g]
                      ELSE [group[g] EXCEPT !.status = Aggregate(Siblings(g))]]

----
(* launch_powershell_group *)

\* effective_limit, and the children it makes eligible at once.
Limit(g) == IF Requested[g] = None THEN MaxConcurrent ELSE Requested[g]
EligibleOneMore(g) ==  \* mutant: index <= eligible_count
    {c \in Siblings(g) : Limit(g) = None
       \/ Cardinality({d \in Siblings(g) : Position[d] < Position[c]}) <= Limit(g)}
Eligible(g) ==
    {c \in Siblings(g) : Limit(g) = None
       \/ Cardinality({d \in Siblings(g) : Position[d] < Position[c]}) < Limit(g)}

\* reserve_group: the group and all its children in one transaction.
NewChild(status) == [NoRow EXCEPT !.status = status, !.phase = status]
ReserveGroup(a, g) ==
    /\ ServerUp
    /\ act[a].pc = "idle"
    /\ group[g].status = "none" /\ Siblings(g) # {}
    /\ group' = [group EXCEPT ![g] =
                   [status |-> "launch_pending",
                    created |-> 1 + Cardinality({h \in Groups : group[h].created > 0})]]
    /\ child' = [c \in Children |->
                   IF GroupOf[c] # g THEN child[c]
                   ELSE NewChild(IF c \in Eligible(g) THEN "launch_pending" ELSE "pending")]
    /\ Become(a, [Idle EXCEPT !.kind = "launch", !.pc = "files",
                              !.todo = InOrder(Eligible(g))])
    /\ UNCHANGED <<proc, server, spawned>>

\* Run directories, input artifacts and the first events; an error is raised to
\* the client and leaves the rows as they are.
Materialize(a) ==
    /\ act[a].pc = "files"
    /\ \/ Become(a, [act[a] EXCEPT !.pc = "spawn"])
       \/ "files" \in Faults /\ Become(a, Done)
    /\ UNCHANGED <<child, group, proc, server, spawned>>

----
(* Launching the children in hand: the loop of launch_powershell_group, and
   _launch_claimed_child for the claims of a refill. *)

NextLaunch(a) ==
    LET rest == Tail(act[a].todo)
        pc == IF rest # <<>> THEN "spawn"
              ELSE IF act[a].kind = "launch" THEN "done" ELSE "refresh"
    IN  Become(a, IF pc = "done" THEN Done
                  ELSE [act[a] EXCEPT !.pc = pc, !.todo = rest, !.row = NoRow,
                                    !.seen[Head(act[a].todo)] = 0])

\* Popen; the launcher of a group has just read the row, a refill read it when
\* it claimed the child.
SpawnChild(a) ==
    /\ act[a].pc = "spawn"
    /\ LET c == Head(act[a].todo)
       IN  \/ /\ proc' = [proc EXCEPT ![c] =
                            [NoProc EXCEPT !.pc = "boot",
                                           !.parent = IF a \in Children THEN a ELSE None]]
              /\ spawned' = [spawned EXCEPT ![c] = @ + 1]
              /\ Become(a, [act[a] EXCEPT !.pc = "record",
                              !.seen[c] = IF act[a].kind = "launch" THEN child[c].ver ELSE @])
           \/ /\ "spawn" \in Faults
              /\ Become(a, [act[a] EXCEPT !.pc = "fail", !.row = child[c]])
              /\ UNCHANGED <<proc, spawned>>
    /\ UNCHANGED <<child, group, server>>

\* record_worker_launch; a child that is neither queued nor running by then has
\* been taken away, and the process just started is terminated.
RecordChild(a) ==
    /\ act[a].pc = "record"
    /\ LET c == Head(act[a].todo)
           won == child[c].status = "launch_pending" /\ child[c].ver = act[a].seen[c]
           row == IF won THEN Launched(child[c]) ELSE child[c]
       IN  /\ Save(c, row)
           /\ IF row.status \in {"queued", "running"}
              THEN Become(a, [act[a] EXCEPT !.pc = "event"]) /\ UNCHANGED proc
              ELSE /\ proc' = AfterKill(KilledTree(c))
                   /\ act' = [b \in Actors |->
                                IF Stopped(b, KilledTree(c)) THEN Done
                                ELSE IF b = a THEN [act[a] EXCEPT !.pc = "fail", !.row = row]
                                ELSE act[b]]
    /\ UNCHANGED <<group, server, spawned>>

\* append_event(stage="worker") writes the phase whatever the status is.
EventChild(a) ==
    /\ act[a].pc = "event"
    /\ Save(Head(act[a].todo), SetPhase(child[Head(act[a].todo)], "worker"))
    /\ NextLaunch(a)
    /\ UNCHANGED <<group, proc, server, spawned>>

\* The except clause: fail_infrastructure under the row just read.
FailChild(a) ==
    /\ act[a].pc = "fail"
    /\ LET c == Head(act[a].todo)
       IN  Save(c, IF Matches(child[c], act[a].row)
                   THEN ToTerminal(child[c], "failed") ELSE child[c])
    /\ NextLaunch(a)
    /\ UNCHANGED <<group, proc, server, spawned>>

----
(* refill_powershell_groups *)

IsActive(c) == child[c].status \in Active
IsPending(c) == child[c].status = "pending"
Free(limit, S) ==
    LET active == Cardinality({c \in S : IsActive(c)})
    IN  IF limit = None THEN Cardinality(Children)
        ELSE IF active < limit THEN limit - active ELSE 0

\* claim_pending_launches: in creation order, each group's first pending
\* children up to its free slots, all together up to the global ones.
InGroupSlots(c) ==
    /\ IsPending(c)
    /\ Cardinality({d \in Siblings(GroupOf[c]) : IsPending(d) /\ Position[d] < Position[c]})
         < Free(Requested[GroupOf[c]], Siblings(GroupOf[c]))
ClaimableIgnoringGlobal ==  \* mutant: the global limit is checked per group only
    {c \in Children : InGroupSlots(c)}
Claimable ==
    LET first == {c \in Children : InGroupSlots(c)}
    IN  {c \in first : Cardinality({d \in first : Ahead(d, c)}) < Free(MaxConcurrent, Children)}
Claimed == [c \in Children |-> IF c \in Claimable THEN SetStatus(child[c], "launch_pending")
                                                  ELSE child[c]]
ClaimPending(a) ==
    /\ act[a].pc = "claim"
    /\ group' = Refreshed
    /\ child' = Claimed
    /\ Become(a, [act[a] EXCEPT !.pc = "members", !.todo = InOrder(Claimable),
                                !.seen = [c \in Children |->
                                            IF c \in Claimable THEN child[c].ver + 1 ELSE 0]])
    /\ UNCHANGED <<proc, server, spawned>>

\* The memberships query: a claim that is no longer launch_pending is skipped.
ReadMembers(a) ==
    /\ act[a].pc = "members"
    /\ LET todo == InOrder({c \in Range(act[a].todo) : child[c].status = "launch_pending"})
       IN  Become(a, [act[a] EXCEPT !.pc = IF todo = <<>> THEN "refresh" ELSE "spawn",
                                    !.todo = todo])
    /\ UNCHANGED <<child, group, proc, server, spawned>>

\* The last refresh_all_groups; a worker that enforced a policy refills twice.
EndRefill(a) ==
    /\ act[a].pc = "refresh"
    /\ group' = Refreshed
    /\ IF act[a].rounds > 1
       THEN Become(a, [act[a] EXCEPT !.pc = "claim", !.rounds = @ - 1, !.seen = Unseen])
       ELSE Become(a, IF a = Startup THEN Idle ELSE Done)
    /\ proc' = IF a \in Children /\ act[a].rounds = 1
               THEN [proc EXCEPT ![a] = Gone] ELSE proc
    /\ server' = IF a = Startup THEN [server EXCEPT !.pc = "ready"] ELSE server
    /\ UNCHANGED <<child, spawned>>

----
(* The worker process of child c: JobWorker.execute and main. *)

SetProc(c, p) == proc' = [proc EXCEPT ![c] = p]

WorkerRead(c) ==
    /\ proc[c].pc = "boot"
    /\ Booting(c)
    /\ SetProc(c, [proc[c] EXCEPT !.pc = IF child[c].status = "cancelled" THEN "policy" ELSE "claim",
                                  !.ver = child[c].ver])
    /\ UNCHANGED <<child, group, act, server, spawned>>

WorkerClaim(c) ==
    /\ proc[c].pc = "claim"
    /\ IF child[c].status \in {"launch_pending", "queued"} /\ child[c].ver = proc[c].ver
       THEN Save(c, ToRunning(child[c])) /\ SetProc(c, [proc[c] EXCEPT !.pc = "start"])
       ELSE SetProc(c, [proc[c] EXCEPT !.pc = "policy"]) /\ UNCHANGED child
    /\ UNCHANGED <<group, act, server, spawned>>

\* Start PowerShell and attach its pid; without the lease, or if Popen raises,
\* the result is a failure.
Attached(row) == [Bump(SetPhase(row, "executable")) EXCEPT !.cpid = TRUE]
StartChild(c) ==
    /\ proc[c].pc = "start"
    /\ \/ /\ child[c].status = "running"
          /\ Save(c, Attached(child[c]))
          /\ SetProc(c, [proc[c] EXCEPT !.pc = "run", !.open = TRUE])
       \/ /\ SetProc(c, [proc[c] EXCEPT !.pc = "finish", !.out = "failed"])
          /\ UNCHANGED child
    /\ UNCHANGED <<group, act, server, spawned>>

\* PowerShell exits, or its timeout expires and it is terminated.
EndChild(c) ==
    /\ proc[c].pc = "run"
    /\ \E out \in Exits :
         SetProc(c, [proc[c] EXCEPT !.pc = "finish", !.open = FALSE, !.out = out])
    /\ UNCHANGED <<child, group, act, server, spawned>>

WorkerFinish(c) ==
    /\ proc[c].pc = "finish"
    /\ SetProc(c, [proc[c] EXCEPT !.pc = "commit", !.ver = child[c].ver])
    /\ UNCHANGED <<child, group, act, server, spawned>>

WorkerCommit(c) ==
    /\ proc[c].pc = "commit"
    /\ Save(c, IF child[c].status = "running" /\ child[c].ver = proc[c].ver
               THEN ToTerminal(child[c], proc[c].out) ELSE child[c])
    /\ SetProc(c, [proc[c] EXCEPT !.pc = "policy"])
    /\ UNCHANGED <<group, act, server, spawned>>

\* main after execute: enforce_powershell_group_failure_policy lists the open
\* siblings if this child failed; then a refill.
Exiting(p) == [NoProc EXCEPT !.pc = "exit", !.parent = p.parent]
EnforcePolicy(c) ==
    /\ proc[c].pc = "policy"
    /\ SetProc(c, Exiting(proc[c]))
    /\ LET enforced == /\ GroupOf[c] \in CancelRemaining
                       /\ child[c].status \in {"failed", "timed_out"}
           others == InOrder({d \in Siblings(GroupOf[c]) \ {c} : ~IsTerminal(child[d])})
       IN  Become(c, IF enforced
                     THEN [Idle EXCEPT !.kind = "policy", !.rounds = 2, !.todo = others,
                                       !.pc = IF others = <<>> THEN "claim" ELSE "read"]
                     ELSE [Idle EXCEPT !.kind = "exit", !.rounds = 1, !.pc = "claim"])
    /\ UNCHANGED <<child, group, server, spawned>>

\* The worker process dies; PowerShell survives it.
WorkerCrash(c) ==
    /\ "worker_crash" \in Faults
    /\ Alive(c)
    /\ SetProc(c, [Gone EXCEPT !.open = proc[c].open])
    /\ act' = IF act[c].pc # "idle" THEN [act EXCEPT ![c] = Done] ELSE act
    /\ UNCHANGED <<child, group, server, spawned>>

\* PowerShell without its worker ends.
OrphanExit(c) ==
    /\ proc[c].pc = "gone" /\ proc[c].open
    /\ SetProc(c, [proc[c] EXCEPT !.open = FALSE])
    /\ UNCHANGED <<child, group, act, server, spawned>>

----
(* Cancellation: cancel_run of the children in hand, by a client (one child or
   a group) or by the worker of a failed sibling. *)

CancelRun(a, c) ==
    /\ ServerUp
    /\ "child" \in Requests
    /\ act[a].pc = "idle"
    /\ child[c].status # "none"
    /\ Become(a, [Idle EXCEPT !.kind = "child", !.pc = "read", !.todo = <<c>>, !.rounds = 1])
    /\ UNCHANGED <<child, group, proc, server, spawned>>

\* cancel_powershell_group: children without a process first.
CancelGroup(a, g) ==
    /\ ServerUp
    /\ "group" \in Requests
    /\ act[a].pc = "idle"
    /\ group[g].status # "none"
    /\ LET open == {c \in Siblings(g) : ~IsTerminal(child[c])}
           early == {c \in open : child[c].status \in
                       {"pending", "launch_pending", "queued", "recovery_pending"}}
           todo == InOrder(early) \o InOrder(open \ early)
       IN  Become(a, [Idle EXCEPT !.kind = "group", !.rounds = 1, !.todo = todo,
                                  !.pc = IF todo = <<>> THEN "claim" ELSE "read"])
    /\ UNCHANGED <<child, group, proc, server, spawned>>

\* A single cancellation refills only if it was this call that cancelled.
AfterCancelNoRefill(a, won) ==  \* mutant: a cancelled child's slot is not refilled
    LET rest == Tail(act[a].todo)
    IN  IF rest # <<>> THEN [act[a] EXCEPT !.pc = "read", !.todo = rest, !.row = NoRow]
        ELSE IF act[a].kind = "child" THEN Done
        ELSE [act[a] EXCEPT !.pc = "claim", !.todo = <<>>, !.row = NoRow]
AfterCancel(a, won) ==
    LET rest == Tail(act[a].todo)
    IN  IF rest # <<>> THEN [act[a] EXCEPT !.pc = "read", !.todo = rest, !.row = NoRow]
        ELSE IF act[a].kind = "child" /\ ~won THEN Done
        ELSE [act[a] EXCEPT !.pc = "claim", !.todo = <<>>, !.row = NoRow]

CancelRead(a) ==
    /\ act[a].pc = "read"
    /\ LET row == child[Head(act[a].todo)]
       IN  Become(a, IF IsTerminal(row) \/ row.status = "cancellation_pending"
                     THEN AfterCancel(a, FALSE)
                     ELSE [act[a] EXCEPT !.pc = "mark", !.row = row])
    /\ UNCHANGED <<child, group, proc, server, spawned>>

CancelMark(a) ==
    /\ act[a].pc = "mark"
    /\ LET c == Head(act[a].todo)
       IN  /\ Undisturbed(c)
           /\ IF Matches(child[c], act[a].row)
              THEN /\ Save(c, SetStatus(child[c], "cancellation_pending"))
                   /\ Become(a, [act[a] EXCEPT !.pc = "kill"])
              ELSE Become(a, AfterCancel(a, FALSE)) /\ UNCHANGED child
    /\ UNCHANGED <<group, proc, server, spawned>>

\* Terminate the recorded processes with their trees, the canceller's own
\* process included if it is one of them; finish_cancel then reads the version.
CancelKill(a) ==
    /\ act[a].pc = "kill"
    /\ LET c == Head(act[a].todo)
           s == act[a].row
           K == IF s.lpid \/ s.wpid THEN KilledTree(c) ELSE {}
       IN  /\ proc' = [AfterKill(K) EXCEPT ![c].open = @ /\ ~s.cpid]
           /\ act' = [b \in Actors |->
                        IF Stopped(b, K) THEN Done
                        ELSE IF b = a THEN [act[a] EXCEPT !.pc = "settle", !.row = child[c]]
                        ELSE act[b]]
    /\ UNCHANGED <<child, group, server, spawned>>

CancelFinish(a) ==
    /\ act[a].pc = "settle"
    /\ LET c == Head(act[a].todo)
           won == child[c].status = "cancellation_pending" /\ child[c].ver = act[a].row.ver
       IN  /\ Save(c, IF won THEN ToTerminal(child[c], "cancelled") ELSE child[c])
           /\ Become(a, AfterCancel(a, won))
    /\ UNCHANGED <<group, proc, server, spawned>>

----
(* The server: crash, restart and reconcile_startup. *)

ServerCrash ==
    /\ server.pc # "down"
    /\ server.crashes < MaxCrashes
    /\ server' = [server EXCEPT !.pc = "down", !.crashes = @ + 1, !.todo = {},
                                !.listed = [c \in Children |-> NoRow]]
    /\ act' = [a \in Actors |->
                 IF a \in Children \/ act[a].pc = "idle" THEN act[a]
                 ELSE IF a = Startup THEN Idle ELSE Done]
    /\ UNCHANGED <<child, group, proc, spawned>>

ServerRestart ==
    /\ server.pc = "down"
    /\ LET todo == {c \in Children : IsActive(c)}
       IN  server' = [server EXCEPT !.pc = "runs", !.todo = todo,
                        !.listed = [c \in Children |-> IF c \in todo THEN child[c] ELSE NoRow]]
    /\ UNCHANGED <<child, group, proc, act, spawned>>

\* _reconcile_run on the row listed: adopt a live worker, hold a run whose
\* PowerShell outlived its worker, fail one whose worker died.  A child that no
\* worker claimed is relaunched only with its lock row, so it stays as it is.
ReconciledIgnoringChild(c) ==  \* mutant: a live PowerShell does not count
    LET s == server.listed[c]
        row == child[c]
    IN  IF s.wpid /\ Alive(c)
        THEN {row} \cup (IF s.status = "running" /\ Matches(row, s)
                         THEN {[Bump(row) EXCEPT !.phase = "worker"]} ELSE {})
        ELSE {IF s.status = "running" /\ Matches(row, s)
              THEN ToTerminal(row, "failed") ELSE row}
Reconciled(c) ==
    LET s == server.listed[c]
        row == child[c]
    IN  IF s.wpid /\ Alive(c)
        THEN {row} \cup (IF s.status = "running" /\ Matches(row, s)
                         THEN {[Bump(row) EXCEPT !.phase = "worker"]} ELSE {})
        ELSE IF s.cpid /\ proc[c].open
        THEN {IF Matches(row, s) THEN SetStatus(row, "recovery_pending") ELSE row}
        ELSE {IF s.status = "running" /\ Matches(row, s)
              THEN ToTerminal(row, "failed") ELSE row}
ReconcileRun(c) ==
    /\ server.pc = "runs" /\ c \in server.todo
    /\ \E row \in Reconciled(c) : Save(c, row)
    /\ server' = [server EXCEPT !.todo = @ \ {c}, !.listed[c] = NoRow]
    /\ UNCHANGED <<group, proc, act, spawned>>

\* All runs are dealt with: the startup refill, after which requests are served.
ReconcileRefill ==
    /\ server.pc = "runs" /\ server.todo = {}
    /\ server' = [server EXCEPT !.pc = "refill"]
    /\ Become(Startup, [Idle EXCEPT !.kind = "startup", !.pc = "claim", !.rounds = 1])
    /\ UNCHANGED <<child, group, proc, spawned>>

----
LaunchStep(a) == Materialize(a) \/ SpawnChild(a) \/ RecordChild(a)
                 \/ EventChild(a) \/ FailChild(a)
RefillStep(a) == ClaimPending(a) \/ ReadMembers(a) \/ EndRefill(a)
CancelStep(a) == CancelRead(a) \/ CancelMark(a) \/ CancelKill(a) \/ CancelFinish(a)
WorkerStep(c) == WorkerRead(c) \/ WorkerClaim(c) \/ StartChild(c) \/ WorkerFinish(c)
                 \/ WorkerCommit(c) \/ EnforcePolicy(c)
RestartStep == ServerRestart \/ ReconcileRefill \/ \E c \in Children : ReconcileRun(c)

Next ==
    \/ \E a \in Clients, g \in Groups : ReserveGroup(a, g) \/ CancelGroup(a, g)
    \/ \E a \in Clients, c \in Children : CancelRun(a, c)
    \/ \E a \in Actors : LaunchStep(a) \/ RefillStep(a) \/ CancelStep(a)
    \/ \E c \in Children : WorkerStep(c) \/ EndChild(c) \/ OrphanExit(c) \/ WorkerCrash(c)
    \/ ServerCrash \/ RestartStep

Spec == Init /\ [][Next]_vars

\* Every thread and process goes on, PowerShell ends (its profile has a
\* timeout), a dead server is restarted.  Nothing makes a client ask.
Fairness ==
    /\ \A a \in Actors : WF_vars(LaunchStep(a) \/ RefillStep(a) \/ CancelStep(a))
    /\ \A c \in Children : WF_vars(WorkerStep(c)) /\ WF_vars(EndChild(c))
                           /\ WF_vars(OrphanExit(c))
    /\ WF_vars(RestartStep)
FairSpec == Spec /\ Fairness

----
TypeOK ==
    /\ child \in [Children -> Rows]
    /\ group \in [Groups -> [status : GroupStatuses, created : Nat]]
    /\ proc \in [Children -> Procs]
    /\ act \in [Actors -> Acts]
    /\ server \in [pc : {"ready", "down", "runs", "refill"}, todo : SUBSET Children,
                   crashes : Nat, listed : [Children -> Rows]]
    /\ spawned \in [Children -> Nat]

\* A child takes up a slot from its launch intent until its row is terminal; a
\* child that is cancelled before it was launched never does.
InFlight(row) ==
    \/ row.status \in {"launch_pending", "queued", "running"}
    \/ row.status \in {"cancellation_pending", "recovery_pending"} /\ (row.lpid \/ row.wpid)
FlyingIn(S) == {c \in S : InFlight(child[c])}
Occupied(S) == Cardinality(FlyingIn(S))

\* However launches, refills, cancellations and restarts interleave, one worker
\* at most is ever started for a child (claim_pending_launches, reconcile).
SpawnedOnce == \A c \in Children : spawned[c] <= 1

\* A PowerShell process is open only under a row that holds its slot: no
\* cancellation, failure or recovery frees the slot while it still runs.
OpenHoldsSlot == \A c \in Children : proc[c].open => InFlight(child[c])

\* A group with a requested concurrency never occupies more slots than that.
GroupLimit ==
    \A g \in Groups : Requested[g] # None => Occupied(Siblings(g)) <= Requested[g]

\* A refill never takes the number of occupied slots beyond the global limit;
\* only the reservation of a new group may.
RefillKeepsGlobalLimit ==
    [][\/ \E g \in Groups : group[g].status = "none" /\ group'[g].status # "none"
       \/ MaxConcurrent = None
       \/ Occupied(Children)' <= Occupied(Children)
       \/ Occupied(Children)' <= MaxConcurrent]_vars

\* A group reported as ended has ended: every child is terminal and the
\* published status is theirs, whatever was launched after the refresh.
EndedGroupIsFinal ==
    \A g \in Groups :
        group[g].status \in {"completed", "cancelled", "failed", "partial"} =>
            /\ \A c \in Siblings(g) : IsTerminal(child[c])
            /\ group[g].status = Aggregate(Siblings(g))

\* Each child is a run of RunLifecycle: it executes at most once and settles
\* once, whichever of its launchers, cancellers and recoveries come first.
Life(c) ==
    CASE child[c].status = "none" -> "absent"
      [] child[c].status \in {"pending", "launch_pending", "queued"} -> "waiting"
      [] child[c].status = "running" -> "executing"
      [] child[c].status = "cancellation_pending" -> "stopping"
      [] child[c].status = "recovery_pending" -> "held"
      [] OTHER -> child[c].status
Child(c) == INSTANCE RunLifecycle WITH Runs <- {c}, life <- [x \in {c} |-> Life(x)]
ChildrenAreRuns ==
    [][\A c \in Children : Child(c)!Next \/ Life(c)' = Life(c)]_vars

\* "excess children remain durably pending and launch as process slots become
\* available" (docs): no child is forgotten in the queue.
PendingLaunched == []<>(\A c \in Children : ~IsPending(c))

\* "terminal children cannot leave the parent permanently stale" (docs): once
\* all children have ended the published group status ends too.
EndedGroupIsPublished ==
    []<>(\A g \in Groups :
            group[g].status # "none" /\ (\A c \in Siblings(g) : IsTerminal(child[c])) =>
                group[g].status \in {"completed", "cancelled", "failed", "partial"})
=============================================================================
