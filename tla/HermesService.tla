----------------------------- MODULE HermesService -----------------------------
(***************************************************************************)
(* The shared Hermes service: a gateway that turns every call into a       *)
(* recorded request, a runtime that keeps one pool of leased worker        *)
(* processes per registry generation, and a supervisor that replaces dead  *)
(* workers, reloads the registry and shuts everything down.                *)
(*                                                                         *)
(* Requests, the canceller, the reloader and the closer are threads of one *)
(* process; a step is what one of them does under one lock.  Generations   *)
(* strictly increase, so a generation names its pool.                      *)
(***************************************************************************)
EXTENDS Naturals, FiniteSets, FiniteSetsExt

CONSTANTS
    NumRequests,    \* gateway.execute calls
    NumSlots,       \* worker_count
    MaxReplacements,  \* MAX_REPLACEMENTS_PER_MAINTENANCE
    Limited,        \* requests for a tool that a ToolLimitRule matches
    ToolLimit,      \* max_concurrent of that rule
    KeysOf,         \* the resource keys a request may name, "none" for no key
    MaxGeneration,  \* bound: registry generations
    MaxWorkers,     \* bound: worker processes ever launched
    MaxEvents       \* bound: cancellations, registry changes, closing, worker
                    \* deaths, refused responses and failed launches together

\* What the constants must be.
HermesConstants ==
    /\ NumRequests \in Nat /\ NumSlots \in Nat \ {0} /\ ToolLimit \in Nat \ {0}
    /\ MaxGeneration \in Nat \ {0} /\ MaxReplacements \in Nat \ {0} /\ MaxEvents \in Nat
    /\ MaxWorkers \in Nat /\ MaxWorkers >= NumSlots
    /\ DOMAIN KeysOf = 1..NumRequests
    /\ Limited \subseteq 1..NumRequests

Requests    == 1..NumRequests
Slots       == 1..NumSlots
Generations == 1..MaxGeneration
Workers     == 1..MaxWorkers
Canceller   == NumRequests + 1
Reloader    == NumRequests + 2
Closer      == NumRequests + 3
Threads     == 1..(NumRequests + 3)

VARIABLES
    registry,   \* the generation a companion launched now would publish
    attached,   \* the supervisor still has its runtime
    service,    \* HermesServiceRuntime._state
    current,    \* generation of _current_pool
    pool,       \* the generation pools
    worker,     \* the worker processes
    recorded,   \* HermesServiceSupervisor._workers
    proc,       \* the threads
    cancelled,  \* requests whose gateway entry was marked cancelled
    flagged,    \* requests whose runtime entry got cancel_requested
    record,     \* run store: the status of every request's run
    executions, \* how often an operation was handed to a worker or a fallback
    cancels,    \* how many cancellations were started
    upsets,     \* how many workers died, failed to launch or answered wrongly
    events      \* how many of the bounded events happened

vars == <<registry, attached, service, current, pool, worker, recorded, proc,
          cancelled, flagged, record, executions, cancels, upsets, events>>

lifeVars    == <<registry, attached, service, current, recorded>>
cancelVars  == <<cancelled, flagged, cancels>>
publicVars  == <<record, executions>>

NoWorker == [state |-> "unborn", gen |-> 0, active |-> 0]
NoPool   == [slots |-> [s \in Slots |-> 0], lease |-> [s \in Slots |-> 0],
             refs |-> 0, draining |-> FALSE, closed |-> FALSE]
NoThread == [pc |-> "idle", key |-> "none", expected |-> 0, gen |-> 0, slot |-> 0, target |-> 0,
             todo |-> {}, spare |-> 0, holds |-> {}, outcome |-> "none"]

At(t, pc) == proc[t].pc = pc

\* PersistentHermesWorker.ready: neither closed nor exited.
Ready(w) == worker[w].state = "live"

\* the requests in _active_requests, from registration to the finally clause
Listed(r) == proc[r].pc \in {"waiting", "leased", "dispatching", "serving",
                             "answered", "raised"}

\* PersistentHermesWorker.close, for every worker of a set
Closed(ws) == [w \in Workers |->
    IF w \in ws /\ worker[w].state = "live"
    THEN [worker[w] EXCEPT !.state = "ended"] ELSE worker[w]]

\* the worker ids that no process has used
Unborn == {w \in Workers : worker[w].state = "unborn"}

Event == events < MaxEvents /\ events' = events + 1
Upset == Event /\ upsets' = upsets + 1
upsetVars == <<upsets, events>>

----
(***************************************************************************)
(* The generation pools.                                                   *)
(***************************************************************************)

PoolWorkers(p) == {p.slots[s] : s \in Slots}
ActiveLeases(p) == {s \in Slots : p.lease[s] # 0}

\* _collect_closeable_locked
Closeable(p) ==
    /\ p.draining /\ ~p.closed
    /\ p.refs = 0
    /\ ActiveLeases(p) = {}

\* _GenerationPool.replace_worker: the conditions that do not raise
Replaceable(g, s, old, new) ==
    /\ ~pool[g].closed
    /\ pool[g].slots[s] = old
    /\ pool[g].lease[s] = 0
    /\ ~Ready(old)
    /\ Ready(new) /\ worker[new].gen = g

----
(***************************************************************************)
(* A request: HermesServiceGateway.execute down to the worker and back.    *)
(***************************************************************************)

\* _request_scopes: the first scope a request still has to enter
ScopeAfter(r, key, held) ==
    CASE r \in Limited /\ "tool" \notin held -> "called"
      [] key # "none" /\ (r \in Limited => "tool" \in held) -> "tooled"
      [] OTHER -> "scoped"

\* The caller bound the request to the generation it saw; the run is created
\* and the gateway entry registered.
Execute(r) ==
    /\ At(r, "idle") /\ attached
    /\ \E key \in KeysOf[r] :
         proc' = [proc EXCEPT ![r] = [NoThread EXCEPT !.pc = ScopeAfter(r, key, {}),
                                                     !.key = key, !.expected = current]]
    /\ record' = [record EXCEPT ![r] = "running"]
    /\ UNCHANGED <<lifeVars, pool, worker, cancelVars, executions, upsetVars>>

Holding(scope) == {r \in Requests : scope \in proc[r].holds}

\* A scope that does not come in time raises HermesConcurrencyError; whatever
\* the request held is released.
ScopeTimeout(r) ==
    proc' = [proc EXCEPT ![r].pc = "returned", ![r].holds = {},
                         ![r].outcome = "busy"]

\* ToolConcurrencyPolicy.acquire
EnterTool(r) ==
    /\ At(r, "called")
    /\ IF Cardinality(Holding("tool")) < ToolLimit
       THEN proc' = [proc EXCEPT ![r].pc = ScopeAfter(r, proc[r].key, {"tool"}),
                               ![r].holds = {"tool"}]
       ELSE ScopeTimeout(r)
    /\ UNCHANGED <<lifeVars, pool, worker, cancelVars, publicVars, upsetVars>>

ResourceBusy(r) ==
    \E q \in Holding("resource") : proc[q].key = proc[r].key

\* ResourceMutationLocks.acquire
EnterResource(r) ==
    /\ At(r, "tooled")
    /\ IF ~ResourceBusy(r)
       THEN proc' = [proc EXCEPT ![r].pc = "scoped",
                                 ![r].holds = @ \cup {"resource"}]
       ELSE ScopeTimeout(r)
    /\ UNCHANGED <<lifeVars, pool, worker, cancelVars, publicVars, upsetVars>>

\* HermesServiceRuntime.execute under the state lock
Admitted(r) ==
    CASE service # "ready"            -> "not_ready"
      [] service = "ready" /\ proc[r].expected = current -> "waiting"
      [] OTHER                        -> "drift"

\* The pool is retained and the request registered.  After the supervisor let
\* go of its runtime, a thread may find it gone or have fetched it before.
Retain(r) ==
    /\ At(r, "scoped")
    /\ \/ /\ ~attached
          /\ proc' = [proc EXCEPT ![r].pc = "returned", ![r].outcome = "not_ready"]
          /\ UNCHANGED pool
       \/ /\ Admitted(r) = "waiting"
          /\ proc' = [proc EXCEPT ![r].pc = "waiting", ![r].gen = current]
          /\ pool' = [pool EXCEPT ![current].refs = @ + 1]
       \/ /\ Admitted(r) # "waiting"
          /\ proc' = [proc EXCEPT ![r].pc = "scanning", ![r].outcome = Admitted(r)]
          /\ UNCHANGED pool
    /\ UNCHANGED <<lifeVars, worker, cancelVars, publicVars, upsetVars>>

FreeSlots(g) == {s \in Slots : pool[g].lease[s] = 0 /\ Ready(pool[g].slots[s])}

\* _GenerationPool.lease: the first free slot with a ready worker
Lease(r) ==
    /\ At(r, "waiting")
    /\ ~pool[proc[r].gen].closed
    /\ FreeSlots(proc[r].gen) # {}
    /\ LET s == Min(FreeSlots(proc[r].gen)) IN
         /\ pool' = [pool EXCEPT ![proc[r].gen].lease[s] = r]
         /\ proc' = [proc EXCEPT ![r].pc = "leased", ![r].slot = s]
    /\ UNCHANGED <<lifeVars, worker, cancelVars, publicVars, upsetVars>>

\* The wait for a worker ends without one.
LeaseTimeout(r) ==
    /\ At(r, "waiting")
    /\ FreeSlots(proc[r].gen) = {}
    /\ proc' = [proc EXCEPT ![r].pc = "raised", ![r].outcome = "not_ready"]
    /\ UNCHANGED <<lifeVars, pool, worker, cancelVars, publicVars, upsetVars>>

\* Under _active_lock: the slot becomes known to cancel, and a cancellation
\* that came first stops the request here.
CheckCancelled(r) ==
    /\ At(r, "leased")
    /\ proc' = [proc EXCEPT ![r] =
         IF r \in flagged
         THEN [@ EXCEPT !.pc = "raised", !.outcome = "ownership"]
         ELSE [@ EXCEPT !.pc = "dispatching"]]
    /\ UNCHANGED <<lifeVars, pool, worker, cancelVars, publicVars, upsetVars>>

Leased(r) == pool[proc[r].gen].slots[proc[r].slot]

\* PersistentHermesWorker.dispatch up to the write of the request line
Dispatch(r) ==
    /\ At(r, "dispatching")
    /\ LET w == Leased(r) IN
         IF Ready(w) /\ worker[w].active = 0
         THEN /\ worker' = [worker EXCEPT ![w].active = r]
              /\ proc' = [proc EXCEPT ![r].pc = "serving"]
              /\ executions' = [executions EXCEPT ![r] = @ + 1]
         ELSE /\ proc' = [proc EXCEPT ![r].pc = "raised",
                                      ![r].outcome = "service_error"]
              /\ UNCHANGED <<worker, executions>>
    /\ UNCHANGED <<lifeVars, pool, cancelVars, record, upsetVars>>

Answered(r, outcome) ==
    proc' = [proc EXCEPT ![r] = [@ EXCEPT !.pc = "answered", !.outcome = outcome]]

\* _exchange returns the response line, or the end of a dead worker's output;
\* _validate_worker_response refuses a response of another operation
\* ("service_error") or of another generation ("rejected").
Answer(r) ==
    /\ At(r, "serving")
    /\ \/ /\ Answered(r, IF Ready(Leased(r)) THEN "served" ELSE "service_error")
          /\ UNCHANGED upsetVars
       \/ /\ Ready(Leased(r)) /\ Upset
          /\ \E outcome \in {"rejected", "service_error"} : Answered(r, outcome)
    /\ UNCHANGED <<lifeVars, pool, worker, cancelVars, publicVars>>

\* the pool after a request gave back its slot and its reference
Without(r) ==
    LET p == pool[proc[r].gen]
        s == proc[r].slot
    IN [p EXCEPT !.lease = IF s = 0 THEN @ ELSE [@ EXCEPT ![s] = 0],
                 !.refs = @ - 1]

\* The finally clauses of dispatch and runtime.execute: the worker's active
\* request is cleared, the request is no longer listed, slot and reference are
\* released, and a drained pool closes.
Leave(r) ==
    /\ proc[r].pc \in {"answered", "raised"}
    /\ LET p == Without(r)
           shut == Closeable(p)
       IN /\ pool' = [pool EXCEPT ![proc[r].gen] = [p EXCEPT !.closed = @ \/ shut]]
          /\ worker' = [w \in Workers |->
               [Closed(IF shut THEN PoolWorkers(p) ELSE {})[w] EXCEPT
                  !.active = IF @ = r THEN 0 ELSE @]]
    /\ proc' = [proc EXCEPT ![r].pc = "scanning", ![r].slot = 0]
    /\ UNCHANGED <<lifeVars, cancelVars, publicVars, upsetVars>>

\* gateway.execute's except clauses: the run's status, and whether the
\* one-request companion is started instead
Status(r) ==
    CASE proc[r].outcome = "served"    -> [status |-> "completed", fallback |-> FALSE]
      [] proc[r].outcome = "not_ready" -> [status |-> "failed",    fallback |-> TRUE]
      [] proc[r].outcome \in {"drift", "rejected"} ->
             [status |-> "failed", fallback |-> FALSE]
      [] proc[r].outcome \in {"ownership", "busy", "service_error"} ->
             [status |-> IF r \in cancelled THEN "cancelled" ELSE "failed",
              fallback |-> FALSE]

\* The scopes are released, the record is finished and the entry dropped.
Finish(r) ==
    /\ At(r, "returned")
    /\ record' = [record EXCEPT ![r] = Status(r).status]
    /\ executions' = [executions EXCEPT ![r] = @ + IF Status(r).fallback THEN 1 ELSE 0]
    /\ proc' = [proc EXCEPT ![r].pc = "done", ![r].holds = {}]
    /\ UNCHANGED <<lifeVars, pool, worker, cancelVars, upsetVars>>

RequestStep(r) ==
    \/ Execute(r) \/ EnterTool(r) \/ EnterResource(r) \/ Retain(r)
    \/ Lease(r) \/ LeaseTimeout(r) \/ CheckCancelled(r) \/ Dispatch(r)
    \/ Answer(r) \/ Leave(r) \/ Finish(r)

----
(***************************************************************************)
(* restore_capacity, at the end of every request and cancellation.         *)
(***************************************************************************)

Returned(t) == [proc[t] EXCEPT !.pc = IF t = Canceller THEN "idle" ELSE "returned",
                               !.todo = {}, !.spare = 0, !.target = 0]

\* mutant: the lease test is inverted
DeadSlotsLeased(g) == {s \in Slots : ~Ready(pool[g].slots[s]) /\ pool[g].lease[s] # 0}

\* the dead, unleased workers of the current generation
DeadSlots(g) == {s \in Slots : ~Ready(pool[g].slots[s]) /\ pool[g].lease[s] = 0}

\* the first slots of a set: one maintenance replaces no more than that
FirstSlots(slots) == {s \in slots : Cardinality({u \in slots : u <= s}) <= MaxReplacements}

RestoreScan(t) ==
    /\ At(t, "scanning")
    /\ \E gone \in {~attached, FALSE} :
       LET dead == IF ~gone /\ service = "ready" THEN FirstSlots(DeadSlots(current)) ELSE {}
       IN proc' = [proc EXCEPT ![t] =
            IF dead = {} THEN Returned(t)
            ELSE [@ EXCEPT !.pc = "launching",
                           !.todo = {<<s, pool[current].slots[s]>> : s \in dead}]]
    /\ UNCHANGED <<lifeVars, pool, worker, cancelVars, publicVars, upsetVars>>

NextDead(t) == CHOOSE d \in proc[t].todo : \A e \in proc[t].todo : d[1] <= e[1]

\* The worker factory: a verified process, or an exception that ends the
\* best-effort restoration.
RestoreLaunch(t) ==
    /\ At(t, "launching")
    /\ \/ /\ Unborn # {}
          /\ LET w == Min(Unborn) IN
               /\ worker' = [worker EXCEPT ![w] =
                     [state |-> "live", gen |-> registry, active |-> 0]]
               /\ proc' = [proc EXCEPT ![t].pc = "replacing", ![t].spare = w]
          /\ UNCHANGED upsetVars
       \/ /\ Upset
          /\ proc' = [proc EXCEPT ![t] = Returned(t)]
          /\ UNCHANGED worker
    /\ UNCHANGED <<lifeVars, pool, cancelVars, publicVars>>

\* a replacement that could not be installed is closed
Rejected(w) == Closed({w})

\* runtime.replace_worker; any refusal abandons the other dead workers too.
RestoreReplace(t) ==
    /\ At(t, "replacing")
    /\ ~At(Reloader, "draining")
    /\ LET s == NextDead(t)[1]
           old == NextDead(t)[2]
       IN IF service = "ready" /\ Replaceable(current, s, old, proc[t].spare)
          THEN /\ pool' = [pool EXCEPT ![current].slots[s] = proc[t].spare]
               /\ worker' = Closed({old})
               /\ proc' = [proc EXCEPT ![t].pc = "recording"]
          ELSE /\ worker' = Rejected(proc[t].spare)
               /\ proc' = [proc EXCEPT ![t] = Returned(t)]
               /\ UNCHANGED pool
    /\ UNCHANGED <<lifeVars, cancelVars, publicVars, upsetVars>>

\* Under the lifecycle lock: the new worker takes the old one's place among
\* the recorded ones.
RestoreRecord(t) ==
    /\ At(t, "recording")
    /\ recorded' = (recorded \ {NextDead(t)[2]}) \cup {proc[t].spare}
    /\ LET rest == proc[t].todo \ {NextDead(t)} IN
       proc' = [proc EXCEPT ![t] =
         IF rest = {} THEN Returned(t)
         ELSE [@ EXCEPT !.pc = "launching", !.todo = rest, !.spare = 0]]
    /\ UNCHANGED <<registry, attached, service, current, pool, worker,
                   cancelVars, publicVars, upsetVars>>

RestoreStep(t) ==
    \/ RestoreScan(t) \/ RestoreLaunch(t) \/ RestoreReplace(t) \/ RestoreRecord(t)

----
(***************************************************************************)
(* gateway.cancel, by the owner of a request.                              *)
(***************************************************************************)

\* The gateway entry is marked first.
Cancel(r) ==
    /\ At(Canceller, "idle") /\ attached
    /\ Event /\ cancels' = cancels + 1
    /\ proc[r].pc \notin {"idle", "done"}
    /\ cancelled' = cancelled \cup {r}
    /\ proc' = [proc EXCEPT ![Canceller].pc = "seeking", ![Canceller].target = r]
    /\ UNCHANGED <<lifeVars, pool, worker, flagged, publicVars, upsets>>

\* runtime.cancel under _active_lock; the worker is only named here, and
\* killed after the lock is released.
CancelLookup ==
    /\ At(Canceller, "seeking")
    /\ LET r == proc[Canceller].target
           known == Listed(r) /\ proc[r].slot # 0 /\ proc[r].pc # "leased"
       IN \/ /\ ~attached
             /\ proc' = [proc EXCEPT ![Canceller] = NoThread]
             /\ UNCHANGED flagged
          \/ /\ flagged' = IF Listed(r) THEN flagged \cup {r} ELSE flagged
             /\ proc' = [proc EXCEPT ![Canceller].pc = IF known THEN "killing" ELSE "scanning",
                                     ![Canceller].spare = IF known THEN Leased(r) ELSE 0]
    /\ UNCHANGED <<lifeVars, pool, worker, cancelled, cancels, publicVars, upsetVars>>

\* PersistentHermesWorker.cancel: only the exact request is terminated.
KillsWorker(w, r) == Ready(w) /\ worker[w].active = r

CancelKill ==
    /\ At(Canceller, "killing")
    /\ LET w == proc[Canceller].spare IN
         worker' = IF KillsWorker(w, proc[Canceller].target) THEN Closed({w}) ELSE worker
    /\ proc' = [proc EXCEPT ![Canceller].pc = "scanning", ![Canceller].spare = 0]
    /\ UNCHANGED <<lifeVars, pool, cancelVars, publicVars, upsetVars>>

----
(***************************************************************************)
(* reload_registry, one at a time under the administration lock.           *)
(***************************************************************************)

Fresh(s) == (CHOOSE d \in proc[Reloader].todo : d[1] = s)[2]
FreshWorkers == {d[2] : d \in proc[Reloader].todo}
Reloaded == [NoThread EXCEPT !.pc = "done"]

Reload ==
    /\ At(Reloader, "idle") /\ attached
    /\ proc' = [proc EXCEPT ![Reloader].pc = "fetching"]
    /\ UNCHANGED <<lifeVars, pool, worker, cancelVars, publicVars, upsetVars>>

\* supervisor.reload_registry launches the candidate workers one by one; a
\* launch that fails closes the ones before it.
ReloadLaunch ==
    /\ At(Reloader, "fetching")
    /\ LET n == Cardinality(proc[Reloader].todo) + 1 IN
       \/ /\ Unborn # {}
          /\ LET w == Min(Unborn) IN
               /\ worker' = [worker EXCEPT ![w] =
                     [state |-> "live", gen |-> registry, active |-> 0]]
               /\ proc' = [proc EXCEPT
                     ![Reloader].pc = IF n = NumSlots THEN "publishing" ELSE "fetching",
                     ![Reloader].todo = @ \cup {<<n, w>>}]
          /\ UNCHANGED upsetVars
       \/ /\ Upset
          /\ worker' = Closed(FreshWorkers)
          /\ proc' = [proc EXCEPT ![Reloader] = Reloaded]
    /\ UNCHANGED <<lifeVars, pool, cancelVars, publicVars>>

\* The candidate pool verifies its workers; its generation has to be newer.
Publishable ==
    /\ service = "ready"
    /\ \A w \in FreshWorkers : Ready(w) /\ worker[w].gen = worker[Fresh(1)].gen
    /\ worker[Fresh(1)].gen > current

\* runtime.reload_registry publishes the candidate, or closes its workers.
ReloadPublish ==
    /\ At(Reloader, "publishing")
    /\ LET g == worker[Fresh(1)].gen IN
       IF Publishable
       THEN /\ current' = g
            /\ pool' = [pool EXCEPT ![g].slots = [s \in Slots |-> Fresh(s)]]
            /\ proc' = [proc EXCEPT ![Reloader].pc = "draining", ![Reloader].gen = current]
            /\ UNCHANGED worker
       ELSE /\ worker' = Closed(FreshWorkers)
            /\ proc' = [proc EXCEPT ![Reloader] = Reloaded]
            /\ UNCHANGED <<current, pool>>
    /\ UNCHANGED <<registry, attached, service, recorded, cancelVars,
                   publicVars, upsetVars>>

\* current.mark_draining()
ReloadDrain ==
    /\ At(Reloader, "draining")
    /\ LET g == proc[Reloader].gen
           p == [pool[g] EXCEPT !.draining = TRUE]
           shut == Closeable(p)
       IN /\ pool' = [pool EXCEPT ![g] = [p EXCEPT !.closed = @ \/ shut]]
          /\ worker' = Closed(IF shut THEN PoolWorkers(p) ELSE {})
    /\ proc' = [proc EXCEPT ![Reloader].pc = "recording"]
    /\ UNCHANGED <<lifeVars, cancelVars, publicVars, upsetVars>>

\* The supervisor's records become the new workers.
ReloadRecord ==
    /\ At(Reloader, "recording")
    /\ recorded' = FreshWorkers
    /\ proc' = [proc EXCEPT ![Reloader] = Reloaded]
    /\ UNCHANGED <<registry, attached, service, current, pool, worker,
                   cancelVars, publicVars, upsetVars>>

----
(***************************************************************************)
(* gateway.close and supervisor.close.                                     *)
(***************************************************************************)

CloseDetach ==
    /\ At(Closer, "idle") /\ attached /\ Event
    /\ attached' = FALSE
    /\ recorded' = {}
    /\ proc' = [proc EXCEPT ![Closer].pc = "closing",
                            ![Closer].todo = {<<0, w>> : w \in recorded}]
    /\ UNCHANGED <<registry, service, current, pool, worker, cancelVars,
                   publicVars, upsets>>

\* the pools that were ever published
Published == {g \in Generations : pool[g].slots[1] # 0}

\* runtime.close, which waits for a reload in progress: the state changes and
\* every pool is set to drain.
CloseRuntime ==
    /\ At(Closer, "closing")
    /\ ~At(Reloader, "draining")
    /\ service' = "closed"
    /\ LET drained == [g \in Generations |->
               IF g \in Published THEN [pool[g] EXCEPT !.draining = TRUE] ELSE pool[g]]
           empty == {g \in Published : Closeable(drained[g])}
       IN /\ pool' = [g \in Generations |->
               IF g \in empty THEN [drained[g] EXCEPT !.closed = TRUE] ELSE drained[g]]
          /\ worker' = Closed(UNION {PoolWorkers(pool[g]) : g \in empty})
    /\ proc' = [proc EXCEPT ![Closer].pc = "closing_workers"]
    /\ UNCHANGED <<registry, attached, current, recorded, cancelVars,
                   publicVars, upsetVars>>

\* The recorded workers are closed even under a request.
CloseWorkers ==
    /\ At(Closer, "closing_workers")
    /\ worker' = Closed({d[2] : d \in proc[Closer].todo})
    /\ proc' = [proc EXCEPT ![Closer] = [NoThread EXCEPT !.pc = "done"]]
    /\ UNCHANGED <<lifeVars, pool, cancelVars, publicVars, upsetVars>>

AdminStep ==
    \/ \E r \in Requests : Cancel(r)
    \/ CancelLookup \/ CancelKill
    \/ Reload \/ ReloadLaunch \/ ReloadPublish \/ ReloadDrain \/ ReloadRecord
    \/ CloseDetach \/ CloseRuntime \/ CloseWorkers

----
\* A worker process exits by itself.
WorkerDies(w) ==
    /\ Ready(w) /\ Upset
    /\ worker' = [worker EXCEPT ![w].state = "ended"]
    /\ UNCHANGED <<lifeVars, pool, proc, cancelVars, publicVars>>

\* The Hermes checkout's effective registry changes.
RegistryChanges ==
    /\ registry < MaxGeneration /\ Event
    /\ registry' = registry + 1
    /\ UNCHANGED <<attached, service, current, pool, worker, recorded, proc,
                   cancelVars, publicVars, upsets>>

Init ==
    /\ registry = 1 /\ current = 1 /\ attached = TRUE /\ service = "ready"
    /\ worker = [w \in Workers |->
         IF w \in Slots THEN [state |-> "live", gen |-> 1, active |-> 0] ELSE NoWorker]
    /\ pool = [g \in Generations |->
         IF g = 1 THEN [NoPool EXCEPT !.slots = [s \in Slots |-> s]] ELSE NoPool]
    /\ recorded = Slots
    /\ proc = [t \in Threads |-> NoThread]
    /\ cancelled = {} /\ flagged = {}
    /\ record = [r \in Requests |-> "none"]
    /\ executions = [r \in Requests |-> 0]
    /\ cancels = 0 /\ upsets = 0 /\ events = 0

Next ==
    \/ \E r \in Requests : RequestStep(r)
    \/ \E t \in Requests \cup {Canceller} : RestoreStep(t)
    \/ AdminStep
    \/ \E w \in Workers : WorkerDies(w)
    \/ RegistryChanges

Spec == Init /\ [][Next]_vars

----
(***************************************************************************)
(* Properties.                                                             *)
(***************************************************************************)

RequestPCs == {"idle", "called", "tooled", "scoped", "waiting", "leased",
    "dispatching", "serving", "answered", "raised", "returned", "done"}
RestorePCs == {"scanning", "launching", "replacing", "recording"}
AdminPCs   == {"seeking", "killing", "fetching", "publishing", "draining",
               "closing", "closing_workers"}
Outcomes   == {"none", "served", "not_ready", "drift", "rejected", "ownership", "busy",
               "service_error"}

\* Every component keeps its shape; a slot holds a launched worker, a lease a
\* request, and a reference count never goes below zero.
TypeOK ==
    /\ registry \in Generations /\ current \in Generations
    /\ attached \in BOOLEAN /\ service \in {"ready", "closed"}
    /\ pool \in [Generations -> [slots : [Slots -> Workers \cup {0}],
                                 lease : [Slots -> Requests \cup {0}],
                                 refs : 0..NumRequests,
                                 draining : BOOLEAN, closed : BOOLEAN]]
    /\ worker \in [Workers -> [state : {"unborn", "live", "ended"},
                               gen : Generations \cup {0},
                               active : Requests \cup {0}]]
    /\ recorded \in SUBSET Workers
    /\ proc \in [Threads -> [pc : RequestPCs \cup RestorePCs \cup AdminPCs,
                             key : (UNION {KeysOf[r] : r \in Requests}) \cup {"none"},
                             expected : Generations \cup {0},
                             gen : Generations \cup {0},
                             slot : Slots \cup {0},
                             target : Requests \cup {0},
                             todo : SUBSET ((Slots \cup {0}) \X Workers),
                             spare : Workers \cup {0},
                             holds : SUBSET {"tool", "resource"},
                             outcome : Outcomes]]
    /\ cancelled \in SUBSET Requests /\ flagged \in SUBSET Requests
    /\ record \in [Requests -> {"none", "running", "completed", "failed", "cancelled"}]
    /\ executions \in [Requests -> Nat]
    /\ events \in 0..MaxEvents /\ cancels \in 0..events /\ upsets \in 0..events

\* A request is only ever served by a worker of the registry generation it was
\* bound to, whatever reloads and replacements happen while it waits.
StaleNeverServed ==
    \A r \in Requests : proc[r].pc \in {"serving", "answered"} =>
        worker[Leased(r)].gen = proc[r].expected

\* Neither a reload nor the cancellation of another request nor a capacity
\* restoration interrupts a request: one that ends in a service error was
\* cancelled itself, or a process died, or the service was closed.
OnlyOwnCancellation ==
    \A r \in Requests :
        /\ proc[r].outcome = "service_error" =>
               r \in cancelled \/ upsets > 0 \/ ~attached
        /\ record[r] = "cancelled" => r \in cancelled

\* An operation is handed out at most once: the fallback never repeats what a
\* worker was given, and a request refused as stale is not executed at all.
ExecutedOnce ==
    \A r \in Requests :
        /\ executions[r] <= 1
        /\ proc[r].outcome = "drift" => executions[r] = 0

\* A retired generation is closed only after every request that retained it has
\* let go, so none of them finds its workers gone.
DrainedBeforeClose ==
    \A r \in Requests :
        proc[r].pc \in {"waiting", "leased", "dispatching", "serving", "answered",
                         "raised"} =>
            ~pool[proc[r].gen].closed

\* the workers a thread has launched and not yet handed over
InHand == {proc[t].spare : t \in {u \in Requests \cup {Canceller} :
                                      At(u, "replacing")}}
          \cup (IF proc[Reloader].pc \in {"fetching", "publishing"}
                THEN FreshWorkers ELSE {})

\* No worker process is left behind: one that lives belongs to a pool that is
\* still open or to a thread that is about to install or close it.
NoLeakedWorker ==
    \A w \in Workers : Ready(w) =>
        \/ w \in InHand
        \/ \E g \in Published : ~pool[g].closed /\ w \in PoolWorkers(pool[g])

Quiet ==
    /\ \A r \in Requests : proc[r].pc \in {"idle", "done"}
    /\ At(Canceller, "idle")
    /\ proc[Reloader].pc \in {"idle", "done"}

\* The capacity that a cancellation takes away comes back: when all is quiet
\* again and nothing else went wrong, every worker of the pool is ready.
CancelRepaired ==
    (Quiet /\ attached /\ upsets = 0 /\ registry = current /\ cancels <= 1)
        => \A s \in Slots : Ready(pool[current].slots[s])

=============================================================================
