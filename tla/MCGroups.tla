------------------------------ MODULE MCGroups ------------------------------
(***************************************************************************)
(* ParallelGroups for TLC, safety.  Two instances of one group of two      *)
(* children and one slot: launches, refills, cancellations and the failure *)
(* policy racing each other ("slots", the constants of the cfg), and       *)
(* crashes of the workers and of the server ("restart").                   *)
(***************************************************************************)
EXTENDS ParallelGroups

CONSTANTS g1, c1, c2

VARIABLE focus

OneGroup == [c \in Children |-> g1]
Line == [c \in Children |-> IF c = c1 THEN 0 ELSE 1]
OneEach == [g \in Groups |-> 1]

\* Request threads are interchangeable.
Symmetry == Permutations(Clients)

Restart == INSTANCE ParallelGroups WITH
               CancelRemaining <- {}, Requests <- {"child"}, Exits <- {"completed"},
               Faults <- {"worker_crash", "files"}, MaxCrashes <- 1

MCInit == Init /\ focus \in {"slots", "restart"}

MCNext ==
    /\ UNCHANGED focus
    /\ \/ focus = "slots" /\ Next
       \/ focus = "restart" /\ Restart!Next

MCSpec == MCInit /\ [][MCNext]_<<vars, focus>>

\* A child is started once, a group reported as ended has ended, and a PowerShell
\* process keeps its slot until it is gone, whoever dies and restarts meanwhile
\* (parallel_groups.py, job_manager.py, run_store.py).
GroupsSound ==
    /\ TypeOK
    /\ focus = "slots" => SpawnedOnce /\ EndedGroupIsFinal
    /\ focus = "restart" => OpenHoldsSlot
=============================================================================
