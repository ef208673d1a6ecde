----------------------------- MODULE MCRunSafety -----------------------------
(***************************************************************************)
(* DurableRun for TLC, safety.  Three instances of the same engine: one    *)
(* run against a synchronous operation on the same repository, with a      *)
(* server that dies twice ("exclusion", the constants of the cfg); one run *)
(* by itself through every fault ("faults"); and one run launched and      *)
(* cancelled by two processes ("hosts").                                   *)
(***************************************************************************)
EXTENDS DurableRun

VARIABLE focus

Faulty == INSTANCE DurableRun WITH
              Faults <- {"worker_crash", "spawn", "publish", "io"}, TreeKill <- FALSE,
              MaxCrashes <- 1, MaxBeats <- 1, MaxVersion <- 9
Hosted == INSTANCE DurableRun WITH
              Faults <- {"host_crash"}, Hosts <- {"server", "other"},
              TreeKill <- FALSE, MaxCrashes <- 0

MCInit == Init /\ focus \in {"exclusion", "faults", "hosts"}

\* Bound: there is no synchronous operation in the last two.
SyncIdle == \A o \in SyncOps : thread'[o] = thread[o]

MCNext ==
    /\ UNCHANGED focus
    /\ \/ focus = "exclusion" /\ Next
       \/ focus = "faults" /\ Faulty!Next /\ SyncIdle
       \/ focus = "hosts" /\ Hosted!Next /\ SyncIdle

MCSpec == MCInit /\ [][MCNext]_<<vars, focus>>

\* A run reported cancelled has no process left, where a kill reaches the whole
\* process tree (job_manager.py:3025-3103, process_control.py).
CancelledHasStopped == focus = "exclusion" => CancelledMeansStopped
==============================================================================
