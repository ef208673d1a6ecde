---------------------------- MODULE MCRunLiveness ----------------------------
(***************************************************************************)
(* DurableRun for TLC, under fairness.  Two instances of the same engine:  *)
(* one run through the faults of the cfg ("faults"), and one run launched  *)
(* by the server or by another process, of which either may die ("hosts"). *)
(***************************************************************************)
EXTENDS DurableRun

VARIABLE focus

Hosted == INSTANCE DurableRun WITH
              Faults <- {"host_crash", "spawn"}, Hosts <- {"server", "other"}

LiveInit == Init /\ focus \in {"faults", "hosts"}

\* Bound: nobody cancels in the second.
NoCancel == canceller' = canceller

LiveNext ==
    /\ UNCHANGED focus
    /\ \/ focus = "faults" /\ Next
       \/ focus = "hosts" /\ Hosted!Next /\ NoCancel

\* The fairness of DurableRun, for the instance in focus.
Either(A, B) == (focus = "faults" /\ A) \/ (focus = "hosts" /\ B)
LiveFairness ==
    /\ \A o \in Owners : WF_vars(Either(AcquireInsert(o), Hosted!AcquireInsert(o)))
    /\ \A r \in Runs :
         /\ WF_vars(Either(LaunchStep(r), Hosted!LaunchStep(r)))
         /\ WF_vars(Either(CancelStep(r), FALSE))
         /\ WF_vars(Either(ReconcileStep(r), Hosted!ReconcileStep(r)))
    /\ \A r \in Runs, n \in Leases :
         /\ WF_vars(Either(WorkerStep(r, n), Hosted!WorkerStep(r, n)))
         /\ WF_vars(Either(ChildExit(r, n), Hosted!ChildExit(r, n)))
    /\ WF_vars(Either(ServerRestart, Hosted!ServerRestart))
    /\ WF_vars(Either(ReconcilePublish, Hosted!ReconcilePublish))
    /\ WF_vars(Either(RecoverStale, Hosted!RecoverStale))

LiveSpec == LiveInit /\ [][LiveNext]_<<vars, focus>> /\ LiveFairness
==============================================================================
