--------------------------- MODULE MCOrchestration ---------------------------
(***************************************************************************)
(* Progress of the two orchestrators of runs: parallel groups and          *)
(* workflows.  They share no state; a behaviour exercises the one in       *)
(* focus, and the fairness of the other one's actors then asks nothing,    *)
(* since none of them is given anything to do.                             *)
(***************************************************************************)
EXTENDS Naturals

CONSTANTS
    None, Startup, Callers, g1, g2, c1, c2, c3,
    NumSteps, Local, StepOutcomes, WorkflowFaults, MaxServerCrashes

VARIABLES
    focus,
    child, group, proc, act, server, spawned,
    wf, step, stepRun, starts, actor, beaten, crashes

\* Two groups under one global slot: c1 and c2 in g1, which cancels its remaining
\* children when one fails, and c3 in g2.
Children == {c1, c2, c3}
TwoGroups == [c \in Children |-> IF c = c3 THEN g2 ELSE g1]
Line == [c \in Children |-> IF c = c2 THEN 1 ELSE 0]
OneEach == [g \in {g1, g2} |-> 1]

Grp == INSTANCE ParallelGroups WITH
           Groups <- {g1, g2}, GroupOf <- TwoGroups, Position <- Line,
           Requested <- OneEach, MaxConcurrent <- 1, CancelRemaining <- {g1},
           Requests <- {"child", "group"}, Exits <- {"completed", "failed"},
           Clients <- Callers, Faults <- {}, MaxCrashes <- 0

\* An external step, and a local summary of it.
Chain == [s \in 1..NumSteps |-> IF s = 2 THEN {1} ELSE {}]

Wfl == INSTANCE Workflows WITH
           DependsOn <- Chain, Stop <- {}, NumClients <- 0, Outcomes <- StepOutcomes,
           Faults <- WorkflowFaults, MaxCrashes <- MaxServerCrashes, child <- stepRun, proc <- actor

groupState == <<child, group, proc, act, server, spawned>>
workflowState == <<wf, step, stepRun, starts, actor, beaten, crashes>>
vars == <<focus, groupState, workflowState>>

Init == focus \in {"groups", "workflow"} /\ Grp!Init /\ Wfl!Init

Next ==
    /\ UNCHANGED focus
    /\ \/ focus = "groups" /\ Grp!Next /\ UNCHANGED workflowState
       \/ focus = "workflow" /\ Wfl!Next /\ UNCHANGED groupState

\* The fairness of ParallelGroups and of Workflows, each for the behaviours in its
\* focus: out of focus the actions below are not enabled.
InGroups(A) == focus = "groups" /\ A
InWorkflow(A) == focus = "workflow" /\ A
Fairness ==
    /\ \A a \in Grp!Actors :
         WF_groupState(InGroups(Grp!LaunchStep(a) \/ Grp!RefillStep(a) \/ Grp!CancelStep(a)))
    /\ \A c \in Children :
         /\ WF_groupState(InGroups(Grp!WorkerStep(c)))
         /\ WF_groupState(InGroups(Grp!EndChild(c)))
         /\ WF_groupState(InGroups(Grp!OrphanExit(c)))
    /\ WF_groupState(InGroups(Grp!RestartStep))
    /\ WF_workflowState(InWorkflow(Wfl!ReconcileStep))
    /\ \A a \in {Wfl!Starter, Wfl!Server} : WF_workflowState(InWorkflow(Wfl!LaunchStep(a)))
    /\ \A a \in Wfl!Actors : WF_workflowState(InWorkflow(Wfl!PublishStep(a)))
    /\ WF_workflowState(InWorkflow(Wfl!CancelStep(Wfl!Server)))
    /\ \A n \in Wfl!Leases : WF_workflowState(InWorkflow(Wfl!WorkerStep(n)))
    /\ \A s \in Wfl!Steps : WF_workflowState(InWorkflow(Wfl!ChildExit(s)))

Spec == Init /\ [][Next]_vars /\ Fairness

\* "excess children remain durably pending and launch as process slots become
\* available" (docs): no child is forgotten in the queue, whichever of the exits,
\* cancellations and refills comes last (parallel_groups.py).
PendingLaunched == Grp!PendingLaunched

\* "terminal children cannot leave the parent permanently stale" (docs): once all
\* children have ended the published group status ends too (parallel_groups.py).
EndedGroupIsPublished == Grp!EndedGroupIsPublished

\* A refill never takes the occupied slots beyond the global limit; only the
\* reservation of a new group may (parallel_groups.py:630-760).
RefillKeepsGlobalLimit == Grp!RefillKeepsGlobalLimit

\* A restart resolves the workflow it lists, and a worker that lives brings its
\* workflow to an end (workflows/manager.py:225-420, workflows/worker.py).
WorkflowSettles == Wfl!RestartResolves /\ Wfl!WorkerFinishes
==============================================================================
