------------------------------ MODULE StepPlan ------------------------------
(***************************************************************************)
(* What a client of a workflow may rely on, whatever happens to the worker *)
(* processes: the steps run one at a time, each only after every step it   *)
(* depends on has passed, and a step that has ended stays ended.           *)
(***************************************************************************)
EXTENDS Naturals

CONSTANTS
    Steps,      \* the steps, numbered in the order of the definition
    DependsOn,  \* the steps each step depends on
    Repeatable  \* steps without external effects, which may be run again

VARIABLE plan   \* the status of every step

Ended == {"passed", "failed", "skipped", "cancelled"}

Init == plan = [s \in Steps |-> "pending"]

Become(s, status) == plan' = [plan EXCEPT ![s] = status]

Start(s) ==
    /\ plan[s] = "pending"
    /\ \A t \in Steps : plan[t] # "running"
    /\ \A t \in DependsOn[s] : plan[t] = "passed"
    /\ Become(s, "running")

Finish(s) ==
    /\ plan[s] = "running"
    /\ Become(s, "passed") \/ Become(s, "failed")

Repeat(s) == s \in Repeatable /\ plan[s] = "running" /\ Become(s, "pending")

Skip(s) ==
    /\ plan[s] = "pending"
    /\ \A t \in DependsOn[s] : plan[t] \in Ended
    /\ \E t \in DependsOn[s] : plan[t] # "passed"
    /\ Become(s, "skipped")

\* Cancelling the workflow cancels everything that has not ended.
CancelRest ==
    plan' = [s \in Steps |-> IF plan[s] \in Ended THEN plan[s] ELSE "cancelled"]

Next ==
    \/ \E s \in Steps : Start(s) \/ Finish(s) \/ Repeat(s) \/ Skip(s)
    \/ CancelRest

Spec == Init /\ [][Next]_plan
=============================================================================
