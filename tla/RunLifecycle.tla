---------------------------- MODULE RunLifecycle ----------------------------
(***************************************************************************)
(* What the run engine promises a client about one accepted run, with no   *)
(* leases, versions, locks or processes: the run waits, is executed at     *)
(* most once, and settles once.  DurableRun implements it.                 *)
(***************************************************************************)
CONSTANT Runs

VARIABLE life

Outcomes == {"completed", "failed", "cancelled", "timed_out"}
Lives == {"absent", "waiting", "executing", "stopping", "held"} \cup Outcomes

Open == {"waiting", "executing", "stopping", "held"}

Init == life = [r \in Runs |-> "absent"]

Move(r, from, to) ==
    /\ life[r] \in from
    /\ life' = [life EXCEPT ![r] = to]

\* The client's request is accepted.
Accept(r) == Move(r, {"absent"}, "waiting")

\* Execution begins; there is no way back to "waiting", so it begins once.
Begin(r) == Move(r, {"waiting"}, "executing")

\* A cancellation request, or a timeout whose termination is unconfirmed.
Stop(r) == Move(r, {"waiting", "executing", "held"}, "stopping")

\* Ownership became uncertain: the run is held for the operator.
Hold(r) == Move(r, {"waiting", "executing", "stopping", "held"}, "held")

\* Only an executing run completes or times out, only one that was asked to
\* stop is cancelled, and any open run may be failed.
Settle(r) ==
    \/ Move(r, {"executing"}, "completed")
    \/ Move(r, {"executing"}, "timed_out")
    \/ Move(r, {"stopping"}, "cancelled")
    \/ Move(r, Open, "failed")

Next == \E r \in Runs : Accept(r) \/ Begin(r) \/ Stop(r) \/ Hold(r) \/ Settle(r)

Spec == Init /\ [][Next]_life
=============================================================================
