---------------------------- MODULE MCWorkflows ----------------------------
(***************************************************************************)
(* Workflows for TLC, safety.  Two instances of the same workflow: with    *)
(* the faults of the cfg ("faults"), and with process identities that      *)
(* could not be read when their PIDs were recorded ("blind").              *)
(***************************************************************************)
EXTENDS Workflows

VARIABLE focus

\* An external step, and a local summary of it.
Chain == [s \in Steps |-> IF s = 2 THEN {1} ELSE {}]

Blind == INSTANCE Workflows WITH Faults <- {"blind"}

MCInit == Init /\ focus \in {"faults", "blind"}

MCNext ==
    /\ UNCHANGED focus
    /\ \/ focus = "faults" /\ Next
       \/ focus = "blind" /\ Blind!Next

MCSpec == MCInit /\ [][MCNext]_<<vars, focus>>
=============================================================================
