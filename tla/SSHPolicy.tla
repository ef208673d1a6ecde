------------------------------ MODULE SSHPolicy ------------------------------
(***************************************************************************)
(* The launch policy of src/soma/ssh_policy.py: which tier an SSH action   *)
(* belongs to, what the autonomy profile says of the tier, and which       *)
(* approval evidence authorises a launch.  The manager evaluates it when a *)
(* run is accepted, the worker again before it executes; the metadata of   *)
(* the two evaluations must agree.                                         *)
(***************************************************************************)
Tiers == {"T0_read_only", "T2_long_running", "T4_write", "T6_human_only"}
Modes == {"structured", "reviewed_script", "root_shell"}
ApprovalSources == {"none", "chatgpt", "human"}

\* What classify_ssh_permission_tier returns.
ClassifyTier(writes, monitored, high) ==
    IF high THEN "T6_human_only"
    ELSE IF writes THEN "T4_write"
    ELSE IF monitored THEN "T2_long_running"
    ELSE "T0_read_only"

\* The permissive profile, the only one the SSH paths accept.
AllowTiers == {"T0_read_only", "T2_long_running", "T4_write"}
HumanApprovalTiers == {"T6_human_only"}

\* The decision of evaluate_ssh_action_policy for the permissive profile.
Evaluate(tier) ==
    IF tier \in AllowTiers THEN "allowed"
    ELSE IF tier \in HumanApprovalTiers THEN "needs_human_approval"
    ELSE "blocked"

\* authorize_ssh_action_launch raises unless this holds.
Authorized(mode, implemented, tier, human) ==
    /\ mode \in implemented
    /\ \/ Evaluate(tier) = "allowed"
       \/ Evaluate(tier) = "needs_human_approval" /\ human

\* The metadata of an authorised launch, as it is persisted with the run.
PolicyMetadata(mode, tier) ==
    [mode |-> mode, tier |-> tier, decision |-> Evaluate(tier),
     approval |-> IF Evaluate(tier) = "allowed" THEN "none" ELSE "human"]

Metadata ==
    [mode: Modes, tier: Tiers,
     decision: {"allowed", "needs_human_approval", "blocked"},
     approval: ApprovalSources]

==============================================================================
