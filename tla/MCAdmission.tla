----------------------------- MODULE MCAdmission ------------------------------
(***************************************************************************)
(* What is let in: runs, from acceptance to result (AcceptedRun), SSH      *)
(* hosts, from preview to activation (HostOnboarding), and the service     *)
(* itself, from start to reload (ServiceLifecycle).  They share no state,  *)
(* and a behaviour exercises the one in focus.                             *)
(***************************************************************************)
EXTENDS AcceptedRun, TLC

CONSTANTS Hosts, Appliers, MaxChanges, MaxSteps, MaxFile, MaxMoves

VARIABLES focus, config, changes, applier, credential, listening, trial, known, trusted, steps,
          rows, attempt, unrecorded, boot, lastOk, file, served, life, call, torn, moves

Onb == INSTANCE HostOnboarding
Lif == INSTANCE ServiceLifecycle WITH Callers <- Appliers

onboardingState == <<config, changes, applier, credential, listening, trial, known, trusted, steps>>
serviceState == <<rows, attempt, unrecorded, boot, lastOk, file, served, life, call, torn, moves>>

Symmetry == Permutations(Appliers)

\* Out of focus one initial state of a component will do.
MCInit ==
    /\ focus \in {"runs", "hosts", "service"}
    /\ Init /\ (focus # "runs" => disk.profile = "read")
    /\ Onb!Init /\ (focus # "hosts" => \A h \in Hosts : credential[h].expected = "none")
    /\ Lif!Init

MCNext ==
    /\ UNCHANGED focus
    /\ \/ focus = "runs" /\ Next /\ UNCHANGED <<onboardingState, serviceState>>
       \/ focus = "hosts" /\ Onb!Next /\ UNCHANGED <<vars, serviceState>>
       \/ focus = "service" /\ Lif!Next /\ UNCHANGED <<vars, onboardingState>>

MCSpec == MCInit /\ [][MCNext]_<<focus, vars, onboardingState, serviceState>>

\* What is executed is what was accepted, and completed means what the result says
\* (AcceptedRun; job_manager.py, job_worker.py, ssh_tools.py, cloudflare_tools.py).
AcceptedIsExecuted == focus = "runs" => ExecutedAsAccepted /\ ResultTruthful

\* A host is brought in on what that one host showed, and a profile change writes
\* what was previewed where it was previewed (HostOnboarding;
\* ssh_activation.py:366-498, ssh_host_keys.py:216-401, ssh_profile_manager.py:593-686).
HostChangesExact ==
    [][focus = "hosts" => Onb!ApplyStep /\ Onb!EvidenceOfOneHost']_onboardingState

\* Bringing in a host leaves the keys of the hosts before it in place
\* (HostOnboarding; ssh_activation.py:1080-1084, ssh_host_keys.py:340-344).
ActivatedHostsStayKnown == Onb!ActivatedHostsStayKnown

\* Readiness hides no lost reconciliation, and the served configuration is the
\* active one (ServiceLifecycle; reconciliation_status.py:75-262, service_reload.py:59-317).
ServiceTruthful == focus = "service" => Lif!ReadinessTruthful /\ Lif!ConfigSettled

==============================================================================
