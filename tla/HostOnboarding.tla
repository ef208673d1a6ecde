----------------------------- MODULE HostOnboarding ------------------------------
(***************************************************************************)
(* Bringing an SSH host into the configuration: a profile change is        *)
(* previewed on config.yaml and applied, or, for configure_host, first     *)
(* tried out: the credential source is probed, the host key scanned and    *)
(* staged, and the host contacted with the staged keys only.  The owner    *)
(* edits config.yaml and the credential source meanwhile, and hosts get    *)
(* new keys.                                                               *)
(***************************************************************************)
EXTENDS Integers

CONSTANTS Hosts, Appliers,
          MaxChanges,   \* bound on profile changes previewed
          MaxSteps      \* bound on previews, applies, trials and outside events

VARIABLES
    config,      \* config.yaml: each host's entry, and the rest of its text
    changes,     \* the manifests of profile changes
    applier,     \* the calls of apply_ssh_profile_change
    credential,  \* the credential source of each host
    listening,      \* what listens at each address
    trial,       \* the activation trial under way (prepare)
    known,       \* the managed known_hosts file: address and key pairs
    trusted,     \* per host, the pairs its last activation was tried with
    steps

onboardingVars == <<config, changes, applier, credential, listening, trial, known, trusted, steps>>

Addresses == {"here", "there"}
Fingerprints == {"k1", "k2"}
Intents == {"new_host", "existing_host", "rotation"}
Policies == {"pinned", "tofu", "rotation"}
Actions == {"configure_host", "add_host", "replace_host", "remove_host", "upsert_command", "remove_command"}

NoChange == [status |-> "none", action |-> "add_host", host |-> CHOOSE h \in Hosts : TRUE,
             base |-> [entry |-> [h \in Hosts |-> "none"], rest |-> 0], intent |-> "new_host", policy |-> "tofu"]
NoApply == [pc |-> "idle", change |-> 0, original |-> NoChange.base, touched |-> FALSE]
NoTrial == [pc |-> "idle", change |-> 0, address |-> "here", expected |-> "none", first |-> {},
            staged |-> {}, contacts |-> {}, validation |-> "none"]

Init ==
    /\ config = NoChange.base
    /\ changes = [c \in 1..MaxChanges |-> NoChange]
    /\ applier = [a \in Appliers |-> NoApply]
    /\ \E expected \in {"none", "k1"} :
          credential = [h \in Hosts |-> [address |-> IF h = NoChange.host THEN "here" ELSE "there",
                                         expected |-> expected, posture |-> "sound"]]
    /\ listening = [a \in Addresses |-> [key |-> "k1", capable |-> TRUE, root |-> TRUE]]
    /\ trial = NoTrial
    /\ known = {} /\ trusted = [h \in Hosts |-> {}]
    /\ steps = 0

Step == steps < MaxSteps /\ steps' = steps + 1

----
(* Profile changes (ssh_profile_manager).                                   *)

\* The entry a mutation leaves ("none": no entry), and the entries it applies to.
Mutated(action) ==
    CASE action \in {"configure_host", "add_host", "replace_host"} -> "bare"
      [] action = "remove_host" -> "none"
      [] action = "upsert_command" -> "profiled"
      [] action = "remove_command" -> "bare"
MayMutate(action, entry) ==
    CASE action = "configure_host" -> TRUE
      [] action = "add_host" -> entry = "none"
      [] action \in {"replace_host", "remove_host", "upsert_command"} -> entry # "none"
      [] action = "remove_command" -> entry = "profiled"
BuildCandidate(c, base) == [base EXCEPT !.entry[c.host] = Mutated(c.action)]

\* A rotation of the key is asked for by policy and intent alike; policies are those
\* of configure_host alone.
NormalizedMutation(action, intent, policy) ==
    IF action = "configure_host" THEN (intent = "rotation") = (policy = "rotation")
    ELSE intent = "new_host" /\ policy = "tofu"
PreviewChange ==
    /\ Step
    /\ \E c \in 1..MaxChanges, action \in Actions, h \in Hosts, intent \in Intents, policy \in Policies :
          /\ changes[c].status = "none" /\ \A d \in 1..(c - 1) : changes[d].status # "none"
          /\ NormalizedMutation(action, intent, policy)
          /\ MayMutate(action, config.entry[h])
          /\ changes' = [changes EXCEPT ![c] = [status |-> "previewed", action |-> action, host |-> h,
                                                base |-> config, intent |-> intent, policy |-> policy]]
    /\ UNCHANGED <<config, applier, credential, listening, trial, known, trusted>>

\* mutant: a change that would build applies on whatever the file holds now.
StillPreviewedAnywhere(c, original) == MayMutate(c.action, original.entry[c.host])
StillPreviewed(c, original) == c.status = "previewed" /\ original = c.base

\* The check reads the file; a change applied before is answered from its manifest.
ApplyReads(a) ==
    /\ Step /\ applier[a].pc = "idle"
    /\ \E c \in 1..MaxChanges :
          /\ StillPreviewed(changes[c], config)
          /\ applier' = [applier EXCEPT ![a] = [pc |-> "write", change |-> c, original |-> config, touched |-> FALSE]]
    /\ UNCHANGED <<config, changes, credential, listening, trial, known, trusted>>

\* Whoever writes config.yaml, the calls under way do not see it.
TouchedBy(others) == [a \in Appliers |-> IF a \in others /\ applier[a].pc # "idle"
                                         THEN [applier[a] EXCEPT !.touched = TRUE] ELSE applier[a]]
ApplyWrites(a) ==
    /\ applier[a].pc = "write"
    /\ config' = BuildCandidate(changes[applier[a].change], applier[a].original)
    /\ applier' = [TouchedBy(Appliers \ {a}) EXCEPT ![a].pc = "activate"]
    /\ UNCHANGED <<changes, credential, listening, trial, known, trusted, steps>>
ChangeStatus(c, status) == changes' = [changes EXCEPT ![c].status = status]
ApplyActivates(a) ==
    /\ applier[a].pc = "activate"
    /\ \/ /\ ChangeStatus(applier[a].change, "applied")
          /\ applier' = [applier EXCEPT ![a] = NoApply]
          /\ UNCHANGED config
       \/ /\ config' = applier[a].original
          /\ applier' = [TouchedBy(Appliers \ {a}) EXCEPT ![a].pc = "failed"]
          /\ UNCHANGED changes
    /\ UNCHANGED <<credential, listening, trial, known, trusted, steps>>
\* Death after the write leaves the candidate in the file and the change previewed.
ApplierDies(a) ==
    /\ Step /\ applier[a].pc # "idle"
    /\ applier' = [applier EXCEPT ![a] = NoApply]
    /\ UNCHANGED <<config, changes, credential, listening, trial, known, trusted>>
ApplyFails(a) ==
    /\ applier[a].pc = "failed"
    /\ ChangeStatus(applier[a].change, "failed")
    /\ applier' = [applier EXCEPT ![a] = NoApply]
    /\ UNCHANGED <<config, credential, listening, trial, known, trusted, steps>>

----
(* The trial of a configure_host change (DefaultSSHActivationAdapter.prepare). *)

Trying(pc) == trial.pc = pc
Change == changes[trial.change]
Source == credential[Change.host]
TrialStep(pc) == trial' = [trial EXCEPT !.pc = pc]
OnlyTrial == UNCHANGED <<config, changes, applier, credential, listening, known, trusted>>

StartTrial ==
    /\ Step /\ Trying("idle")
    /\ \E c \in 1..MaxChanges :
          /\ changes[c].status = "previewed" /\ changes[c].action = "configure_host"
          /\ trial' = [NoTrial EXCEPT !.pc = "probe", !.change = c]
    /\ OnlyTrial

\* The file and the key file are out of git's and others' reach; every required
\* field is mapped to one variable that is there, with a value of its form; and
\* ssh-keygen reads the key.
FileSecurity == Source.posture # "exposed"
FieldsMapped == Source.posture # "incomplete"
KeyInspected == Source.posture # "exposed key"
ProbeSource ==
    /\ Trying("probe") /\ FileSecurity /\ FieldsMapped /\ KeyInspected
    /\ TrialStep("resolve")
    /\ OnlyTrial /\ UNCHANGED steps

\* The source is read again: what the trial goes by is what it says now.  Of the key
\* file only its presence counts from here on.
Resolvable == FileSecurity /\ FieldsMapped
ResolveCredential ==
    /\ Trying("resolve") /\ Resolvable
    /\ trial' = [trial EXCEPT !.pc = "scan", !.address = Source.address, !.expected = Source.expected]
    /\ OnlyTrial /\ UNCHANGED steps

ScanHostKeys ==
    /\ Trying("scan")
    /\ trial' = [trial EXCEPT !.pc = "rescan", !.first = {listening[trial.address].key}]
    /\ OnlyTrial /\ UNCHANGED steps

StableScan(seen) == seen = trial.first

\* A rotation needs the fingerprint before it, from an entry of the mutation that no
\* preview records.
PreviousFingerprints == {}

\* The keys a policy lets through; none refuses the change.
SelectHostKeys(observed) ==
    CASE Change.policy = "tofu" ->
            IF Change.intent # "new_host" THEN {}
            ELSE IF trial.expected = "none" THEN observed ELSE observed \cap {trial.expected}
      [] Change.policy = "rotation" -> IF PreviousFingerprints = {} THEN {} ELSE observed \cap {trial.expected}
      [] Change.policy = "pinned" -> IF Change.intent # "rotation" THEN observed \cap {trial.expected} ELSE {}
StageHostKeys ==
    /\ Trying("rescan")
    /\ LET seen == {listening[trial.address].key} IN
       /\ StableScan(seen)
       /\ SelectHostKeys(seen) # {}
       /\ trial' = [trial EXCEPT !.pc = "authenticate",
                                 !.staged = {<<trial.address, k>> : k \in SelectHostKeys(seen)}]
    /\ OnlyTrial /\ UNCHANGED steps

StrictlyKnown(pair, file) == pair \in file

\* Each connection resolves the binding anew and goes by the key file alone.
Endpoint == <<Source.address, listening[Source.address].key>>
Contact == Resolvable /\ StrictlyKnown(Endpoint, trial.staged)
AuthenticateHost ==
    /\ Trying("authenticate") /\ Contact
    /\ trial' = [trial EXCEPT !.pc = "discover", !.contacts = {Endpoint}]
    /\ OnlyTrial /\ UNCHANGED steps
CapabilitySnapshot ==
    /\ Trying("discover") /\ Contact
    /\ listening[Source.address].capable
    /\ trial' = [trial EXCEPT !.pc = "validate", !.contacts = @ \cup {Endpoint}]
    /\ OnlyTrial /\ UNCHANGED steps

\* A missing root is let through where the binding allows a first deployment.
ValidateBindings ==
    /\ Trying("validate") /\ Contact
    /\ \E allowFirst \in BOOLEAN :
          /\ listening[Source.address].root \/ allowFirst
          /\ trial' = [trial EXCEPT !.pc = "prepared", !.contacts = @ \cup {Endpoint},
                 !.validation = IF listening[Source.address].root THEN "valid" ELSE "preparation_required"]
    /\ OnlyTrial /\ UNCHANGED steps

\* Any exception, and the death of the worker, ends the trial with nothing changed.
TrialFails ==
    /\ Step /\ ~Trying("idle")
    /\ trial' = NoTrial
    /\ OnlyTrial

\* The server installs the candidate on its base, with the staged keys as the file
\* (SSHActivation has the steps of this, and the way back).
Activate ==
    /\ Trying("prepared") /\ config = Change.base
    /\ config' = BuildCandidate(Change, config)
    /\ applier' = TouchedBy(Appliers)
    /\ known' = trial.staged
    /\ trusted' = [trusted EXCEPT ![Change.host] = trial.staged]
    /\ ChangeStatus(trial.change, "applied")
    /\ trial' = NoTrial
    /\ UNCHANGED <<credential, listening, steps>>

----
(* Outside events.                                                          *)

OwnerEditsConfig ==
    /\ Step
    /\ config' = [config EXCEPT !.rest = 1 - @]
    /\ applier' = TouchedBy(Appliers)
    /\ UNCHANGED <<changes, credential, listening, trial, known, trusted>>
OwnerEditsSource ==
    /\ Step
    /\ \E h \in Hosts : \E to \in {[credential[h] EXCEPT !.address = IF @ = "here" THEN "there" ELSE "here"],
                                       [credential[h] EXCEPT !.posture = "exposed"],
                                       [credential[h] EXCEPT !.posture = "exposed key"],
                                       [credential[h] EXCEPT !.posture = "incomplete"]} :
          credential' = [credential EXCEPT ![h] = to]
    /\ UNCHANGED <<config, changes, applier, listening, trial, known, trusted>>
HostChanges ==
    /\ Step
    /\ \E a \in Addresses : \E to \in {[listening[a] EXCEPT !.key = "k2"], [listening[a] EXCEPT !.root = FALSE],
                                       [listening[a] EXCEPT !.capable = FALSE]} :
          to # listening[a] /\ listening' = [listening EXCEPT ![a] = to]
    /\ UNCHANGED <<config, changes, applier, credential, trial, known, trusted>>

Next ==
    \/ PreviewChange
    \/ \E a \in Appliers : ApplyReads(a) \/ ApplyWrites(a) \/ ApplyActivates(a) \/ ApplyFails(a)
                              \/ ApplierDies(a)
    \/ StartTrial \/ ProbeSource \/ ResolveCredential \/ ScanHostKeys \/ StageHostKeys
    \/ AuthenticateHost \/ CapabilitySnapshot \/ ValidateBindings \/ TrialFails \/ Activate
    \/ OwnerEditsConfig \/ OwnerEditsSource \/ HostChanges

Spec == Init /\ [][Next]_onboardingVars

----
TypeOK ==
    /\ config.entry \in [Hosts -> {"none", "bare", "profiled"}]
    /\ \A c \in 1..MaxChanges : changes[c].status \in {"none", "previewed", "applied", "failed"}
    /\ known \subseteq Addresses \X Fingerprints

\* A change is activated on what one and the same host showed: all its connections
\* went to staged keys, each key was seen by both scans and is the expected one, or
\* the first of a new host, and the source may name another host by then
\* (ssh_activation.py:366-498, ssh_host_keys.py:216-401).
EvidenceOfOneHost ==
    /\ TypeOK
    /\ Trying("prepared") =>
          /\ trial.contacts # {} /\ trial.contacts \subseteq trial.staged
          /\ \A pair \in trial.staged :
                /\ pair[1] = trial.address /\ pair[2] \in trial.first
                /\ trial.expected = "none" => Change.intent = "new_host" /\ Change.policy = "tofu"
                /\ trial.expected # "none" => pair[2] = trial.expected

\* What an apply writes is the candidate that was previewed, on the file that was
\* previewed, and a failed activation gives that file back, unless somebody wrote
\* between the check and the write (ssh_profile_manager.py:593-686).
ApplyStep ==
    \A a \in Appliers :
        LET call == applier[a] IN
        /\ call.pc = "write" /\ applier'[a].pc = "activate" /\ ~call.touched =>
              /\ config = changes[call.change].base
              /\ config' = BuildCandidate(changes[call.change], config)
              /\ config'.rest = config.rest
        /\ call.pc = "activate" /\ applier'[a].pc = "failed" /\ ~call.touched =>
              config' = changes[call.change].base
        /\ call.pc = "activate" /\ applier'[a].pc = "idle" /\ ~call.touched =>
              config' = BuildCandidate(changes[call.change], changes[call.change].base)

\* The hosts activated before stay usable: bringing in one host leaves the keys of
\* the others in the managed file
\* (docs/ssh-agent-driven-host-onboarding-plan.md:508).
ActivatedHostsStayKnown == \A h \in Hosts : trusted[h] \subseteq known

==============================================================================
