------------------------------ MODULE AcceptedRun ------------------------------
(***************************************************************************)
(* One accepted run from the call that accepts it to its result, for every *)
(* kind of tool a worker executes itself: what JobManager.start_* checks   *)
(* and persists, what JobWorker checks again before it acts, and the steps *)
(* of the executors.  The run store, leases and the operation lock are     *)
(* DurableRun's; this module is about what happens between acceptance and  *)
(* execution: the configuration file, the files the run reads and the      *)
(* repository may change at any point.                                     *)
(***************************************************************************)
EXTENDS Integers, Sequences, FiniteSets, SSHPolicy

CONSTANTS Kinds,        \* the kinds of runs considered
          MaxEvents     \* bound on edits, stray writes and worker crashes

SSHKinds == {"ssh_command", "ssh_exec", "ssh_action", "reviewed_script",
             "root_shell", "upload", "download", "deployment"}
CloudflareKinds == {"cloudflare", "rotate"}
RepoKinds == {"project", "docker"}
AllKinds == SSHKinds \cup CloudflareKinds \cup RepoKinds
                \cup {"executable", "fixture"}

ASSUME KindsAssumption == Kinds \subseteq AllKinds
ASSUME EventsAssumption == MaxEvents \in Nat

VARIABLES
    disk,      \* the configuration file
    server,    \* the configuration the server process loaded
    source,    \* version of the local file the run takes its bytes from, 0: none
    run,       \* the durable run: phase, persisted input, status
    worker,    \* the worker's locals: configuration, position, what it read
    ran,       \* the executions that took place, in order
    repo,      \* HEAD and working tree of the repository of the run
    local,     \* files the run leaves on this machine
    remote,    \* the state of the host or service the run acts on
    events     \* edits, stray writes and crashes so far

vars == <<disk, server, source, run, worker, ran, repo, local, remote, events>>

----
(* Configuration and requests.                                             *)

Profiles == {"none", "read", "read2", "write"}
Tokens == {1, 2}
\* The part of config.yaml a run depends on: the capability switch, the gate
\* of its action, the confirmation token and the profile it names.
Configs == [enabled: BOOLEAN, gate: BOOLEAN, token: Tokens, profile: Profiles]

\* A request is high-risk by its action, or because it overwrites.
HighChoices(kind) ==
    CASE kind \in {"deployment", "rotate"} -> {TRUE}
      [] kind \in {"ssh_action", "upload", "download", "cloudflare", "docker"} -> BOOLEAN
      [] OTHER -> {FALSE}

Requests(kind) == [kind: {kind} \cap Kinds, high: HighChoices(kind), token: Tokens]

\* resolve_ssh_host and resolve_ssh_command_profile; resolve_command_profile.
HostKnown(c) == c.enabled
SSHProfileKnown(c) == HostKnown(c) /\ c.profile # "none"
CommandKnown(c) == c.profile # "none"
\* The exec profile of a container command.
ExecProfileKnown(c) == c.profile # "none"

\* A high-risk action needs its gate open and the configured token.
Confirmed(c, q) == q.high => c.gate /\ q.token = c.token

BuildSSHAction(c, q) ==
    /\ HostKnown(c)
    /\ Confirmed(c, q)
    /\ q.kind = "ssh_exec" => SSHProfileKnown(c)

BuildDockerAction(c, q) ==
    /\ c.enabled
    /\ Confirmed(c, q)
    /\ ~q.high => ExecProfileKnown(c)

\* Every Cloudflare action has a gate; the high-risk ones need the token too.
BuildCloudflareAction(c, q) ==
    /\ c.enabled /\ c.profile # "none"
    /\ c.gate
    /\ q.high => q.token = c.token

\* allow_transfer, and the token for an overwriting transfer.
TransferPermitted(c, q) ==
    /\ c.gate /\ HostKnown(c)
    /\ q.high => q.token = c.token

\* allow_deploy, the token always, and a deployment profile.
DeploymentPermitted(c, q) ==
    /\ c.gate /\ q.token = c.token
    /\ HostKnown(c) /\ c.profile # "none"

ExecutableEnabled(c) == c.enabled /\ c.profile # "none"
FixtureAllowed(c) == c.enabled

\* The checks against a configuration: by start_* with the one the server has,
\* by the worker with the one it has loaded.
Permits(c, q) ==
    CASE q.kind = "ssh_command" -> SSHProfileKnown(c)
      [] q.kind \in {"ssh_action", "ssh_exec"} -> BuildSSHAction(c, q)
      [] q.kind \in {"reviewed_script", "root_shell"} -> HostKnown(c)
      [] q.kind \in {"upload", "download"} -> TransferPermitted(c, q)
      [] q.kind = "deployment" -> DeploymentPermitted(c, q)
      [] q.kind \in CloudflareKinds -> BuildCloudflareAction(c, q)
      [] q.kind = "docker" -> BuildDockerAction(c, q)
      [] q.kind = "project" -> CommandKnown(c)
      [] q.kind = "executable" -> ExecutableEnabled(c)
      [] q.kind = "fixture" -> FixtureAllowed(c)

\* Whether the run writes to the host, by its profile or by its kind.
WritesRemote(c, q) ==
    CASE q.kind \in {"ssh_command", "ssh_exec"} -> c.profile = "write"
      [] q.kind = "download" -> FALSE
      [] OTHER -> TRUE

ModeOf(kind) ==
    CASE kind = "reviewed_script" -> "reviewed_script"
      [] kind = "root_shell" -> "root_shell"
      [] OTHER -> "structured"

\* Reviewed scripts and root shells have tier T4 whatever they declare.
TierOf(c, q) ==
    IF q.kind \in {"reviewed_script", "root_shell"}
    THEN ClassifyTier(TRUE, FALSE, FALSE)
    ELSE ClassifyTier(WritesRemote(c, q), FALSE, q.high)

\* Human approval is the confirmation token of a high-risk request.
PolicyAllows(c, q) ==
    q.kind \in SSHKinds =>
        Authorized(ModeOf(q.kind), {ModeOf(q.kind)}, TierOf(c, q), q.high)

NoMetadata == [mode |-> "structured", tier |-> "T0_read_only",
               decision |-> "blocked", approval |-> "none"]
MetadataOf(c, q) ==
    IF q.kind \in SSHKinds THEN PolicyMetadata(ModeOf(q.kind), TierOf(c, q))
    ELSE NoMetadata

\* Kinds whose input carries a digest of the bytes they will use: the staged
\* script, the inline script, the upload manifest, the executable identity.
PinnedKinds == {"reviewed_script", "root_shell", "upload", "executable"}

----
(* The steps of the executors.                                             *)

Paths == {"tracked", "untracked"}
Contents == 0..3        \* 0: the path does not exist

StepsOf(kind) ==
    CASE kind \in RepoKinds -> <<"before", "command", "after", "list", "read_tree",
                                 "add", "diff", "commit", "sync">>
      [] kind = "deployment" -> <<"archive", "prepare", "transfer", "extract", "link",
                                  "restart", "health", "activate", "cleanup">>
      [] kind = "rotate" -> <<"reserve", "credentials", "request", "write">>
      [] kind = "download" -> <<"fetch", "publish">>
      [] kind = "fixture" -> <<"fetch", "validate">>
      [] OTHER -> <<"execute">>

NoInput == [request |-> [kind |-> "none", high |-> FALSE, token |-> 1],
            metadata |-> NoMetadata, pin |-> 0]
NoWorker == [config |-> [enabled |-> FALSE, gate |-> FALSE, token |-> 1, profile |-> "none"],
             step |-> 0, checked |-> 0, payload |-> 0, outcome |-> "none",
             status |-> [p \in Paths |-> <<"same", "same">>], stat |-> [p \in Paths |-> "none"],
             introduced |-> {}, clean |-> {}, stillClean |-> {}, paths |-> {},
             tree |-> [p \in Paths |-> 0], parts |-> {}]

Init ==
    /\ disk \in [enabled: {TRUE}, gate: {TRUE}, token: {1}, profile: {"read", "write"}]
    /\ server = disk
    /\ source = 1
    /\ run = [phase |-> "none", input |-> NoInput, status |-> "none"]
    /\ worker = NoWorker
    /\ ran = << >>
    /\ LET head == [p \in Paths |-> IF p = "tracked" THEN 1 ELSE 0] IN
       repo = [head |-> head, work |-> head, index |-> head, touched |-> {}, theirs |-> {}]
    /\ local = [temp |-> "absent", dest |-> "absent", secret |-> 1, stuck |-> FALSE]
    /\ remote = [release |-> "none", services |-> "old", healthy |-> FALSE,
                 current |-> "old", secret |-> 1]
    /\ events = 0

request == run.input.request
At(step) == run.phase = "running" /\ StepsOf(request.kind)[worker.step] = step

\* an index after "git add -A" of the paths
WithWork(index, paths) ==
    [p \in Paths |-> IF p \in paths THEN repo.work[p] ELSE index[p]]

Spend == events < MaxEvents /\ events' = events + 1

----
(* The environment.                                                        *)

\* Someone edits one setting of config.yaml; once the worker has loaded the
\* file, edits no longer matter to the run.
EditConfig ==
    /\ run.phase \in {"none", "queued"} /\ worker.step = 0 /\ Spend
    /\ \/ disk' = [disk EXCEPT !.enabled = ~@]
       \/ disk' = [disk EXCEPT !.gate = ~@]
       \/ disk' = [disk EXCEPT !.token = 3 - @]
       \/ \E p \in Profiles \ {disk.profile} : disk' = [disk EXCEPT !.profile = p]
    /\ UNCHANGED <<server, source, run, worker, ran, repo, local, remote>>

\* The server restarts and loads the file.
ReloadServer ==
    /\ run.phase = "none" /\ server # disk
    /\ server' = disk
    /\ UNCHANGED <<disk, source, run, worker, ran, repo, local, remote, events>>

\* Someone replaces or deletes the file the run takes its bytes from.
EditSource ==
    /\ run.phase \in {"queued", "running"} /\ Spend
    /\ request.kind \in PinnedKinds \cup {"deployment"}
    /\ \E v \in 0..2 : v # source /\ source' = v
    /\ UNCHANGED <<disk, server, run, worker, ran, repo, local, remote>>

\* A user, or the command of the run itself, writes a path of the repository.
WriteFile ==
    /\ run.phase = "running" /\ request.kind \in RepoKinds /\ Spend
    /\ \E p \in Paths, c \in Contents :
          /\ c # repo.work[p]
          /\ repo' = [repo EXCEPT !.work[p] = c, !.touched = @ \cup {p}]
    /\ UNCHANGED <<disk, server, source, run, worker, ran, local, remote>>

\* A user stages paths as they are, a deletion or a rename included.
UserStage ==
    /\ run.phase = "running" /\ request.kind \in RepoKinds /\ Spend
    /\ \E files \in SUBSET Paths :
          /\ \E p \in files : repo.index[p] # repo.work[p]
          /\ repo' = [repo EXCEPT !.index = WithWork(@, files)]
    /\ UNCHANGED <<disk, server, source, run, worker, ran, local, remote>>

\* A user commits what is staged.
UserCommit ==
    /\ run.phase = "running" /\ request.kind \in RepoKinds /\ Spend
    /\ repo.index # repo.head
    /\ repo' = [repo EXCEPT !.head = repo.index,
                            !.theirs = @ \cup {p \in Paths : repo.index[p] # repo.head[p]}]
    /\ UNCHANGED <<disk, server, source, run, worker, ran, local, remote>>

\* The worker process dies; DurableRun models how the run is then closed.
WorkerDies ==
    /\ run.phase \in {"queued", "running"} /\ Spend
    /\ run' = [run EXCEPT !.phase = "dead"]
    /\ UNCHANGED <<disk, server, source, worker, ran, repo, local, remote>>

----
(* Acceptance and revalidation.                                            *)

\* What a call of start_* does once its request is checked with the server's
\* configuration: the run is created with what the worker will need.
Create(q, pin) ==
    /\ Permits(server, q) /\ PolicyAllows(server, q)
    /\ run' = [phase |-> "queued", status |-> "running",
               input |-> [request |-> q, metadata |-> MetadataOf(server, q), pin |-> pin]]
    /\ UNCHANGED <<disk, server, worker, ran, repo, local, remote, events>>

Asked(kind) == IF run.phase = "none" THEN Requests(kind) ELSE {}

StartSSHCommand == \E q \in Asked("ssh_command") : Create(q, 0) /\ UNCHANGED source
StartSSHAction ==
    \E q \in Asked("ssh_action") \cup Asked("ssh_exec") : Create(q, 0) /\ UNCHANGED source
\* The digest of the canonical script is persisted, and the script is staged.
StartReviewedScript ==
    \E q \in Asked("reviewed_script") : Create(q, 1) /\ source' = 1
StartRootShell == \E q \in Asked("root_shell") : Create(q, 1) /\ UNCHANGED source
\* An upload persists the manifest of its source.
StartTransfer ==
    /\ \/ \E q \in Asked("upload") : source # 0 /\ Create(q, source)
       \/ \E q \in Asked("download") : Create(q, 0)
    /\ UNCHANGED source
StartDeployment == \E q \in Asked("deployment") : Create(q, 0) /\ UNCHANGED source
StartCloudflare ==
    \E q \in Asked("cloudflare") \cup Asked("rotate") : Create(q, 0) /\ UNCHANGED source
StartDocker == \E q \in Asked("docker") : Create(q, 0) /\ UNCHANGED source
StartProjectCommand == \E q \in Asked("project") : Create(q, 0) /\ UNCHANGED source
\* The identity of the executable is persisted.
StartExecutable ==
    \E q \in Asked("executable") : source # 0 /\ Create(q, source) /\ UNCHANGED source
StartFixture == \E q \in Asked("fixture") : Create(q, 0) /\ UNCHANGED source

Accept ==
    \/ StartSSHCommand \/ StartSSHAction \/ StartReviewedScript \/ StartRootShell
    \/ StartTransfer \/ StartDeployment \/ StartCloudflare \/ StartDocker
    \/ StartProjectCommand \/ StartExecutable \/ StartFixture

\* The worker process starts and loads the configuration file.
LoadConfig ==
    /\ run.phase = "queued" /\ worker.step = 0
    /\ worker' = [worker EXCEPT !.config = disk, !.step = 1]
    /\ UNCHANGED <<disk, server, source, run, ran, repo, local, remote, events>>

\* The worker's evaluation of the policy must give the persisted metadata.
PolicyHolds(c, i) ==
    /\ PolicyAllows(c, i.request)
    /\ MetadataOf(c, i.request) = i.metadata

StagedScriptHolds(i, s) == s = i.pin
UploadHolds(i, s) == s = i.pin
ExecutableHolds(i, s) == s = i.pin

\* The bytes the worker finds have the persisted digest; a deployment's source
\* directory need only exist.
PinHolds(i, s) ==
    CASE i.request.kind = "reviewed_script" -> StagedScriptHolds(i, s)
      [] i.request.kind = "upload" -> UploadHolds(i, s)
      [] i.request.kind = "executable" -> ExecutableHolds(i, s)
      [] i.request.kind = "deployment" -> s # 0
      [] OTHER -> TRUE

\* The checks of the executor: either execution begins or the run fails with
\* nothing done.  The staged script is read here, once.
Revalidate ==
    /\ run.phase = "queued" /\ worker.step = 1
    /\ IF /\ Permits(worker.config, request)
          /\ PolicyHolds(worker.config, run.input)
          /\ PinHolds(run.input, source)
       THEN /\ run' = [run EXCEPT !.phase = "running"]
            /\ worker' = [worker EXCEPT !.checked = source,
                                        !.payload = IF request.kind = "reviewed_script"
                                                    THEN source ELSE run.input.pin]
       ELSE /\ run' = [run EXCEPT !.phase = "done", !.status = "failed"]
            /\ UNCHANGED worker
    /\ UNCHANGED <<disk, server, source, ran, repo, local, remote, events>>

----
(* Single-step executors.                                                  *)

\* The bytes an execution uses: scripts travel in memory, scp and Popen open
\* the file again.
Bytes == IF request.kind \in {"reviewed_script", "root_shell"}
         THEN worker.payload ELSE source

Execution(outcome) ==
    [kind |-> request.kind, config |-> worker.config, bytes |-> Bytes,
     checked |-> worker.checked, outcome |-> outcome]

\* How a child process can end: ssh, scp, docker, a project command.
SSHOutcomes == {"ok", "error", "timeout"}
ScpOutcomes == {"ok", "error", "timeout"}
DockerOutcomes == {"ok", "error", "timeout"}
CommandOutcomes == {"ok", "error", "timeout"}
\* A root payload must also prove that it ran as root.
PayloadOutcomes(kind) == SSHOutcomes \cup (IF kind = "root_shell" THEN {"not_root"} ELSE {})
\* The tree of a local executable that timed out may survive its termination.
ExecutableOutcomes == {"ok", "error", "timeout", "unkillable"}
\* A Cloudflare request answers or raises.
CloudflareOutcomes == {"ok", "error"}

\* The result's status: only some executors report a timeout as timed_out.
StatusOf(kind, outcome) ==
    CASE outcome = "ok" -> "completed"
      [] outcome = "timeout" /\ kind \in {"reviewed_script", "root_shell", "executable"}
                                    \cup RepoKinds -> "timed_out"
      [] outcome = "unkillable" -> "cancellation_pending"
      [] OTHER -> "failed"

Finish(status) == run' = [run EXCEPT !.phase = "done", !.status = status]
Advance == worker' = [worker EXCEPT !.step = @ + 1]

\* One child process or request, then the result.
ExecuteOnce(kinds, outcomes) ==
    /\ At("execute") /\ request.kind \in kinds
    /\ \E o \in outcomes :
          /\ ran' = Append(ran, Execution(o))
          /\ Finish(StatusOf(request.kind, o))
    /\ UNCHANGED <<disk, server, source, worker, repo, local, remote, events>>

ExecuteSSHCommand == ExecuteOnce({"ssh_command"}, SSHOutcomes)
ExecuteSSHAction == ExecuteOnce({"ssh_action", "ssh_exec"}, SSHOutcomes)
ExecuteReviewedScript == ExecuteOnce({"reviewed_script"}, PayloadOutcomes("reviewed_script"))
ExecuteRootShell == ExecuteOnce({"root_shell"}, PayloadOutcomes("root_shell"))
ExecuteCloudflare == ExecuteOnce({"cloudflare"}, CloudflareOutcomes)
ExecuteExecutable == source # 0 /\ ExecuteOnce({"executable"}, ExecutableOutcomes)
ExecuteUpload == source # 0 /\ ExecuteOnce({"upload"}, ScpOutcomes)

\* The file has gone since the check: the executor raises.
SourceGone ==
    /\ At("execute") /\ request.kind \in {"upload", "executable"} /\ source = 0
    /\ Finish("failed")
    /\ UNCHANGED <<disk, server, source, worker, ran, repo, local, remote, events>>

----
(* Repository commands and Docker actions.                                 *)

\* git reports a staged deletion and a staged addition as one rename, under the
\* name of the addition.
Renamed(p, q) ==
    /\ repo.head[p] # 0 /\ repo.index[p] = 0
    /\ repo.head[q] = 0 /\ repo.index[q] = repo.head[p]

\* the two letters of git status: the index against HEAD, and the file against
\* the index
Letter(from, to) ==
    IF from = to THEN "same" ELSE IF from = 0 THEN "new" ELSE IF to = 0 THEN "deleted"
    ELSE "modified"
GitStatus(p) ==
    << IF \E q \in Paths : Renamed(p, q) THEN "same"
       ELSE IF \E q \in Paths : Renamed(q, p) THEN "renamed"
       ELSE Letter(repo.head[p], repo.index[p]),
       Letter(repo.index[p], repo.work[p]) >>

\* git diff --stat: counts lines of paths in the index, so two different edits of
\* a path can have the same entry.
DiffStat(p) ==
    IF repo.index[p] = 0 THEN "none" ELSE Letter(repo.index[p], repo.work[p])
ChangedFiles == {p \in Paths : GitStatus(p) # <<"same", "same">>}

WritesFiles == worker.config.profile = "write" /\ ~request.high

\* git status, diff --stat, the dirty paths and a snapshot of the working tree.
RepoBefore ==
    /\ At("before")
    /\ repo' = [repo EXCEPT !.touched = {}]
    /\ worker' = [worker EXCEPT !.step = @ + 1, !.clean = Paths \ ChangedFiles,
                                !.status = [p \in Paths |-> GitStatus(p)],
                                !.stat = [p \in Paths |-> DiffStat(p)]]
    /\ UNCHANGED <<disk, server, source, run, ran, local, remote, events>>

RepoCommand ==
    /\ At("command")
    /\ \E o \in IF request.kind = "docker" THEN DockerOutcomes ELSE CommandOutcomes :
          /\ ran' = Append(ran, Execution(o))
          /\ worker' = [worker EXCEPT !.step = @ + 1, !.outcome = o]
    /\ UNCHANGED <<disk, server, source, run, repo, local, remote, events>>

\* mutant: every dirty path counts as introduced by the command.
IntroducedAll == ChangedFiles

\* classify_git_attribution: the paths that differ from HEAD and were written
\* since the first snapshot.
Introduced == repo.touched \cap ChangedFiles

\* mutant: only the diff stat is compared.
SafetyFailureStat ==
    ~WritesFiles /\ \E p \in Paths : worker.stat[p] # DiffStat(p)

\* A command whose profile does not write must leave both reports unchanged.
SafetyFailure ==
    /\ ~WritesFiles
    /\ \E p \in Paths : worker.status[p] # GitStatus(p) \/ worker.stat[p] # DiffStat(p)

RepoAfter ==
    /\ At("after")
    /\ worker' = [worker EXCEPT !.step = @ + 1, !.introduced = Introduced,
                                !.stillClean = Paths \ ChangedFiles]
    /\ IF worker.outcome = "ok" /\ ~SafetyFailure /\ WritesFiles
       THEN UNCHANGED run
       ELSE Finish(IF worker.outcome = "ok" /\ SafetyFailure THEN "failed"
                   ELSE StatusOf(request.kind, worker.outcome))
    /\ UNCHANGED <<disk, server, source, ran, repo, local, remote, events>>

(* finalize_explicit_changes: git calls of their own, between which a user    *)
(* may stage and commit.                                                     *)

\* What of the repository a git call of the run leaves alone.
Elsewhere == UNCHANGED <<disk, server, source, ran, local, remote, events>>

\* A git call that fails ends the run.
GitFails(step) ==
    /\ At(step) /\ Finish("failed")
    /\ UNCHANGED <<worker, repo>> /\ Elsewhere

\* _finalize_stage_paths: the introduced paths that are still reported, and with
\* one end of a reported rename the other one.
StagePaths ==
    (worker.introduced \cap ChangedFiles)
        \cup {p \in Paths : \E q \in worker.introduced : Renamed(p, q) \/ Renamed(q, p)}

RepoList ==
    /\ At("list")
    /\ IF StagePaths = {} THEN Finish("completed") /\ UNCHANGED worker
       ELSE /\ worker' = [worker EXCEPT !.step = @ + 1, !.paths = StagePaths]
            /\ UNCHANGED run
    /\ UNCHANGED repo /\ Elsewhere

\* An index of its own starts as HEAD is now.
RepoReadTree ==
    /\ At("read_tree")
    /\ worker' = [worker EXCEPT !.step = @ + 1, !.tree = repo.head]
    /\ repo' = [repo EXCEPT !.theirs = {}]
    /\ UNCHANGED run /\ Elsewhere

\* git add refuses a path that is neither a file nor in the index.
Unmatched(index) == \E p \in worker.paths : repo.work[p] = 0 /\ index[p] = 0

RepoAdd ==
    /\ At("add") /\ ~Unmatched(worker.tree)
    /\ worker' = [worker EXCEPT !.step = @ + 1, !.tree = WithWork(worker.tree, worker.paths)]
    /\ UNCHANGED <<run, repo>> /\ Elsewhere

RepoDiff ==
    /\ At("diff")
    /\ IF \A p \in worker.paths : worker.tree[p] = repo.head[p]
       THEN Finish("completed") /\ UNCHANGED worker
       ELSE Advance /\ UNCHANGED run
    /\ UNCHANGED repo /\ Elsewhere

\* git commit of that index on whatever HEAD is by then; it refuses an empty one.
RepoCommit ==
    /\ At("commit") /\ worker.tree # repo.head
    /\ repo' = [repo EXCEPT !.head = worker.tree]
    /\ Advance
    /\ UNCHANGED run /\ Elsewhere

\* The paths are added to the real index too; a commit made is reported as
\* failed when that fails, as it does for the source of a staged rename.
RepoSync ==
    /\ At("sync") /\ ~Unmatched(repo.index)
    /\ repo' = [repo EXCEPT !.index = WithWork(@, worker.paths)]
    /\ Finish("completed")
    /\ UNCHANGED worker /\ Elsewhere

FinalizeCommit ==
    \/ RepoList \/ RepoReadTree \/ RepoAdd \/ RepoDiff \/ RepoCommit \/ RepoSync
    \/ \E step \in {"list", "read_tree", "add", "diff", "commit", "sync"} : GitFails(step)

----
(* Deployment: every step is one ssh or scp call; a call that reports a     *)
(* failure or a timeout may still have taken effect on the host.            *)

DeploymentSteps == {"prepare", "transfer", "extract", "link", "restart", "health",
                    "activate"}
\* Shared files, services and a health command are there if the profile has them.
OptionalSteps == {"link", "restart", "health"}

Effect(step) ==
    CASE step \in {"prepare", "transfer", "extract", "link"} ->
             [remote EXCEPT !.release = step]
      [] step = "restart" -> [remote EXCEPT !.services = "new"]
      [] step = "health" -> [remote EXCEPT !.healthy = TRUE]
      [] step = "activate" -> [remote EXCEPT !.current = "new"]

\* The profile is resolved, and the archive built from the working tree as it is
\* now.
Archive ==
    /\ At("archive")
    /\ IF source = 0
       THEN Finish("failed") /\ UNCHANGED worker
       ELSE /\ \E parts \in SUBSET OptionalSteps :
                 worker' = [worker EXCEPT !.step = @ + 1, !.parts = parts]
            /\ UNCHANGED run
    /\ UNCHANGED <<disk, server, source, ran, repo, local, remote, events>>

\* Every required step ends the deployment when it fails.
StopsAfter(step) == step \in DeploymentSteps

DeployStep ==
    \E step \in DeploymentSteps :
        /\ At(step) /\ (step \in OptionalSteps => step \in worker.parts)
        /\ \/ /\ remote' = Effect(step)
              /\ Advance
              /\ UNCHANGED run
           \/ /\ remote' \in IF step = "health" THEN {remote} ELSE {remote, Effect(step)}
              /\ IF StopsAfter(step)
                 THEN Finish("failed") /\ UNCHANGED worker
                 ELSE Advance /\ UNCHANGED run
        /\ ran' = IF step = "prepare" THEN Append(ran, Execution("ok")) ELSE ran
        /\ UNCHANGED <<disk, server, source, repo, local, events>>

SkipStep ==
    /\ \E step \in OptionalSteps \ worker.parts : At(step)
    /\ Advance
    /\ UNCHANGED <<disk, server, source, run, ran, repo, local, remote, events>>

\* Removing the uploaded archive is not required to succeed.
DeployCleanup ==
    /\ At("cleanup")
    /\ Finish("completed")
    /\ UNCHANGED <<disk, server, source, worker, ran, repo, local, remote, events>>

----
(* Rotation of a Turnstile secret, download and fixture: what is fetched is  *)
(* first held in a temporary file.                                           *)

\* Removing the temporary file succeeds or fails; a failure is remembered here.
Discards == {[local EXCEPT !.temp = "absent"], [local EXCEPT !.stuck = TRUE]}

\* _prepare_secret_destination creates the temporary file, or removes what it
\* could not finish.
Reserve ==
    /\ At("reserve")
    /\ \/ /\ local' = [local EXCEPT !.temp = "partial"]
          /\ Advance /\ UNCHANGED run
       \/ /\ \/ UNCHANGED local
             \/ local' = [local EXCEPT !.temp = "partial", !.stuck = TRUE]
          /\ Finish("failed") /\ UNCHANGED worker
    /\ UNCHANGED <<disk, server, source, ran, repo, remote, events>>

\* The site key and the API token are looked up before the clause that removes
\* the file: a failure here leaves it behind.
LookUpCredentials ==
    /\ At("credentials")
    /\ \/ Advance /\ UNCHANGED run
       \/ Finish("failed") /\ UNCHANGED worker
    /\ UNCHANGED <<disk, server, source, ran, repo, local, remote, events>>

\* The request: the service may have rotated although no usable answer came.
RotateRequest ==
    /\ At("request")
    /\ \/ /\ remote' = [remote EXCEPT !.secret = 2]
          /\ ran' = Append(ran, Execution("ok"))
          /\ Advance
          /\ UNCHANGED <<run, local>>
       \/ /\ remote' \in {remote, [remote EXCEPT !.secret = 2]}
          /\ ran' = Append(ran, Execution("error"))
          /\ local' \in Discards
          /\ Finish("failed")
          /\ UNCHANGED worker
    /\ UNCHANGED <<disk, server, source, repo, events>>

\* The temporary file, complete, replaces the destination.
Published(value) ==
    IF request.kind = "rotate"
    THEN [local EXCEPT !.temp = "absent", !.secret = value]
    ELSE [local EXCEPT !.temp = "absent", !.dest = local.temp]

\* _write_env_secret: the file is rewritten and replaced, or the run fails.
WriteSecret ==
    /\ At("write")
    /\ \/ /\ local' = Published(remote.secret)
          /\ Finish("completed")
       \/ /\ local' \in Discards
          /\ Finish("failed")
    /\ UNCHANGED <<disk, server, source, worker, ran, repo, remote, events>>

\* scp into the .partial file, or the download of the fixture.
Fetch ==
    /\ At("fetch")
    /\ \E o \in ScpOutcomes, t \in {"absent", "partial", "whole"} :
          /\ o = "ok" => t # "partial"
          /\ ran' = Append(ran, Execution(o))
          /\ local' = [local EXCEPT !.temp = t]
          /\ worker' = [worker EXCEPT !.step = @ + 1, !.outcome = o]
    /\ UNCHANGED <<disk, server, source, run, repo, remote, events>>

\* scp reported success and the staging file is there.
Fetched == worker.outcome = "ok" /\ local.temp # "absent"

\* The complete download replaces its destination; a staging file that is not
\* published is removed, unless reading or replacing raised.
PublishDownload ==
    /\ At("publish")
    /\ \/ Fetched /\ local' = Published(0) /\ Finish("completed")
       \/ Fetched /\ local' = [local EXCEPT !.stuck = TRUE] /\ Finish("failed")
       \/ ~Fetched /\ local' \in Discards /\ Finish("failed")
    /\ UNCHANGED <<disk, server, source, worker, ran, repo, remote, events>>

\* The digest is compared, the fixture validated and, in the finally clause of
\* fetch_validate_and_discard, always discarded; if that fails it raises.
ValidateFixture ==
    /\ At("validate")
    /\ \E valid \in BOOLEAN :
          /\ local' \in Discards
          /\ Finish(IF valid /\ Fetched /\ local'.temp = "absent"
                    THEN "completed" ELSE "failed")
    /\ UNCHANGED <<disk, server, source, worker, ran, repo, remote, events>>

----
Next ==
    \/ EditConfig \/ ReloadServer \/ EditSource \/ WriteFile \/ WorkerDies
    \/ UserStage \/ UserCommit
    \/ Accept \/ LoadConfig \/ Revalidate
    \/ ExecuteSSHCommand \/ ExecuteSSHAction \/ ExecuteReviewedScript
    \/ ExecuteRootShell \/ ExecuteCloudflare \/ ExecuteExecutable \/ ExecuteUpload
    \/ SourceGone
    \/ RepoBefore \/ RepoCommand \/ RepoAfter \/ FinalizeCommit
    \/ Archive \/ DeployStep \/ SkipStep \/ DeployCleanup
    \/ Reserve \/ LookUpCredentials \/ RotateRequest \/ WriteSecret
    \/ Fetch \/ PublishDownload \/ ValidateFixture

Spec == Init /\ [][Next]_vars

----
Statuses == {"none", "running", "completed", "failed", "timed_out",
             "cancellation_pending"}

\* The types of all variables; one execution at most per run.
TypeOK ==
    /\ disk \in Configs /\ server \in Configs
    /\ source \in 0..2
    /\ run.phase \in {"none", "queued", "running", "done", "dead"}
    /\ run.status \in Statuses
    /\ run.input.metadata \in Metadata /\ run.input.pin \in 0..2
    /\ request.kind \in Kinds \cup {"none"}
    /\ worker.config \in Configs /\ worker.step \in 0..9
    /\ worker.introduced \subseteq Paths /\ worker.paths \subseteq Paths
    /\ worker.tree \in [Paths -> Contents] /\ worker.parts \subseteq OptionalSteps
    /\ Len(ran) <= 1
    /\ repo \in [head: [Paths -> Contents], work: [Paths -> Contents],
                 index: [Paths -> Contents], touched: SUBSET Paths, theirs: SUBSET Paths]
    /\ local \in [temp: {"absent", "partial", "whole"},
                  dest: {"absent", "partial", "whole"}, secret: 1..2, stuck: BOOLEAN]
    /\ remote \in [release: {"none", "prepare", "transfer", "extract", "link"},
                   services: {"old", "new"}, healthy: BOOLEAN,
                   current: {"old", "new"}, secret: 1..2]
    /\ events \in 0..MaxEvents

\* Whatever is executed is allowed by the configuration file as the worker found
\* it, not only as the server had loaded it when it accepted the run; and an SSH
\* run has, by the profile it really executes, the tier it was accepted with.
\* The worker rebuilds the request from the current configuration
\* (job_worker.py:183-231), so a run accepted as read-only must never execute
\* a profile that has become a writing one.
AuthorizedTwice ==
    \A i \in 1..Len(ran) :
        /\ Permits(ran[i].config, request)
        /\ request.kind \in SSHKinds =>
              TierOf(ran[i].config, request) = run.input.metadata.tier

\* A script runs with the bytes that were accepted, whatever happened to its
\* staged file; an upload or an executable only with bytes that were the
\* accepted ones when the worker looked (job_worker.py:270-435, 1057-1066).
AcceptedBytes ==
    \A i \in 1..Len(ran) :
        LET x == ran[i] IN
        /\ x.kind \in PinnedKinds \ {"root_shell"} => x.checked = run.input.pin
        /\ x.kind \in {"reviewed_script", "root_shell"} => x.bytes = run.input.pin

\* The commit of a repository command holds only paths written since the run
\* began, and the other ends of renames the user had staged of them: what was
\* dirty before and left alone stays uncommitted.  Any other path it changes is
\* one a user committed after the run had read HEAD (job_worker.py:2562-2650,
\* run_guards.py:153-170, git_tools.py:1233-1383).
CommitsOwnChanges ==
    [][/\ worker'.paths \subseteq worker.paths \cup repo.touched
              \cup {p \in Paths : \E q \in repo.touched : Renamed(p, q) \/ Renamed(q, p)}
       /\ events' = events => \A p \in Paths : repo'.head[p] # repo.head[p] =>
              WritesFiles /\ p \in worker.paths \cup repo.theirs]_vars

\* A completed command without write permission left every path that was clean
\* clean, new files included; a failed or timed out one never commits.
ReadOnlyIsReadOnly ==
    run.phase = "done" /\ request.kind \in RepoKinds /\ run.status = "completed"
        /\ ~WritesFiles
    => worker.clean \subseteq worker.stillClean

\* The link "current" is moved to a release that is unpacked and, as far as the
\* profile has these parts, has its shared files, had its services restarted and
\* passed its health check; a run that reports completed has moved it
\* (ssh_tools.py:1116-1296).
ActivatedWhenHealthy ==
    /\ remote.current = "new" =>
          /\ remote.release = IF "link" \in worker.parts THEN "link" ELSE "extract"
          /\ "restart" \in worker.parts => remote.services = "new"
          /\ "health" \in worker.parts => remote.healthy
    /\ request.kind = "deployment" /\ run.status = "completed" => remote.current = "new"

\* A run that ends leaves a temporary file only if removing it, or putting it in
\* place, failed, or, for a secret, if it stopped before it asked the service; a
\* completed one leaves none.  What it publishes is complete, and completed means
\* published: the downloaded file, or the secret the service now has
\* (ssh_tools.py:1058-1090, cloudflare_tools.py:251-353, 708-814, 1536-1548).
PublishedWhole ==
    /\ local.dest # "partial"
    /\ run.phase = "done" /\ local.temp # "absent" =>
          /\ run.status # "completed"
          /\ local.stuck \/ (request.kind = "rotate" /\ ran = << >>)
    /\ run.status = "completed" /\ request.kind = "download" => local.dest = "whole"
    /\ run.status = "completed" /\ request.kind = "rotate" => local.secret = remote.secret

\* What is executed is what was accepted: the permissions and the bytes, in one
\* execution at most.
ExecutedAsAccepted == TypeOK /\ AuthorizedTwice /\ AcceptedBytes

\* Completed means what the result says: nothing written without permission, a
\* healthy release activated, a whole file or secret published.
ResultTruthful == ReadOnlyIsReadOnly /\ ActivatedWhenHealthy /\ PublishedWhole

==============================================================================
