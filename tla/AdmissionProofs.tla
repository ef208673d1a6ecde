---------------------------- MODULE AdmissionProofs ----------------------------
(***************************************************************************)
(* Proofs about what is let in: an accepted run executes what was accepted *)
(* and its result is true, a host is brought in on its own evidence and a  *)
(* profile change writes what was previewed, and readiness and the served  *)
(* configuration say what is.  One inductive invariant per component:      *)
(* RunInv, OnboardingInv and LifecycleInv.                                 *)
(***************************************************************************)
EXTENDS MCAdmission, TLAPS

----
(* An accepted run, from acceptance to result (AcceptedRun).                *)

Outcomes == {"none", "ok", "error", "timeout", "unkillable", "not_root"}
Letters == {"same", "new", "deleted", "modified", "renamed"}
GitStates == Letters \X Letters
DiffStates == {"none"} \union Letters
RequestRecs == [kind: Kinds \union {"none"}, high: BOOLEAN, token: Tokens]
InputRecs == [request: RequestRecs, metadata: Metadata, pin: 0..2]
RunRecs == [phase: {"none", "queued", "running", "done", "dead"}, status: Statuses, input: InputRecs]
WorkerRecs == [config: Configs, step: 0..9, checked: 0..2, payload: 0..2, outcome: Outcomes,
               status: [Paths -> GitStates], stat: [Paths -> DiffStates],
               introduced: SUBSET Paths, clean: SUBSET Paths, stillClean: SUBSET Paths,
               paths: SUBSET Paths, tree: [Paths -> Contents], parts: SUBSET OptionalSteps]
ExecRecs == [kind: AllKinds, config: Configs, bytes: 0..2, checked: 0..2, outcome: Outcomes]
RepoRecs == [head: [Paths -> Contents], work: [Paths -> Contents],
             index: [Paths -> Contents], touched: SUBSET Paths, theirs: SUBSET Paths]
LocalRecs == [temp: {"absent", "partial", "whole"}, dest: {"absent", "partial", "whole"},
              secret: 1..2, stuck: BOOLEAN]
RemoteRecs == [release: {"none", "prepare", "transfer", "extract", "link"},
               services: {"old", "new"}, healthy: BOOLEAN, current: {"old", "new"}, secret: 1..2]

\* The number of steps of a kind, and the one that executes.
LastStep(kind) == CASE kind \in RepoKinds \union {"deployment"} -> 9 [] kind = "rotate" -> 4
                    [] kind \in {"download", "fixture"} -> 2 [] OTHER -> 1
ExecutesAt(kind) == IF kind \in RepoKinds \union {"deployment"} THEN 2
                    ELSE IF kind = "rotate" THEN 3 ELSE 1
Scripts == {"reviewed_script", "root_shell"}
Staging == {"rotate", "download", "fixture"}

RunTypes ==
    /\ disk \in Configs /\ server \in Configs /\ source \in 0..2
    /\ run \in RunRecs /\ worker \in WorkerRecs /\ ran \in Seq(ExecRecs) /\ Len(ran) <= 1
    /\ repo \in RepoRecs /\ local \in LocalRecs /\ remote \in RemoteRecs /\ events \in 0..MaxEvents

\* Nothing is executed before its step, and a run that is over has its status.
PhasesFit ==
    /\ run.phase \in {"none", "queued"} =>
          /\ worker.step \in 0..1 /\ Len(ran) = 0 /\ remote.current = "old"
          /\ local.temp = "absent"
    /\ run.phase # "done" => run.status \in {"none", "running"}
    /\ run.phase \in {"queued", "running"} => request.kind \in Kinds
    /\ run.phase = "running" =>
          /\ worker.step \in 1..LastStep(request.kind)
          /\ worker.step <= ExecutesAt(request.kind) => Len(ran) = 0

\* What is executed was checked by the worker, with the configuration it loaded.
Vetted(c, i, w) ==
    /\ Permits(c, i.request) /\ MetadataOf(c, i.request) = i.metadata
    /\ i.request.kind \in PinnedKinds \ {"root_shell"} => w.checked = i.pin
    /\ i.request.kind \in Scripts => w.payload = i.pin
Executed(x, i, w) ==
    /\ x.kind = i.request.kind /\ x.config = w.config /\ x.checked = w.checked
    /\ i.request.kind \in Scripts => x.bytes = w.payload
ExecutionFits ==
    /\ run.phase = "running" \/ Len(ran) # 0 => Vetted(worker.config, run.input, worker)
    /\ Len(ran) # 0 => Executed(ran[1], run.input, worker)

\* The index a commit is made of differs from HEAD in the paths of the run and in what a
\* user committed since.
Clean == <<"same", "same">>
BasedOn(w, r) == \A p \in Paths \ (w.paths \union r.theirs) : w.tree[p] = r.head[p]

\* A repository command: what was clean is what the first report called clean, and what is
\* to be committed was written since.
RepoFits ==
    request.kind \in RepoKinds /\ run.phase = "running" =>
        /\ worker.step >= 2 => \A p \in Paths : p \in worker.clean <=> worker.status[p] = Clean
        /\ worker.step >= 4 => WritesFiles /\ worker.introduced \subseteq repo.touched
        /\ worker.step >= 6 => BasedOn(worker, repo)

\* A deployment: what its steps have done, of the parts its profile has.
Unpacked(r, ps) == r.release = IF "link" \in ps THEN "link" ELSE "extract"
Restarted(r, ps) == "restart" \in ps => r.services = "new"
Checked(r, ps) == "health" \in ps => r.healthy
Activated(r, ps) ==
    r.current = "new" => Unpacked(r, ps) /\ Restarted(r, ps) /\ Checked(r, ps)
DeployFits ==
    request.kind = "deployment" /\ run.phase = "running" =>
        /\ worker.step = 5 => remote.release = "extract"
        /\ worker.step >= 6 => Unpacked(remote, worker.parts)
        /\ worker.step >= 7 => Restarted(remote, worker.parts)
        /\ worker.step >= 8 => Checked(remote, worker.parts)
        /\ worker.step <= 8 => remote.current = "old"
        /\ worker.step = 9 => remote.current = "new"

\* What is fetched is held in the temporary file, from the second step on.
TempFits ==
    /\ local.temp # "absent" /\ run.phase = "running" =>
          request.kind \in Staging /\ worker.step >= 2
    /\ run.phase = "running" /\ request.kind = "download" /\ worker.step = 2
          /\ worker.outcome = "ok" => local.temp # "partial"

ResultsFit == ReadOnlyIsReadOnly /\ ActivatedWhenHealthy /\ PublishedWhole

RunInv == /\ RunTypes /\ PhasesFit /\ ExecutionFits /\ RepoFits /\ DeployFits
          /\ TempFits /\ ResultsFit

\* What the invariant gives each step.
LEMMA RunFacts ==
    ASSUME RunInv
    PROVE  /\ disk \in Configs /\ server \in Configs /\ source \in 0..2
           /\ run \in RunRecs /\ worker \in WorkerRecs /\ ran \in Seq(ExecRecs)
           /\ Len(ran) <= 1 /\ repo \in RepoRecs /\ local \in LocalRecs /\ remote \in RemoteRecs
           /\ events \in 0..MaxEvents
           /\ PhasesFit /\ ExecutionFits /\ RepoFits /\ DeployFits /\ TempFits
           /\ ReadOnlyIsReadOnly /\ ActivatedWhenHealthy /\ PublishedWhole
BY DEF RunInv, RunTypes, ResultsFit

\* The fields of a run and its request.
LEMMA RequestFacts ==
    ASSUME run \in RunRecs
    PROVE  /\ run.input \in InputRecs /\ request \in RequestRecs
           /\ run.input.metadata \in Metadata /\ run.input.pin \in 0..2
           /\ request.kind \in Kinds \union {"none"} /\ request.high \in BOOLEAN
           /\ request.token \in Tokens
BY DEF RunRecs, InputRecs, RequestRecs, request

\* Where a running run is.
LEMMA RunPlaces ==
    ASSUME PhasesFit
    PROVE  /\ At("before") => request.kind \in RepoKinds /\ worker.step = 1
           /\ At("command") => request.kind \in RepoKinds /\ worker.step = 2
           /\ At("after") => request.kind \in RepoKinds /\ worker.step = 3
           /\ At("list") => request.kind \in RepoKinds /\ worker.step = 4
           /\ At("read_tree") => request.kind \in RepoKinds /\ worker.step = 5
           /\ At("add") => request.kind \in RepoKinds /\ worker.step = 6
           /\ At("diff") => request.kind \in RepoKinds /\ worker.step = 7
           /\ At("commit") => request.kind \in RepoKinds /\ worker.step = 8
           /\ At("sync") => request.kind \in RepoKinds /\ worker.step = 9
           /\ At("archive") => request.kind = "deployment" /\ worker.step = 1
           /\ At("prepare") => request.kind = "deployment" /\ worker.step = 2
           /\ At("transfer") => request.kind = "deployment" /\ worker.step = 3
           /\ At("extract") => request.kind = "deployment" /\ worker.step = 4
           /\ At("link") => request.kind = "deployment" /\ worker.step = 5
           /\ At("restart") => request.kind = "deployment" /\ worker.step = 6
           /\ At("health") => request.kind = "deployment" /\ worker.step = 7
           /\ At("activate") => request.kind = "deployment" /\ worker.step = 8
           /\ At("cleanup") => request.kind = "deployment" /\ worker.step = 9
           /\ At("reserve") => request.kind = "rotate" /\ worker.step = 1
           /\ At("credentials") => request.kind = "rotate" /\ worker.step = 2
           /\ At("request") => request.kind = "rotate" /\ worker.step = 3
           /\ At("write") => request.kind = "rotate" /\ worker.step = 4
           /\ At("fetch") => request.kind \in {"download", "fixture"} /\ worker.step = 1
           /\ At("publish") => request.kind = "download" /\ worker.step = 2
           /\ At("validate") => request.kind = "fixture" /\ worker.step = 2
           /\ At("execute") => worker.step = 1 /\ request.kind \notin RepoKinds
                 /\ request.kind \notin {"deployment", "rotate", "download", "fixture"}
<1> DEFINE k == request.kind
           f == StepsOf(k)
<1>0. CASE run.phase # "running" BY <1>0 DEF At
<1>1. CASE run.phase = "running"
  <2>0. worker.step \in 1..LastStep(k) BY <1>1 DEF PhasesFit
  <2>1. CASE k \in RepoKinds
    <3>1. /\ f[1] = "before" /\ f[2] = "command" /\ f[3] = "after" /\ f[4] = "list"
          /\ f[5] = "read_tree" /\ f[6] = "add" /\ f[7] = "diff" /\ f[8] = "commit"
          /\ f[9] = "sync"
      BY <2>1 DEF StepsOf, RepoKinds
    <3>2. worker.step \in 1..9 BY <2>0, <2>1 DEF LastStep, RepoKinds
    <3> HIDE DEF f
    <3>3. QED BY <1>1, <2>1, <3>1, <3>2 DEF At, f
  <2>2. CASE k = "deployment"
    <3>1. /\ f[1] = "archive" /\ f[2] = "prepare" /\ f[3] = "transfer" /\ f[4] = "extract"
          /\ f[5] = "link" /\ f[6] = "restart" /\ f[7] = "health" /\ f[8] = "activate"
          /\ f[9] = "cleanup"
      BY <2>2 DEF StepsOf, RepoKinds
    <3>2. worker.step \in 1..9 BY <2>0, <2>2 DEF LastStep, RepoKinds
    <3> HIDE DEF f
    <3>3. QED BY <1>1, <2>2, <3>1, <3>2 DEF At, f
  <2>3. CASE k = "rotate"
    <3>1. f[1] = "reserve" /\ f[2] = "credentials" /\ f[3] = "request" /\ f[4] = "write"
      BY <2>3 DEF StepsOf, RepoKinds
    <3>2. worker.step \in 1..4 BY <2>0, <2>3 DEF LastStep, RepoKinds
    <3> HIDE DEF f
    <3>3. QED BY <1>1, <2>3, <3>1, <3>2 DEF At, f
  <2>4. CASE k = "download"
    <3>1. f[1] = "fetch" /\ f[2] = "publish" BY <2>4 DEF StepsOf, RepoKinds
    <3>2. worker.step \in 1..2 BY <2>0, <2>4 DEF LastStep, RepoKinds
    <3> HIDE DEF f
    <3>3. QED BY <1>1, <2>4, <3>1, <3>2 DEF At, f
  <2>5. CASE k = "fixture"
    <3>1. f[1] = "fetch" /\ f[2] = "validate" BY <2>5 DEF StepsOf, RepoKinds
    <3>2. worker.step \in 1..2 BY <2>0, <2>5 DEF LastStep, RepoKinds
    <3> HIDE DEF f
    <3>3. QED BY <1>1, <2>5, <3>1, <3>2 DEF At, f
  <2>6. CASE k \notin RepoKinds \union {"deployment", "rotate", "download", "fixture"}
    <3>1. f[1] = "execute" BY <2>6 DEF StepsOf
    <3>2. worker.step = 1 BY <2>0, <2>6 DEF LastStep
    <3> HIDE DEF f
    <3>3. QED BY <1>1, <2>6, <3>1, <3>2 DEF At, f
  <2>7. QED BY <2>1, <2>2, <2>3, <2>4, <2>5, <2>6
<1>2. QED BY <1>0, <1>1

\* A run is at a step only while it runs.
LEMMA AtRunning == ASSUME NEW s, At(s) PROVE run.phase = "running"
BY DEF At

\* How an outcome reads as a status.
LEMMA StatusIs ==
    ASSUME NEW kind, NEW o \in Outcomes
    PROVE  /\ StatusOf(kind, o) \in Statuses \ {"none", "running"}
           /\ StatusOf(kind, o) = "completed" <=> o = "ok"
BY DEF StatusOf, Outcomes, Statuses

\* One execution at most is recorded, of what the worker checked.
LEMMA Recorded ==
    ASSUME RunInv, run.phase = "running", Len(ran) = 0, NEW o \in Outcomes,
           ran' = Append(ran, Execution(o))
    PROVE  /\ ran' \in Seq(ExecRecs) /\ Len(ran') = 1
           /\ Executed(ran'[1], run.input, worker)
<1> DEFINE x == Execution(o)
<1>1. Bytes \in 0..2 BY RunFacts DEF Bytes, WorkerRecs
<1>2. request.kind \in AllKinds BY RunFacts, KindsAssumption DEF PhasesFit
<1>3. worker.config \in Configs /\ worker.checked \in 0..2 BY RunFacts DEF WorkerRecs
<1>4. /\ x \in ExecRecs /\ x.kind = request.kind /\ x.config = worker.config
      /\ x.checked = worker.checked /\ x.bytes = Bytes
  BY <1>1, <1>2, <1>3 DEF Execution, ExecRecs
<1> HIDE DEF x
<1>5. ran' \in Seq(ExecRecs) /\ Len(ran') = 1 /\ ran'[1] = x BY <1>4, RunFacts DEF x
<1>6. request.kind \in Scripts => x.bytes = worker.payload BY <1>4 DEF Bytes, Scripts
<1>7. QED BY <1>4, <1>5, <1>6 DEF Executed, request

\* What the locals of a worker keep through most steps.
Same(r, w) == /\ r.config = w.config /\ r.checked = w.checked /\ r.payload = w.payload
              /\ r.paths = w.paths /\ r.parts = w.parts

\* A step that neither commits nor chooses what to commit.
Quiet == repo'.head = repo.head /\ worker'.paths = worker.paths

\* A run that is over failed.
LEMMA FailedIs ==
    /\ "failed" \in Statuses \ {"none", "running"}
    /\ "completed" \in Statuses \ {"none", "running"}
BY DEF Statuses

\* What a run leaves of its temporary file when it ends.
Left(l, status) == l.temp = "absent" \/ (status # "completed" /\ l.stuck)

\* A run ends: what its executor says of it is true.
LEMMA RunEnds ==
    ASSUME RunInv, run.phase = "running", NEW status \in Statuses \ {"none", "running"},
           Finish(status), UNCHANGED <<disk, server, source, events>>,
           worker' \in WorkerRecs, worker'.config = worker.config,
           worker'.checked = worker.checked, worker'.payload = worker.payload,
           repo' \in RepoRecs, local' \in LocalRecs, remote' \in RemoteRecs,
           \/ ran' = ran
           \/ /\ ran' \in Seq(ExecRecs) /\ Len(ran') = 1
              /\ Executed(ran'[1], run.input, worker),
           Left(local', status) \/ (status # "completed" /\ request.kind = "rotate" /\ ran' = << >>),
           local'.dest # "partial",
           status = "completed" /\ request.kind \in RepoKinds /\ ~WritesFiles =>
              worker'.clean \subseteq worker'.stillClean,
           Activated(remote', worker'.parts),
           status = "completed" /\ request.kind = "deployment" => remote'.current = "new",
           status = "completed" /\ request.kind = "download" => local'.dest = "whole",
           status = "completed" /\ request.kind = "rotate" => local'.secret = remote'.secret
    PROVE  RunInv'
<1>1. run' = [run EXCEPT !.phase = "done", !.status = status] BY DEF Finish
<1>2. /\ run' \in RunRecs /\ run'.phase = "done" /\ run'.status = status
      /\ run'.input = run.input
  BY <1>1, RunFacts DEF RunRecs
<1>3. request' = request BY <1>2 DEF request
<1>4. ran' \in Seq(ExecRecs) /\ Len(ran') <= 1
  <2>1. ran \in Seq(ExecRecs) /\ Len(ran) <= 1 BY RunFacts
  <2>2. CASE ran' = ran BY <2>1, <2>2
  <2>3. CASE ran' \in Seq(ExecRecs) /\ Len(ran') = 1 BY <2>3
  <2>4. QED BY <2>2, <2>3
<1>5. RunTypes' BY <1>2, <1>4, RunFacts DEF RunTypes
<1>6. PhasesFit' BY <1>2 DEF PhasesFit
<1>7. ExecutionFits'
  <2>1. Vetted(worker.config, run.input, worker) BY RunFacts DEF ExecutionFits
  <2>2. Vetted(worker'.config, run'.input, worker') BY <1>2, <2>1 DEF Vetted
  <2>3. Len(ran') # 0 => Executed(ran'[1], run.input, worker) BY RunFacts DEF ExecutionFits
  <2>4. Len(ran') # 0 => Executed(ran'[1], run'.input, worker') BY <1>2, <2>3 DEF Executed
  <2>5. QED BY <2>2, <2>4 DEF ExecutionFits
<1>8. RepoFits' /\ DeployFits' /\ TempFits' BY <1>2 DEF RepoFits, DeployFits, TempFits
<1>9. ReadOnlyIsReadOnly' BY <1>2, <1>3 DEF ReadOnlyIsReadOnly, WritesFiles
<1>10. ActivatedWhenHealthy'
  BY <1>2, <1>3 DEF ActivatedWhenHealthy, Activated, Unpacked, Restarted, Checked
<1>12. PublishedWhole' BY <1>2, <1>3 DEF PublishedWhole, Left
<1>11. QED BY <1>5, <1>6, <1>7, <1>8, <1>9, <1>10, <1>12 DEF RunInv, ResultsFit

\* A run goes on to its next step.
LEMMA RunGoesOn ==
    ASSUME RunInv, run.phase = "running", run' = run, UNCHANGED <<disk, server, source, events>>,
           worker' \in WorkerRecs, worker'.config = worker.config,
           worker'.checked = worker.checked, worker'.payload = worker.payload,
           worker'.step = worker.step + 1, worker.step < LastStep(request.kind),
           repo' \in RepoRecs, local' \in LocalRecs, remote' \in RemoteRecs,
           \/ ran' = ran /\ worker.step # ExecutesAt(request.kind)
           \/ /\ ran' \in Seq(ExecRecs) /\ Len(ran') = 1
              /\ Executed(ran'[1], run.input, worker)
              /\ worker.step = ExecutesAt(request.kind),
           RepoFits', DeployFits', TempFits', local'.dest = local.dest,
           Activated(remote', worker'.parts)
    PROVE  RunInv'
<1>1. request' = request BY DEF request
<1>2. request.kind \in Kinds /\ worker.step \in 1..LastStep(request.kind)
      /\ (worker.step <= ExecutesAt(request.kind) => Len(ran) = 0)
      /\ run.status \in {"none", "running"}
  BY RunFacts DEF PhasesFit
<1>3. LastStep(request.kind) \in Int /\ ExecutesAt(request.kind) \in Int BY DEF LastStep, ExecutesAt
<1>4. ran' \in Seq(ExecRecs) /\ Len(ran') <= 1
  <2>1. ran \in Seq(ExecRecs) /\ Len(ran) <= 1 BY RunFacts
  <2>2. CASE ran' = ran BY <2>1, <2>2
  <2>3. CASE ran' \in Seq(ExecRecs) /\ Len(ran') = 1 BY <2>3
  <2>4. QED BY <2>2, <2>3
<1>5. RunTypes' BY <1>4, RunFacts DEF RunTypes
<1>6. PhasesFit'
  <2>1. worker'.step \in 1..LastStep(request.kind) BY <1>2, <1>3
  <2>2. worker'.step <= ExecutesAt(request.kind) => ran' = ran /\ Len(ran) = 0 BY <1>2, <1>3
  <2>3. QED BY <1>1, <1>2, <2>1, <2>2 DEF PhasesFit
<1>7. ExecutionFits'
  <2>1. Vetted(worker.config, run.input, worker) BY RunFacts DEF ExecutionFits
  <2>2. Vetted(worker'.config, run'.input, worker') BY <2>1 DEF Vetted
  <2>3. Len(ran') # 0 => Executed(ran'[1], run.input, worker) BY RunFacts DEF ExecutionFits
  <2>4. Len(ran') # 0 => Executed(ran'[1], run'.input, worker') BY <2>3 DEF Executed
  <2>5. QED BY <2>2, <2>4 DEF ExecutionFits
<1>8. ReadOnlyIsReadOnly' /\ ActivatedWhenHealthy' /\ PublishedWhole'
  BY <1>1, <1>2, RunFacts DEF ReadOnlyIsReadOnly, ActivatedWhenHealthy, PublishedWhole,
                              Activated, Unpacked, Restarted, Checked
<1>9. QED BY <1>5, <1>6, <1>7, <1>8 DEF RunInv, ResultsFit

\* The world around a run changes: its files, and the configuration it has loaded or not.
LEMMA RunStands ==
    ASSUME RunInv, UNCHANGED <<run, worker, ran, local, remote>>,
           disk' \in Configs, server' \in Configs, source' \in 0..2, events' \in 0..MaxEvents,
           repo' \in RepoRecs, repo.touched \subseteq repo'.touched,
           \A p \in Paths : p \in repo'.theirs \/ (repo'.head[p] = repo.head[p] /\ p \notin repo.theirs)
    PROVE  RunInv'
<1>1. request' = request BY DEF request
<1>2. RunTypes' BY RunFacts DEF RunTypes
<1>3. PhasesFit' /\ ExecutionFits' BY <1>1, RunFacts DEF PhasesFit, ExecutionFits
<1>4. RepoFits'
  <2>1. BasedOn(worker, repo) => BasedOn(worker', repo') BY DEF BasedOn
  <2>2. QED BY <1>1, <2>1, RunFacts DEF RepoFits, WritesFiles
<1>5. DeployFits' /\ TempFits' BY <1>1, RunFacts DEF DeployFits, TempFits
<1>6. ReadOnlyIsReadOnly' /\ ActivatedWhenHealthy' /\ PublishedWhole'
  BY <1>1, RunFacts DEF ReadOnlyIsReadOnly, ActivatedWhenHealthy, PublishedWhole, WritesFiles
<1>7. QED BY <1>2, <1>3, <1>4, <1>5, <1>6 DEF RunInv, ResultsFit

\* One more event.
LEMMA OneMore == ASSUME events \in 0..MaxEvents, Spend PROVE events' \in 0..MaxEvents
BY EventsAssumption DEF Spend

\* What happens around a run.
LEMMA AroundStep ==
    ASSUME RunInv, EditConfig \/ ReloadServer \/ EditSource \/ WriteFile
    PROVE  RunInv' /\ Quiet
<1>1. CASE EditConfig
  <2>1. UNCHANGED <<server, source, run, worker, ran, repo, local, remote>> /\ Spend
    BY <1>1 DEF EditConfig
  <2>2. disk \in Configs BY RunFacts
  <2>3. \/ disk' = [disk EXCEPT !.enabled = ~disk.enabled]
        \/ disk' = [disk EXCEPT !.gate = ~disk.gate]
        \/ disk' = [disk EXCEPT !.token = 3 - disk.token]
        \/ \E p \in Profiles : disk' = [disk EXCEPT !.profile = p]
    BY <1>1 DEF EditConfig
  <2>4. disk' \in Configs
    <3>1. disk' = [disk EXCEPT !.enabled = ~disk.enabled] => disk' \in Configs BY <2>2 DEF Configs
    <3>2. disk' = [disk EXCEPT !.gate = ~disk.gate] => disk' \in Configs BY <2>2 DEF Configs
    <3>3. disk' = [disk EXCEPT !.token = 3 - disk.token] => disk' \in Configs
      <4>1. 3 - disk.token \in Tokens BY <2>2 DEF Configs, Tokens
      <4>2. QED BY <2>2, <4>1 DEF Configs
    <3>4. (\E p \in Profiles : disk' = [disk EXCEPT !.profile = p]) => disk' \in Configs
      BY <2>2 DEF Configs
    <3>5. QED BY <2>3, <3>1, <3>2, <3>3, <3>4
  <2>5. QED BY <2>1, <2>4, RunFacts, OneMore, RunStands DEF Quiet
<1>2. CASE ReloadServer
  <2>1. UNCHANGED <<disk, source, run, worker, ran, repo, local, remote, events>> /\ server' = disk
    BY <1>2 DEF ReloadServer
  <2>2. QED BY <2>1, RunFacts, RunStands DEF Quiet
<1>3. CASE EditSource
  <2>1. UNCHANGED <<disk, server, run, worker, ran, repo, local, remote>> /\ Spend
        /\ source' \in 0..2
    BY <1>3 DEF EditSource
  <2>2. QED BY <2>1, RunFacts, OneMore, RunStands DEF Quiet
<1>4. CASE WriteFile
  <2>1. UNCHANGED <<disk, server, source, run, worker, ran, local, remote>> /\ Spend
    BY <1>4 DEF WriteFile
  <2>2. PICK p \in Paths, c \in Contents :
           repo' = [repo EXCEPT !.work[p] = c, !.touched = repo.touched \union {p}]
    BY <1>4 DEF WriteFile
  <2>3. repo \in RepoRecs BY RunFacts
  <2>4. /\ repo'.head = repo.head /\ repo'.touched = repo.touched \union {p}
        /\ repo'.theirs = repo.theirs /\ repo' \in RepoRecs
    BY <2>2, <2>3 DEF RepoRecs
  <2>5. QED BY <2>1, <2>4, RunFacts, OneMore, RunStands DEF Quiet
<1>5. QED BY <1>1, <1>2, <1>3, <1>4

\* A user stages or commits.
LEMMA UserStep ==
    ASSUME RunInv, UserStage \/ UserCommit
    PROVE  RunInv' /\ worker' = worker /\ events' # events
<1>1. repo \in RepoRecs /\ events \in 0..MaxEvents BY RunFacts
<1>2. UNCHANGED <<disk, server, source, run, worker, ran, local, remote>> /\ Spend
  BY DEF UserStage, UserCommit
<1>3. events' # events BY <1>1, <1>2 DEF Spend
<1>4. CASE UserStage
  <2>1. PICK files \in SUBSET Paths : repo' = [repo EXCEPT !.index = WithWork(repo.index, files)]
    BY <1>4 DEF UserStage
  <2>2. WithWork(repo.index, files) \in [Paths -> Contents] BY <1>1 DEF WithWork, RepoRecs
  <2>3. /\ repo' \in RepoRecs /\ repo'.head = repo.head /\ repo'.touched = repo.touched
        /\ repo'.theirs = repo.theirs
    BY <1>1, <2>1, <2>2 DEF RepoRecs
  <2>4. RunInv' BY <1>2, <2>3, RunFacts, OneMore, RunStands
  <2>5. QED BY <1>2, <1>3, <2>4
<1>5. CASE UserCommit
  <2> DEFINE changed == {p \in Paths : repo.index[p] # repo.head[p]}
  <2>1. repo' = [repo EXCEPT !.head = repo.index, !.theirs = repo.theirs \union changed]
    BY <1>5 DEF UserCommit
  <2>2. /\ repo' \in RepoRecs /\ repo'.head = repo.index /\ repo'.touched = repo.touched
        /\ repo'.theirs = repo.theirs \union changed
    BY <1>1, <2>1 DEF RepoRecs
  <2>3. \A p \in Paths : p \in repo'.theirs \/ (repo'.head[p] = repo.head[p] /\ p \notin repo.theirs)
    BY <2>2
  <2>4. RunInv' BY <1>2, <2>2, <2>3, RunFacts, OneMore, RunStands
  <2>5. QED BY <1>2, <1>3, <2>4
<1>6. QED BY <1>4, <1>5

\* A worker dies, and what it did stays as it is.
LEMMA DeathStep ==
    ASSUME RunInv, WorkerDies
    PROVE  RunInv' /\ Quiet
<1>1. /\ run.phase \in {"queued", "running"} /\ run' = [run EXCEPT !.phase = "dead"] /\ Spend
      /\ UNCHANGED <<disk, server, source, worker, ran, repo, local, remote>>
  BY DEF WorkerDies
<1>2. run' \in RunRecs /\ run'.phase = "dead" /\ run'.status = run.status /\ run'.input = run.input
  BY <1>1, RunFacts DEF RunRecs
<1>3. request' = request /\ events' \in 0..MaxEvents /\ run.status \in {"none", "running"}
  BY <1>1, <1>2, RunFacts, OneMore DEF request, PhasesFit
<1>4. RunTypes' BY <1>1, <1>2, <1>3, RunFacts DEF RunTypes
<1>5. PhasesFit' BY <1>2, <1>3 DEF PhasesFit
<1>6. ExecutionFits' BY <1>1, <1>2, RunFacts DEF ExecutionFits
<1>7. RepoFits' /\ DeployFits' BY <1>2 DEF RepoFits, DeployFits
<1>8. TempFits' BY <1>2 DEF TempFits
<1>9. ReadOnlyIsReadOnly' /\ ActivatedWhenHealthy' /\ PublishedWhole'
  BY <1>1, <1>2, <1>3, RunFacts DEF ReadOnlyIsReadOnly, ActivatedWhenHealthy, PublishedWhole
<1>10. QED BY <1>1, <1>4, <1>5, <1>6, <1>7, <1>8, <1>9 DEF RunInv, ResultsFit, Quiet

\* A run is accepted.
LEMMA CreatedRun ==
    ASSUME RunInv, run.phase = "none", NEW q \in RequestRecs, q.kind \in Kinds, NEW pin \in 0..2,
           Create(q, pin), source' \in 0..2
    PROVE  RunInv' /\ Quiet
<1>1. /\ run' = [phase |-> "queued", status |-> "running",
                 input |-> [request |-> q, metadata |-> MetadataOf(server, q), pin |-> pin]]
      /\ UNCHANGED <<disk, server, worker, ran, repo, local, remote, events>>
  BY DEF Create
<1>2. MetadataOf(server, q) \in Metadata
  BY DEF MetadataOf, Metadata, NoMetadata, PolicyMetadata, ModeOf, TierOf, ClassifyTier, Evaluate,
         Modes, Tiers, ApprovalSources
<1>3. run' \in RunRecs /\ run'.phase = "queued" /\ run'.status = "running" /\ request'.kind \in Kinds
  BY <1>1, <1>2 DEF RunRecs, InputRecs, Statuses, request
<1>4. RunTypes' BY <1>1, <1>3, RunFacts DEF RunTypes
<1>5. PhasesFit' /\ Len(ran) = 0 /\ remote.current = "old" /\ local.temp = "absent"
  BY <1>1, <1>3, RunFacts DEF PhasesFit
<1>6. ExecutionFits' /\ RepoFits' /\ DeployFits' /\ TempFits'
  BY <1>1, <1>3, <1>5 DEF ExecutionFits, RepoFits, DeployFits, TempFits
<1>7. ReadOnlyIsReadOnly' /\ ActivatedWhenHealthy' /\ PublishedWhole'
  BY <1>1, <1>3, <1>5, RunFacts DEF ReadOnlyIsReadOnly, ActivatedWhenHealthy, PublishedWhole
<1>8. QED BY <1>1, <1>4, <1>5, <1>6, <1>7 DEF RunInv, ResultsFit, Quiet

\* What may be asked for.
LEMMA AskedIs ==
    ASSUME NEW kind, NEW q \in Asked(kind)
    PROVE  run.phase = "none" /\ q \in RequestRecs /\ q.kind \in Kinds
BY DEF Asked, Requests, RequestRecs, HighChoices

\* Acceptance, by any of the calls.
LEMMA AcceptStep ==
    ASSUME RunInv, Accept
    PROVE  RunInv' /\ Quiet
<1>1. source \in 0..2 BY RunFacts
<1>2. ASSUME NEW kind, NEW q \in Asked(kind), NEW pin \in 0..2, Create(q, pin), source' \in 0..2
      PROVE  RunInv' /\ Quiet
  BY <1>2, AskedIs, CreatedRun
<1>3. ASSUME NEW kind, NEW q \in Asked(kind), Create(q, 0), UNCHANGED source
      PROVE  RunInv' /\ Quiet
  BY <1>1, <1>2, <1>3
<1>4. CASE StartSSHCommand \/ StartSSHAction BY <1>3, <1>4 DEF StartSSHCommand, StartSSHAction
<1>5. CASE StartReviewedScript BY <1>2, <1>5 DEF StartReviewedScript
<1>6. CASE StartRootShell BY <1>1, <1>2, <1>6 DEF StartRootShell
<1>7. CASE StartTransfer BY <1>1, <1>2, <1>3, <1>7 DEF StartTransfer
<1>8. CASE StartDeployment \/ StartCloudflare BY <1>3, <1>8 DEF StartDeployment, StartCloudflare
<1>9. CASE StartDocker \/ StartProjectCommand \/ StartFixture
  BY <1>3, <1>9 DEF StartDocker, StartProjectCommand, StartFixture
<1>10. CASE StartExecutable BY <1>1, <1>2, <1>10 DEF StartExecutable
<1>11. QED BY <1>4, <1>5, <1>6, <1>7, <1>8, <1>9, <1>10 DEF Accept

\* The worker loads the configuration.
LEMMA LoadStep ==
    ASSUME RunInv, LoadConfig
    PROVE  RunInv' /\ Quiet
<1>1. /\ run.phase = "queued" /\ worker' = [worker EXCEPT !.config = disk, !.step = 1]
      /\ UNCHANGED <<disk, server, source, run, ran, repo, local, remote, events>>
  BY DEF LoadConfig
<1>2. worker' \in WorkerRecs /\ worker'.step = 1
  <2>1. worker \in WorkerRecs /\ disk \in Configs BY RunFacts
  <2>2. 1 \in 0..9
    OBVIOUS
  <2>3. [worker EXCEPT !.config = disk, !.step = 1] \in WorkerRecs BY <2>1, <2>2 DEF WorkerRecs
  <2>4. [worker EXCEPT !.config = disk, !.step = 1].step = 1 BY <2>1 DEF WorkerRecs
  <2>5. QED BY <1>1, <2>3, <2>4
<1>3. request' = request /\ Len(ran) = 0 BY <1>1, RunFacts DEF request, PhasesFit
<1>4. RunTypes' BY <1>1, <1>2, RunFacts DEF RunTypes
<1>5. PhasesFit' BY <1>1, <1>2, <1>3, RunFacts DEF PhasesFit
<1>6. ExecutionFits' /\ RepoFits' /\ DeployFits'
  BY <1>1, <1>3 DEF ExecutionFits, RepoFits, DeployFits
<1>7. TempFits' /\ ReadOnlyIsReadOnly' /\ ActivatedWhenHealthy' /\ PublishedWhole'
  BY <1>1, <1>3, RunFacts DEF TempFits, ReadOnlyIsReadOnly, ActivatedWhenHealthy, PublishedWhole
<1>8. QED BY <1>1, <1>4, <1>5, <1>6, <1>7 DEF RunInv, ResultsFit, Quiet

\* The worker checks the run again, and begins or fails.
LEMMA RevalidateStep ==
    ASSUME RunInv, Revalidate
    PROVE  RunInv' /\ Quiet
<1>0. run.phase = "queued" /\ worker.step = 1
      /\ UNCHANGED <<disk, server, source, ran, repo, local, remote, events>>
  BY DEF Revalidate
<1>1. /\ Len(ran) = 0 /\ remote.current = "old" /\ local.temp = "absent" /\ worker.step \in 0..1
      /\ run.status \in {"none", "running"}
  BY <1>0, RunFacts DEF PhasesFit
<1>2. CASE /\ Permits(worker.config, request) /\ PolicyHolds(worker.config, run.input)
           /\ PinHolds(run.input, source) /\ run' = [run EXCEPT !.phase = "running"]
           /\ worker' = [worker EXCEPT !.checked = source,
                                       !.payload = IF request.kind = "reviewed_script"
                                                   THEN source ELSE run.input.pin]
  <2>1. run' \in RunRecs /\ run'.phase = "running" /\ run'.status = run.status
        /\ run'.input = run.input
    BY <1>2, RunFacts DEF RunRecs
  <2>2. source \in 0..2 /\ run.input.pin \in 0..2 BY RunFacts, RequestFacts
  <2>3. /\ worker' \in WorkerRecs /\ worker'.config = worker.config /\ worker'.step = worker.step
        /\ worker'.checked = source /\ worker'.paths = worker.paths
        /\ worker'.payload = IF request.kind = "reviewed_script" THEN source ELSE run.input.pin
    BY <1>2, <2>2, RunFacts DEF WorkerRecs
  <2>4. request' = request BY <2>1 DEF request
  <2>5. RunTypes' BY <1>0, <2>1, <2>3, RunFacts DEF RunTypes
  <2>6. request.kind \in Kinds BY <1>0, RunFacts DEF PhasesFit
  <2>7. PhasesFit' BY <1>0, <1>1, <2>1, <2>3, <2>4, <2>6 DEF PhasesFit, LastStep, ExecutesAt
  <2>8. Vetted(worker'.config, run'.input, worker')
    <3>1. MetadataOf(worker.config, request) = run.input.metadata BY <1>2 DEF PolicyHolds, request
    <3>2. request.kind \in {"reviewed_script", "upload", "executable"} => source = run.input.pin
      BY <1>2 DEF PinHolds, StagedScriptHolds, UploadHolds, ExecutableHolds, request
    <3>3. request.kind \in PinnedKinds \ {"root_shell"}
             => request.kind \in {"reviewed_script", "upload", "executable"}
      BY DEF PinnedKinds
    <3>4. request.kind \in Scripts => worker'.payload = run.input.pin BY <2>3, <3>2 DEF Scripts
    <3>5. QED BY <1>2, <2>1, <2>3, <3>1, <3>2, <3>3, <3>4 DEF Vetted, request
  <2>9. ExecutionFits' BY <1>0, <1>1, <2>8 DEF ExecutionFits
  <2>10. RepoFits' /\ DeployFits' /\ TempFits'
    BY <1>0, <1>1, <2>3 DEF RepoFits, DeployFits, TempFits
  <2>11. ReadOnlyIsReadOnly' /\ ActivatedWhenHealthy' /\ PublishedWhole'
    BY <1>0, <1>1, <2>1, <2>4, RunFacts DEF ReadOnlyIsReadOnly, ActivatedWhenHealthy, PublishedWhole
  <2>12. RunInv' BY <2>5, <2>7, <2>9, <2>10, <2>11 DEF RunInv, ResultsFit
  <2>13. QED BY <1>0, <2>3, <2>12 DEF Quiet
<1>3. CASE run' = [run EXCEPT !.phase = "done", !.status = "failed"] /\ UNCHANGED worker
  <2>1. run' \in RunRecs /\ run'.phase = "done" /\ run'.status = "failed" /\ run'.input = run.input
    BY <1>3, RunFacts DEF RunRecs, Statuses
  <2>2. RunTypes' BY <1>0, <1>3, <2>1, RunFacts DEF RunTypes
  <2>3. PhasesFit' /\ ExecutionFits' /\ RepoFits' /\ DeployFits' /\ TempFits'
    BY <1>0, <1>1, <2>1 DEF PhasesFit, ExecutionFits, RepoFits, DeployFits, TempFits
  <2>4. ReadOnlyIsReadOnly' /\ ActivatedWhenHealthy' /\ PublishedWhole'
    BY <1>0, <1>1, <2>1, RunFacts DEF ReadOnlyIsReadOnly, ActivatedWhenHealthy, PublishedWhole
  <2>5. QED BY <1>0, <1>3, <2>2, <2>3, <2>4 DEF RunInv, ResultsFit, Quiet
<1>4. QED BY <1>2, <1>3 DEF Revalidate

\* A single execution, and the result.
LEMMA OnceStep ==
    ASSUME RunInv, NEW kinds, NEW outcomes \in SUBSET Outcomes, ExecuteOnce(kinds, outcomes)
    PROVE  RunInv' /\ Quiet
<1>1. /\ At("execute") /\ UNCHANGED <<disk, server, source, worker, repo, local, remote, events>>
  BY DEF ExecuteOnce
<1>2. PICK o \in outcomes : ran' = Append(ran, Execution(o)) /\ Finish(StatusOf(request.kind, o))
  BY DEF ExecuteOnce
<1>3. /\ run.phase = "running" /\ worker.step = 1 /\ request.kind \notin RepoKinds
      /\ request.kind \notin {"deployment", "rotate", "download", "fixture"}
  BY <1>1, AtRunning, RunFacts, RunPlaces
<1>4. Len(ran) = 0 /\ local.temp = "absent" BY <1>3, RunFacts DEF PhasesFit, ExecutesAt, TempFits
<1>5. StatusOf(request.kind, o) \in Statuses \ {"none", "running"} BY StatusIs
<1>6. ran' \in Seq(ExecRecs) /\ Len(ran') = 1 /\ Executed(ran'[1], run.input, worker)
  BY <1>2, <1>3, <1>4, Recorded
<1>7. local.dest # "partial" /\ Activated(remote, worker.parts)
  BY RunFacts DEF PublishedWhole, ActivatedWhenHealthy, Activated, Unpacked, Restarted, Checked
<1> DEFINE status == StatusOf(request.kind, o)
<1>8. status \in Statuses \ {"none", "running"} /\ Finish(status) BY <1>2, <1>5
<1> HIDE DEF status
<1>9. RunInv' BY <1>1, <1>3, <1>4, <1>6, <1>7, <1>8, RunFacts, RunEnds DEF Left
<1>10. QED BY <1>1, <1>9 DEF Quiet

\* The file has gone.
LEMMA GoneStep ==
    ASSUME RunInv, SourceGone
    PROVE  RunInv' /\ Quiet
<1>1. /\ At("execute") /\ Finish("failed")
      /\ UNCHANGED <<disk, server, source, worker, ran, repo, local, remote, events>>
  BY DEF SourceGone
<1>2. /\ run.phase = "running" /\ worker.step = 1
      /\ request.kind \notin {"deployment", "rotate", "download", "fixture"}
  BY <1>1, AtRunning, RunFacts, RunPlaces
<1>3. local.temp = "absent" /\ local.dest # "partial" /\ Activated(remote, worker.parts)
  BY <1>2, RunFacts DEF TempFits, Staging, PublishedWhole, ActivatedWhenHealthy, Activated,
                        Unpacked, Restarted, Checked
<1>4. "failed" \in Statuses \ {"none", "running"} BY DEF Statuses
<1>5. RunInv' BY <1>1, <1>2, <1>3, <1>4, RunFacts, RunEnds DEF Left
<1>6. QED BY <1>1, <1>5 DEF Quiet

\* The executors of one step.
LEMMA SingleStep ==
    ASSUME RunInv,
           \/ ExecuteSSHCommand \/ ExecuteSSHAction \/ ExecuteReviewedScript \/ ExecuteRootShell
           \/ ExecuteCloudflare \/ ExecuteExecutable \/ ExecuteUpload \/ SourceGone
    PROVE  RunInv' /\ Quiet
<1>1. /\ SSHOutcomes \in SUBSET Outcomes /\ ScpOutcomes \in SUBSET Outcomes
      /\ PayloadOutcomes("reviewed_script") \in SUBSET Outcomes
      /\ PayloadOutcomes("root_shell") \in SUBSET Outcomes
      /\ CloudflareOutcomes \in SUBSET Outcomes /\ ExecutableOutcomes \in SUBSET Outcomes
  BY DEF SSHOutcomes, ScpOutcomes, PayloadOutcomes, CloudflareOutcomes, ExecutableOutcomes, Outcomes
<1>2. QED BY <1>1, OnceStep, GoneStep
     DEF ExecuteSSHCommand, ExecuteSSHAction, ExecuteReviewedScript, ExecuteRootShell,
         ExecuteCloudflare, ExecuteExecutable, ExecuteUpload

----
(* Its longer executors: repository commands, deployments, what is fetched. *)

\* What holds of a run under way: where it is, and what stays as it is while it runs.
LEMMA RunningFacts ==
    ASSUME RunInv, run.phase = "running"
    PROVE  /\ worker.step \in 1..LastStep(request.kind) /\ request.kind \in Kinds
           /\ (worker.step <= ExecutesAt(request.kind) => Len(ran) = 0)
           /\ (local.temp # "absent" => request.kind \in Staging /\ worker.step >= 2)
           /\ local.dest # "partial"
           /\ Activated(remote, worker.parts)
BY RunFacts DEF PhasesFit, TempFits, PublishedWhole, ActivatedWhenHealthy, Activated, Unpacked,
                Restarted, Checked

\* The reports on the working tree.
LEMMA ReportsAre ==
    /\ [p \in Paths |-> GitStatus(p)] \in [Paths -> GitStates]
    /\ [p \in Paths |-> DiffStat(p)] \in [Paths -> DiffStates]
    /\ ChangedFiles \subseteq Paths /\ Introduced \subseteq repo.touched
    /\ \A p \in Paths : p \in ChangedFiles <=> GitStatus(p) # Clean
<1>1. \A a, b : Letter(a, b) \in Letters BY DEF Letter, Letters
<1>2. \A p : GitStatus(p) \in GitStates BY <1>1 DEF GitStatus, GitStates, Letters
<1>3. \A p : DiffStat(p) \in DiffStates BY <1>1 DEF DiffStat, DiffStates
<1>4. QED BY <1>2, <1>3 DEF ChangedFiles, Introduced, Clean

\* The steps of the kinds.
LEMMA StepCounts ==
    ASSUME NEW kind
    PROVE  /\ kind \in RepoKinds => LastStep(kind) = 9 /\ ExecutesAt(kind) = 2
           /\ kind = "deployment" => LastStep(kind) = 9 /\ ExecutesAt(kind) = 2
           /\ kind = "rotate" => LastStep(kind) = 4 /\ ExecutesAt(kind) = 3
           /\ kind \in {"download", "fixture"} => LastStep(kind) = 2 /\ ExecutesAt(kind) = 1
<1>1. kind \in RepoKinds => LastStep(kind) = 9 /\ ExecutesAt(kind) = 2
  BY DEF LastStep, ExecutesAt, RepoKinds
<1>2. kind = "deployment" => LastStep(kind) = 9 /\ ExecutesAt(kind) = 2
  BY DEF LastStep, ExecutesAt, RepoKinds
<1>3. kind = "rotate" => LastStep(kind) = 4 /\ ExecutesAt(kind) = 3
  BY DEF LastStep, ExecutesAt, RepoKinds
<1>4. kind \in {"download", "fixture"} => LastStep(kind) = 2 /\ ExecutesAt(kind) = 1
  BY DEF LastStep, ExecutesAt, RepoKinds
<1>5. QED BY <1>1, <1>2, <1>3, <1>4

\* What the worker's locals are after each kind of step.
Reporting(w, n, a, f, g) == [w EXCEPT !.step = n, !.clean = a, !.status = f, !.stat = g]
Returning(w, n, o) == [w EXCEPT !.step = n, !.outcome = o]
Comparing(w, n, a, b) == [w EXCEPT !.step = n, !.introduced = a, !.stillClean = b]
Advancing(w, n) == [w EXCEPT !.step = n]

\* The locals after the first report.
LEMMA Reported ==
    ASSUME NEW w \in WorkerRecs, NEW n \in 0..9, NEW a \in SUBSET Paths,
           NEW f \in [Paths -> GitStates], NEW g \in [Paths -> DiffStates]
    PROVE  /\ Reporting(w, n, a, f, g) \in WorkerRecs /\ Same(Reporting(w, n, a, f, g), w)
           /\ Reporting(w, n, a, f, g).step = n /\ Reporting(w, n, a, f, g).clean = a
           /\ Reporting(w, n, a, f, g).status = f
<1>1. Reporting(w, n, a, f, g) \in WorkerRecs BY DEF WorkerRecs, Reporting
<1>2. Same(Reporting(w, n, a, f, g), w) BY DEF WorkerRecs, Same, Reporting
<1>3. /\ Reporting(w, n, a, f, g).step = n /\ Reporting(w, n, a, f, g).clean = a
      /\ Reporting(w, n, a, f, g).status = f
  BY DEF WorkerRecs, Reporting
<1>4. QED BY <1>1, <1>2, <1>3

\* The locals after a child process.
LEMMA Returned ==
    ASSUME NEW w \in WorkerRecs, NEW n \in 0..9, NEW o \in Outcomes
    PROVE  /\ Returning(w, n, o) \in WorkerRecs /\ Same(Returning(w, n, o), w)
           /\ Returning(w, n, o).step = n /\ Returning(w, n, o).outcome = o
           /\ Returning(w, n, o).clean = w.clean /\ Returning(w, n, o).status = w.status
<1>1. Returning(w, n, o) \in WorkerRecs BY DEF WorkerRecs, Returning
<1>2. Same(Returning(w, n, o), w) BY DEF WorkerRecs, Same, Returning
<1>3. /\ Returning(w, n, o).step = n /\ Returning(w, n, o).outcome = o
      /\ Returning(w, n, o).clean = w.clean /\ Returning(w, n, o).status = w.status
  BY DEF WorkerRecs, Returning
<1>4. QED BY <1>1, <1>2, <1>3

\* The locals after the second report.
LEMMA Compared ==
    ASSUME NEW w \in WorkerRecs, NEW n \in 0..9, NEW a \in SUBSET Paths, NEW b \in SUBSET Paths
    PROVE  /\ Comparing(w, n, a, b) \in WorkerRecs /\ Same(Comparing(w, n, a, b), w)
           /\ Comparing(w, n, a, b).step = n /\ Comparing(w, n, a, b).introduced = a
           /\ Comparing(w, n, a, b).stillClean = b /\ Comparing(w, n, a, b).clean = w.clean
           /\ Comparing(w, n, a, b).status = w.status
<1>1. Comparing(w, n, a, b) \in WorkerRecs BY DEF WorkerRecs, Comparing
<1>2. Same(Comparing(w, n, a, b), w) BY DEF WorkerRecs, Same, Comparing
<1>3. /\ Comparing(w, n, a, b).step = n /\ Comparing(w, n, a, b).introduced = a
      /\ Comparing(w, n, a, b).stillClean = b /\ Comparing(w, n, a, b).clean = w.clean
      /\ Comparing(w, n, a, b).status = w.status
  BY DEF WorkerRecs, Comparing
<1>4. QED BY <1>1, <1>2, <1>3

\* The locals after any other step.
LEMMA Advanced ==
    ASSUME NEW w \in WorkerRecs, NEW n \in 0..9
    PROVE  /\ Advancing(w, n) \in WorkerRecs /\ Same(Advancing(w, n), w)
           /\ Advancing(w, n).step = n /\ Advancing(w, n).outcome = w.outcome
<1>1. Advancing(w, n) \in WorkerRecs BY DEF WorkerRecs, Advancing
<1>2. Same(Advancing(w, n), w) BY DEF WorkerRecs, Same, Advancing
<1>3. /\ Advancing(w, n).step = n /\ Advancing(w, n).outcome = w.outcome
  BY DEF WorkerRecs, Advancing
<1>4. QED BY <1>1, <1>2, <1>3

\* The first report.
LEMMA BeforeStep ==
    ASSUME RunInv, RepoBefore
    PROVE  RunInv' /\ Quiet
<1> DEFINE w == [worker EXCEPT !.step = worker.step + 1, !.clean = Paths \ ChangedFiles,
                               !.status = [p \in Paths |-> GitStatus(p)],
                               !.stat = [p \in Paths |-> DiffStat(p)]]
<1>1. /\ At("before") /\ repo' = [repo EXCEPT !.touched = {}] /\ worker' = w
      /\ UNCHANGED <<disk, server, source, run, ran, local, remote, events>>
  BY DEF RepoBefore
<1>2. run.phase = "running" /\ request.kind \in RepoKinds /\ worker.step = 1
  BY <1>1, AtRunning, RunFacts, RunPlaces
<1>3. repo' \in RepoRecs /\ repo'.head = repo.head BY <1>1, RunFacts DEF RepoRecs
<1>4. worker.step + 1 \in 0..9 /\ worker \in WorkerRecs BY <1>2, RunFacts
<1> DEFINE n == worker.step + 1
           f == [p \in Paths |-> GitStatus(p)]
           g == [p \in Paths |-> DiffStat(p)]
<1>5. n \in 0..9 /\ n = 2 /\ f \in [Paths -> GitStates] /\ g \in [Paths -> DiffStates]
  BY <1>2, ReportsAre
<1> HIDE DEF n, f, g
<1>6. /\ w \in WorkerRecs /\ w.step = 2 /\ w.config = worker.config /\ w.checked = worker.checked
      /\ w.payload = worker.payload /\ w.clean = Paths \ ChangedFiles /\ w.status = f
      /\ w.paths = worker.paths /\ w.parts = worker.parts
  <2>1. w = Reporting(worker, n, Paths \ ChangedFiles, f, g) BY DEF n, f, g, Reporting
  <2> HIDE DEF w
  <2>2. Paths \ ChangedFiles \in SUBSET Paths
    OBVIOUS
  <2>3. w \in WorkerRecs /\ Same(w, worker) /\ w.step = n /\ w.clean = Paths \ ChangedFiles
        /\ w.status = f
    BY <1>4, <1>5, <2>1, <2>2, Reported
  <2>4. QED BY <1>5, <2>3 DEF Same
<1> HIDE DEF w
<1>7. request' = request BY <1>1 DEF request
<1>8. \A p \in Paths : p \in w.clean <=> w.status[p] = Clean BY <1>6, ReportsAre DEF f
<1>9. RepoFits' BY <1>1, <1>6, <1>8 DEF RepoFits
<1>10. DeployFits' /\ TempFits'
  BY <1>1, <1>2, <1>7, RunningFacts DEF DeployFits, TempFits, RepoKinds, Staging
<1>11. worker.step < LastStep(request.kind) /\ worker.step # ExecutesAt(request.kind)
  BY <1>2, StepCounts
<1>12. RunInv' BY <1>1, <1>2, <1>3, <1>6, <1>9, <1>10, <1>11, RunFacts, RunningFacts, RunGoesOn
<1>13. QED BY <1>1, <1>3, <1>6, <1>12 DEF Quiet, Same

\* The command.
LEMMA CommandStep ==
    ASSUME RunInv, RepoCommand
    PROVE  RunInv' /\ Quiet
<1>1. At("command") /\ UNCHANGED <<disk, server, source, run, repo, local, remote, events>>
  BY DEF RepoCommand
<1>2. PICK o \in Outcomes : /\ ran' = Append(ran, Execution(o))
                            /\ worker' = [worker EXCEPT !.step = worker.step + 1, !.outcome = o]
  BY DEF RepoCommand, DockerOutcomes, CommandOutcomes, Outcomes
<1>3. run.phase = "running" /\ request.kind \in RepoKinds /\ worker.step = 2
  BY <1>1, AtRunning, RunFacts, RunPlaces
<1>4. worker.step + 1 \in 0..9 /\ worker \in WorkerRecs BY <1>3, RunFacts
<1>5. /\ worker' \in WorkerRecs /\ worker'.step = 3 /\ worker'.config = worker.config
      /\ worker'.checked = worker.checked /\ worker'.payload = worker.payload
      /\ worker'.clean = worker.clean /\ worker'.status = worker.status
      /\ worker'.paths = worker.paths /\ worker'.parts = worker.parts
  <2>1. /\ worker' \in WorkerRecs /\ Same(worker', worker) /\ worker'.step = worker.step + 1
        /\ worker'.clean = worker.clean /\ worker'.status = worker.status
    <3>1. worker' = Returning(worker, worker.step + 1, o) BY <1>2 DEF Returning
    <3>2. QED BY <1>4, <3>1, Returned
  <2>2. QED BY <1>3, <2>1 DEF Same
<1>6. worker.step = ExecutesAt(request.kind) /\ worker.step < LastStep(request.kind)
  BY <1>3, StepCounts
<1>7. Len(ran) = 0 BY <1>3, <1>6, RunningFacts
<1>8. ran' \in Seq(ExecRecs) /\ Len(ran') = 1 /\ Executed(ran'[1], run.input, worker)
  BY <1>2, <1>3, <1>7, Recorded
<1>9. request' = request BY <1>1 DEF request
<1>10. RepoFits' BY <1>1, <1>3, <1>5, RunFacts DEF RepoFits
<1>11. DeployFits' /\ TempFits'
  BY <1>1, <1>3, <1>9, RunningFacts DEF DeployFits, TempFits, RepoKinds, Staging
<1>12. RunInv' BY <1>1, <1>3, <1>5, <1>6, <1>8, <1>10, <1>11, RunFacts, RunningFacts, RunGoesOn
<1>13. QED BY <1>1, <1>5, <1>12 DEF Quiet, Same

\* The second report: the run ends here unless there is something to commit.
LEMMA AfterStep ==
    ASSUME RunInv, RepoAfter
    PROVE  RunInv' /\ Quiet
<1> DEFINE w == [worker EXCEPT !.step = worker.step + 1, !.introduced = Introduced,
                               !.stillClean = Paths \ ChangedFiles]
           status == IF worker.outcome = "ok" /\ SafetyFailure THEN "failed"
                     ELSE StatusOf(request.kind, worker.outcome)
<1>1. /\ At("after") /\ worker' = w
      /\ UNCHANGED <<disk, server, source, ran, repo, local, remote, events>>
      /\ IF worker.outcome = "ok" /\ ~SafetyFailure /\ WritesFiles
         THEN UNCHANGED run ELSE Finish(status)
  BY DEF RepoAfter
<1>2. run.phase = "running" /\ request.kind \in RepoKinds /\ worker.step = 3
  BY <1>1, AtRunning, RunFacts, RunPlaces
<1>3. worker.step + 1 \in 0..9 /\ worker \in WorkerRecs BY <1>2, RunFacts
<1>4. Introduced \subseteq Paths BY DEF Introduced, ChangedFiles
<1>5. /\ w \in WorkerRecs /\ w.step = 4 /\ w.config = worker.config /\ w.checked = worker.checked
      /\ w.payload = worker.payload /\ w.clean = worker.clean /\ w.status = worker.status
      /\ w.introduced = Introduced /\ w.stillClean = Paths \ ChangedFiles
      /\ w.paths = worker.paths /\ w.parts = worker.parts
  <2>1. w = Comparing(worker, worker.step + 1, Introduced, Paths \ ChangedFiles) BY DEF Comparing
  <2> HIDE DEF w
  <2>2. Paths \ ChangedFiles \in SUBSET Paths
    OBVIOUS
  <2>3. /\ w \in WorkerRecs /\ Same(w, worker) /\ w.step = worker.step + 1
        /\ w.introduced = Introduced /\ w.stillClean = Paths \ ChangedFiles
        /\ w.clean = worker.clean /\ w.status = worker.status
    BY <1>3, <1>4, <2>1, <2>2, Compared
  <2>4. QED BY <1>2, <2>3 DEF Same
<1>6. \A p \in Paths : p \in worker.clean <=> worker.status[p] = Clean
  BY <1>2, RunFacts DEF RepoFits
<1>7. worker.outcome \in Outcomes /\ worker.clean \subseteq Paths BY <1>3 DEF WorkerRecs
<1> HIDE DEF w
<1>8. CASE worker.outcome = "ok" /\ ~SafetyFailure /\ WritesFiles
  <2>1. run' = run /\ request' = request BY <1>1, <1>8 DEF request
  <2>2. RepoFits' BY <1>1, <1>5, <1>6, <1>8, <2>1, ReportsAre DEF RepoFits, WritesFiles
  <2>3. DeployFits' /\ TempFits'
    BY <1>1, <1>2, <2>1, RunningFacts DEF DeployFits, TempFits, RepoKinds, Staging
  <2>4. worker.step < LastStep(request.kind) /\ worker.step # ExecutesAt(request.kind)
    BY <1>2, StepCounts
  <2>5. RunInv' BY <1>1, <1>2, <1>5, <2>1, <2>2, <2>3, <2>4, RunFacts, RunningFacts, RunGoesOn
  <2>6. QED BY <1>1, <1>5, <2>5 DEF Quiet
<1>9. CASE ~(worker.outcome = "ok" /\ ~SafetyFailure /\ WritesFiles)
  <2>1. Finish(status) BY <1>1, <1>9
  <2>2. status \in Statuses \ {"none", "running"}
        /\ (status = "completed" => worker.outcome = "ok" /\ ~SafetyFailure)
    BY <1>7, StatusIs DEF Statuses
  <2> HIDE DEF status
  <2>3. status = "completed" /\ ~WritesFiles => w.clean \subseteq w.stillClean
    <3>1. SUFFICES ASSUME status = "completed", ~WritesFiles, NEW p \in worker.clean
                   PROVE  p \notin ChangedFiles /\ p \in Paths
      BY <1>5
    <3>2. ~SafetyFailure /\ p \in Paths BY <1>7, <2>2, <3>1
    <3>3. worker.status[p] = GitStatus(p) BY <3>1, <3>2 DEF SafetyFailure
    <3>4. GitStatus(p) = Clean BY <1>6, <3>2, <3>3
    <3>5. QED BY <3>2, <3>4, ReportsAre
  <2>4. local.temp = "absent" /\ request.kind \notin {"deployment", "download", "rotate"}
    BY <1>2, RunningFacts DEF RepoKinds, Staging
  <2>5. RunInv'
    BY <1>1, <1>2, <1>5, <2>1, <2>2, <2>3, <2>4, RunFacts, RunningFacts, RunEnds DEF Left
  <2>6. QED BY <1>1, <1>5, <2>5 DEF Quiet
<1>10. QED BY <1>1, <1>8, <1>9

\* The other ends of the renames a user has staged of the given files.
Ends(files) == {p \in Paths : \E q \in files : Renamed(p, q) \/ Renamed(q, p)}

\* A run at one of the calls that make its commit.
LEMMA Committing ==
    ASSUME RunInv, run.phase = "running", request.kind \in RepoKinds, worker.step >= 4
    PROVE  /\ WritesFiles /\ worker.introduced \subseteq repo.touched
           /\ worker \in WorkerRecs /\ repo \in RepoRecs /\ local.temp = "absent"
           /\ request.kind \notin {"deployment", "download", "rotate"}
           /\ LastStep(request.kind) = 9 /\ ExecutesAt(request.kind) = 2
           /\ worker.step \in 1..9 /\ local.dest # "partial" /\ Activated(remote, worker.parts)
           /\ worker.step >= 6 => BasedOn(worker, repo)
           /\ \A p \in Paths : p \in worker.clean <=> worker.status[p] = Clean
           /\ PhasesFit /\ local \in LocalRecs /\ remote \in RemoteRecs
<1>1. worker.step \in 1..9 /\ LastStep(request.kind) = 9 /\ ExecutesAt(request.kind) = 2
  BY RunningFacts, StepCounts
<1>2. /\ WritesFiles /\ worker.introduced \subseteq repo.touched
      /\ worker.step >= 6 => BasedOn(worker, repo)
      /\ \A p \in Paths : p \in worker.clean <=> worker.status[p] = Clean
  BY <1>1, RunFacts DEF RepoFits
<1>3. QED BY <1>1, <1>2, RunFacts, RunningFacts DEF RepoKinds, Staging

\* Such a call ends the run, or takes it to the next one.
LEMMA CommitEnds ==
    ASSUME RunInv, run.phase = "running", request.kind \in RepoKinds, worker.step >= 4,
           worker' = worker, repo' \in RepoRecs, Elsewhere,
           Finish("completed") \/ Finish("failed")
    PROVE  RunInv'
<1>1. UNCHANGED <<disk, server, source, ran, local, remote, events>> BY DEF Elsewhere
<1>2. WritesFiles /\ local.temp = "absent" /\ local.dest # "partial"
      /\ request.kind \notin {"deployment", "download", "rotate"}
      /\ Activated(remote, worker.parts)
  BY Committing
<1>3. Left(local', "completed") /\ Left(local', "failed") BY <1>1, <1>2 DEF Left
<1>4. QED BY <1>1, <1>2, <1>3, FailedIs, RunFacts, RunEnds

\* What it takes with it.
LEMMA CommitGoesOn ==
    ASSUME RunInv, run.phase = "running", request.kind \in RepoKinds, worker.step \in 4..8,
           run' = run, Elsewhere, repo' \in RepoRecs, repo'.touched = repo.touched,
           worker' \in WorkerRecs, worker'.step = worker.step + 1,
           worker'.config = worker.config, worker'.checked = worker.checked,
           worker'.payload = worker.payload, worker'.parts = worker.parts,
           worker'.clean = worker.clean, worker'.status = worker.status,
           worker'.introduced = worker.introduced,
           worker'.step >= 6 => BasedOn(worker', repo')
    PROVE  RunInv'
<1>1. UNCHANGED <<disk, server, source, ran, local, remote, events>> /\ request' = request
  BY DEF Elsewhere, request
<1>2. /\ WritesFiles /\ worker.introduced \subseteq repo.touched /\ local.temp = "absent"
      /\ request.kind \notin {"deployment", "download", "rotate"} /\ local.dest # "partial"
      /\ LastStep(request.kind) = 9 /\ ExecutesAt(request.kind) = 2
      /\ Activated(remote, worker.parts)
      /\ \A p \in Paths : p \in worker.clean <=> worker.status[p] = Clean
  BY Committing
<1>3. RepoFits' BY <1>1, <1>2 DEF RepoFits, WritesFiles
<1>4. DeployFits' /\ TempFits' BY <1>1, <1>2 DEF DeployFits, TempFits
<1>5. worker.step < LastStep(request.kind) /\ worker.step # ExecutesAt(request.kind) BY <1>2
<1>6. QED BY <1>1, <1>2, <1>3, <1>4, <1>5, RunFacts, RunGoesOn

\* The locals of a worker that makes a commit.
Listing(w, n, a) == [w EXCEPT !.step = n, !.paths = a]
Indexing(w, n, t) == [w EXCEPT !.step = n, !.tree = t]

\* The locals after the paths are listed.
LEMMA Listed ==
    ASSUME NEW w \in WorkerRecs, NEW n \in 0..9, NEW a \in SUBSET Paths
    PROVE  LET z == Listing(w, n, a) IN
           /\ z \in WorkerRecs /\ z.step = n /\ z.paths = a /\ z.config = w.config
           /\ z.checked = w.checked /\ z.payload = w.payload /\ z.parts = w.parts
           /\ z.clean = w.clean /\ z.status = w.status /\ z.introduced = w.introduced
<1> DEFINE z == Listing(w, n, a)
<1>1. z \in WorkerRecs BY DEF WorkerRecs, Listing
<1>2. /\ z.step = n /\ z.paths = a /\ z.config = w.config
      /\ z.checked = w.checked /\ z.payload = w.payload /\ z.parts = w.parts
      /\ z.clean = w.clean /\ z.status = w.status /\ z.introduced = w.introduced
  BY DEF WorkerRecs, Listing
<1>3. QED BY <1>1, <1>2

\* The locals after the index of its own changes.
LEMMA Indexed ==
    ASSUME NEW w \in WorkerRecs, NEW n \in 0..9, NEW t \in [Paths -> Contents]
    PROVE  LET z == Indexing(w, n, t) IN
           /\ z \in WorkerRecs /\ z.step = n /\ z.tree = t /\ z.paths = w.paths
           /\ z.config = w.config /\ z.checked = w.checked /\ z.payload = w.payload
           /\ z.parts = w.parts /\ z.clean = w.clean /\ z.status = w.status
           /\ z.introduced = w.introduced
<1> DEFINE z == Indexing(w, n, t)
<1>1. z \in WorkerRecs BY DEF WorkerRecs, Indexing
<1>2. /\ z.step = n /\ z.tree = t /\ z.paths = w.paths
      /\ z.config = w.config /\ z.checked = w.checked /\ z.payload = w.payload
      /\ z.parts = w.parts /\ z.clean = w.clean /\ z.status = w.status
      /\ z.introduced = w.introduced
  BY DEF WorkerRecs, Indexing
<1>3. QED BY <1>1, <1>2

\* The paths of the commit: changed ones written since the run began, and other ends.
LEMMA ListStep ==
    ASSUME RunInv, RepoList
    PROVE  /\ RunInv' /\ repo' = repo
           /\ worker'.paths \subseteq worker.paths \union repo.touched \union Ends(repo.touched)
<1>1. At("list") /\ Elsewhere /\ repo' = repo BY DEF RepoList
<1>2. run.phase = "running" /\ request.kind \in RepoKinds /\ worker.step = 4
  BY <1>1, AtRunning, RunFacts, RunPlaces
<1>3. worker \in WorkerRecs /\ repo \in RepoRecs /\ worker.introduced \subseteq repo.touched
  BY <1>2, Committing
<1>4. StagePaths \subseteq repo.touched \union Ends(repo.touched) /\ StagePaths \subseteq Paths
  BY <1>3 DEF StagePaths, Ends, ChangedFiles
<1>5. CASE Finish("completed") /\ UNCHANGED worker BY <1>1, <1>2, <1>3, <1>5, CommitEnds
<1>6. CASE worker' = [worker EXCEPT !.step = worker.step + 1, !.paths = StagePaths] /\ UNCHANGED run
  <2>1. worker' = Listing(worker, 5, StagePaths) BY <1>2, <1>6 DEF Listing
  <2>2. 5 \in 0..9 /\ StagePaths \in SUBSET Paths BY <1>4
  <2>3. /\ worker' \in WorkerRecs /\ worker'.step = 5 /\ worker'.paths = StagePaths
        /\ worker'.config = worker.config /\ worker'.checked = worker.checked
        /\ worker'.payload = worker.payload /\ worker'.parts = worker.parts
        /\ worker'.clean = worker.clean /\ worker'.status = worker.status
        /\ worker'.introduced = worker.introduced
    BY <1>3, <2>1, <2>2, Listed
  <2>4. RunInv' BY <1>1, <1>2, <1>3, <1>6, <2>3, CommitGoesOn
  <2>5. QED BY <1>1, <1>4, <2>3, <2>4
<1>7. QED BY <1>5, <1>6 DEF RepoList

\* The index of the commit starts as HEAD.
LEMMA ReadTreeStep ==
    ASSUME RunInv, RepoReadTree
    PROVE  RunInv' /\ Quiet
<1>1. /\ At("read_tree") /\ Elsewhere /\ repo' = [repo EXCEPT !.theirs = {}] /\ run' = run
      /\ worker' = [worker EXCEPT !.step = worker.step + 1, !.tree = repo.head]
  BY DEF RepoReadTree
<1>2. run.phase = "running" /\ request.kind \in RepoKinds /\ worker.step = 5
  BY <1>1, AtRunning, RunFacts, RunPlaces
<1>3. worker \in WorkerRecs /\ repo \in RepoRecs BY RunFacts
<1>4. /\ repo' \in RepoRecs /\ repo'.head = repo.head /\ repo'.touched = repo.touched
      /\ repo.head \in [Paths -> Contents]
  BY <1>1, <1>3 DEF RepoRecs
<1>5. worker' = Indexing(worker, 6, repo.head) /\ 6 \in 0..9 BY <1>1, <1>2 DEF Indexing
<1>6. /\ worker' \in WorkerRecs /\ worker'.step = 6 /\ worker'.tree = repo.head
      /\ worker'.paths = worker.paths
      /\ worker'.config = worker.config /\ worker'.checked = worker.checked
      /\ worker'.payload = worker.payload /\ worker'.parts = worker.parts
      /\ worker'.clean = worker.clean /\ worker'.status = worker.status
      /\ worker'.introduced = worker.introduced
  BY <1>3, <1>4, <1>5, Indexed
<1>7. BasedOn(worker', repo') BY <1>4, <1>6 DEF BasedOn
<1>8. RunInv' BY <1>1, <1>2, <1>4, <1>6, <1>7, CommitGoesOn
<1>9. QED BY <1>4, <1>6, <1>8 DEF Quiet

\* The paths are added to it.
LEMMA AddStep ==
    ASSUME RunInv, RepoAdd
    PROVE  RunInv' /\ Quiet
<1> DEFINE t == WithWork(worker.tree, worker.paths)
<1>1. /\ At("add") /\ Elsewhere /\ repo' = repo /\ run' = run
      /\ worker' = [worker EXCEPT !.step = worker.step + 1, !.tree = t]
  BY DEF RepoAdd
<1>2. run.phase = "running" /\ request.kind \in RepoKinds /\ worker.step = 6
  BY <1>1, AtRunning, RunFacts, RunPlaces
<1>3. worker \in WorkerRecs /\ repo \in RepoRecs /\ BasedOn(worker, repo)
  BY <1>2, RunFacts, Committing
<1>4. t \in [Paths -> Contents] /\ \A p \in Paths \ worker.paths : t[p] = worker.tree[p]
  BY <1>3 DEF WithWork, RepoRecs, WorkerRecs
<1> HIDE DEF t
<1>5. worker' = Indexing(worker, 7, t) /\ 7 \in 0..9 BY <1>1, <1>2 DEF Indexing
<1>6. /\ worker' \in WorkerRecs /\ worker'.step = 7 /\ worker'.tree = t
      /\ worker'.paths = worker.paths
      /\ worker'.config = worker.config /\ worker'.checked = worker.checked
      /\ worker'.payload = worker.payload /\ worker'.parts = worker.parts
      /\ worker'.clean = worker.clean /\ worker'.status = worker.status
      /\ worker'.introduced = worker.introduced
  BY <1>3, <1>4, <1>5, Indexed
<1>7. BasedOn(worker', repo') BY <1>1, <1>3, <1>4, <1>6 DEF BasedOn
<1>8. RunInv' BY <1>1, <1>2, <1>3, <1>6, <1>7, CommitGoesOn
<1>9. QED BY <1>1, <1>6, <1>8 DEF Quiet

\* The locals after a call that only advances.
LEMMA CommitAdvances ==
    ASSUME worker \in WorkerRecs, worker.step \in 1..8, Advance
    PROVE  /\ worker' \in WorkerRecs /\ worker'.step = worker.step + 1
           /\ worker'.tree = worker.tree /\ worker'.paths = worker.paths
           /\ worker'.config = worker.config /\ worker'.checked = worker.checked
           /\ worker'.payload = worker.payload /\ worker'.parts = worker.parts
           /\ worker'.clean = worker.clean /\ worker'.status = worker.status
           /\ worker'.introduced = worker.introduced
<1>1. worker.tree \in [Paths -> Contents] /\ worker.step + 1 \in 0..9 BY DEF WorkerRecs
<1>2. worker' = Indexing(worker, worker.step + 1, worker.tree) BY DEF Advance, WorkerRecs, Indexing
<1>3. QED BY <1>1, <1>2, Indexed

\* The diff decides whether there is anything to commit.
LEMMA DiffStep ==
    ASSUME RunInv, RepoDiff
    PROVE  RunInv' /\ Quiet
<1>1. At("diff") /\ Elsewhere /\ repo' = repo BY DEF RepoDiff
<1>2. run.phase = "running" /\ request.kind \in RepoKinds /\ worker.step = 7
  BY <1>1, AtRunning, RunFacts, RunPlaces
<1>3. worker \in WorkerRecs /\ repo \in RepoRecs /\ BasedOn(worker, repo)
  BY <1>2, RunFacts, Committing
<1>4. CASE Finish("completed") /\ UNCHANGED worker
  <2>1. RunInv' BY <1>1, <1>2, <1>3, <1>4, CommitEnds
  <2>2. QED BY <1>1, <1>4, <2>1 DEF Quiet
<1>5. CASE Advance /\ UNCHANGED run
  <2>1. /\ worker' \in WorkerRecs /\ worker'.step = 8
        /\ worker'.tree = worker.tree /\ worker'.paths = worker.paths
        /\ worker'.config = worker.config /\ worker'.checked = worker.checked
        /\ worker'.payload = worker.payload /\ worker'.parts = worker.parts
        /\ worker'.clean = worker.clean /\ worker'.status = worker.status
        /\ worker'.introduced = worker.introduced
    BY <1>2, <1>3, <1>5, CommitAdvances
  <2>2. BasedOn(worker', repo') BY <1>1, <1>3, <2>1 DEF BasedOn
  <2>3. RunInv' BY <1>1, <1>2, <1>3, <1>5, <2>1, <2>2, CommitGoesOn
  <2>4. QED BY <1>1, <2>1, <2>3 DEF Quiet
<1>6. QED BY <1>4, <1>5 DEF RepoDiff

\* The commit changes the paths of the run, and takes back what a user committed since.
LEMMA CommitStep ==
    ASSUME RunInv, RepoCommit
    PROVE  /\ RunInv' /\ worker'.paths = worker.paths
           /\ \A p \in Paths : repo'.head[p] # repo.head[p] =>
                 WritesFiles /\ p \in worker.paths \union repo.theirs
<1>1. /\ At("commit") /\ Elsewhere /\ run' = run /\ Advance
      /\ repo' = [repo EXCEPT !.head = worker.tree]
  BY DEF RepoCommit
<1>2. run.phase = "running" /\ request.kind \in RepoKinds /\ worker.step = 8
  BY <1>1, AtRunning, RunFacts, RunPlaces
<1>3. worker \in WorkerRecs /\ repo \in RepoRecs /\ BasedOn(worker, repo) /\ WritesFiles
  BY <1>2, RunFacts, Committing
<1>4. repo' \in RepoRecs /\ repo'.head = worker.tree /\ repo'.touched = repo.touched
  BY <1>1, <1>3 DEF RepoRecs, WorkerRecs
<1>5. /\ worker' \in WorkerRecs /\ worker'.step = 9
      /\ worker'.tree = worker.tree /\ worker'.paths = worker.paths
      /\ worker'.config = worker.config /\ worker'.checked = worker.checked
      /\ worker'.payload = worker.payload /\ worker'.parts = worker.parts
      /\ worker'.clean = worker.clean /\ worker'.status = worker.status
      /\ worker'.introduced = worker.introduced
  BY <1>1, <1>2, <1>3, CommitAdvances
<1>6. BasedOn(worker', repo') BY <1>4, <1>5 DEF BasedOn
<1>7. RunInv' BY <1>1, <1>2, <1>4, <1>5, <1>6, CommitGoesOn
<1>8. QED BY <1>3, <1>4, <1>5, <1>7 DEF BasedOn

\* The real index follows, and the run is over.
LEMMA SyncStep ==
    ASSUME RunInv, RepoSync
    PROVE  RunInv' /\ Quiet
<1>1. /\ At("sync") /\ Elsewhere /\ Finish("completed") /\ worker' = worker
      /\ repo' = [repo EXCEPT !.index = WithWork(repo.index, worker.paths)]
  BY DEF RepoSync
<1>2. run.phase = "running" /\ request.kind \in RepoKinds /\ worker.step = 9
  BY <1>1, AtRunning, RunFacts, RunPlaces
<1>3. repo \in RepoRecs BY RunFacts
<1>4. WithWork(repo.index, worker.paths) \in [Paths -> Contents] BY <1>3 DEF WithWork, RepoRecs
<1>5. repo' \in RepoRecs /\ repo'.head = repo.head BY <1>1, <1>3, <1>4 DEF RepoRecs
<1>6. RunInv' BY <1>1, <1>2, <1>5, CommitEnds
<1>7. QED BY <1>1, <1>5, <1>6 DEF Quiet

\* A git call that fails ends the run.
LEMMA GitFailStep ==
    ASSUME RunInv, NEW step \in {"list", "read_tree", "add", "diff", "commit", "sync"},
           GitFails(step)
    PROVE  RunInv' /\ Quiet
<1>1. At(step) /\ Elsewhere /\ Finish("failed") /\ worker' = worker /\ repo' = repo BY DEF GitFails
<1>2. run.phase = "running" /\ request.kind \in RepoKinds /\ worker.step >= 4
  BY <1>1, AtRunning, RunFacts, RunPlaces
<1>3. repo \in RepoRecs BY RunFacts
<1>4. RunInv' BY <1>1, <1>2, <1>3, CommitEnds
<1>5. QED BY <1>1, <1>4 DEF Quiet

\* How the locals advance.
LEMMA AdvanceIs ==
    ASSUME worker \in WorkerRecs, worker.step \in 1..8, Advance
    PROVE  /\ worker' \in WorkerRecs /\ Same(worker', worker) /\ worker'.step = worker.step + 1
           /\ worker'.outcome = worker.outcome
<1>1. worker' = Advancing(worker, worker.step + 1) BY DEF Advance, Advancing
<1>2. worker.step + 1 \in 0..9
  OBVIOUS
<1>3. QED BY <1>1, <1>2, Advanced

\* The archive is built.
LEMMA ArchiveStep ==
    ASSUME RunInv, Archive
    PROVE  RunInv' /\ Quiet
<1>1. At("archive") /\ UNCHANGED <<disk, server, source, ran, repo, local, remote, events>>
  BY DEF Archive
<1>2. run.phase = "running" /\ request.kind = "deployment" /\ worker.step = 1
  BY <1>1, AtRunning, RunFacts, RunPlaces
<1>3. local.temp = "absent" BY <1>2, RunningFacts DEF Staging
<1>4. CASE Finish("failed") /\ UNCHANGED worker
  <2>1. RunInv' BY <1>1, <1>2, <1>3, <1>4, FailedIs, RunFacts, RunningFacts, RunEnds DEF Left
  <2>2. QED BY <1>1, <1>4, <2>1 DEF Quiet
<1>5. CASE /\ \E parts \in SUBSET OptionalSteps :
                worker' = [worker EXCEPT !.step = worker.step + 1, !.parts = parts]
           /\ UNCHANGED run
  <2>0. PICK parts \in SUBSET OptionalSteps :
           worker' = [worker EXCEPT !.step = worker.step + 1, !.parts = parts]
    BY <1>5
  <2>1. /\ worker' \in WorkerRecs /\ worker'.step = 2 /\ worker'.config = worker.config
        /\ worker'.checked = worker.checked /\ worker'.payload = worker.payload
        /\ worker'.paths = worker.paths
    <3>1. worker \in WorkerRecs /\ worker.step + 1 = 2 /\ 2 \in 0..9 BY <1>2, RunFacts
    <3>2. [worker EXCEPT !.step = 2, !.parts = parts] \in WorkerRecs BY <3>1 DEF WorkerRecs
    <3>3. QED BY <2>0, <3>1, <3>2 DEF WorkerRecs
  <2>2. request' = request BY <1>5 DEF request
  <2>3. DeployFits' BY <1>1, <1>2, <1>5, <2>1, <2>2, RunFacts DEF DeployFits
  <2>8. Activated(remote', worker'.parts) BY <1>1, <1>2, RunFacts DEF DeployFits, Activated
  <2>4. RepoFits' /\ TempFits' BY <1>1, <1>2, <1>3, <2>2 DEF RepoFits, TempFits, RepoKinds
  <2>5. worker.step < LastStep(request.kind) /\ worker.step # ExecutesAt(request.kind)
    BY <1>2, StepCounts
  <2>6. RunInv' BY <1>1, <1>2, <1>5, <2>1, <2>3, <2>4, <2>5, <2>8, RunFacts, RunningFacts, RunGoesOn
  <2>7. QED BY <1>1, <2>1, <2>6 DEF Quiet
<1>6. QED BY <1>4, <1>5 DEF Archive

\* What a step of a deployment does to the host.
LEMMA EffectIs ==
    ASSUME RunInv, NEW step \in DeploymentSteps, At(step),
           step \in OptionalSteps => step \in worker.parts
    PROVE  /\ run.phase = "running" /\ request.kind = "deployment" /\ worker.step \in 2..8
           /\ Effect(step) \in RemoteRecs
           /\ worker.step = 4 => Effect(step).release = "extract"
           /\ worker.step >= 5 => Unpacked(Effect(step), worker.parts)
           /\ worker.step >= 6 => Restarted(Effect(step), worker.parts)
           /\ worker.step >= 7 => Checked(Effect(step), worker.parts)
           /\ worker.step <= 7 => Effect(step).current = "old"
           /\ worker.step = 8 => Effect(step).current = "new"
           /\ step = "prepare" <=> worker.step = 2
<1>1. run.phase = "running" BY AtRunning
<1>2. remote \in RemoteRecs /\ DeployFits BY RunFacts
<1>3. \/ step = "prepare" /\ worker.step = 2
      \/ step = "transfer" /\ worker.step = 3
      \/ step = "extract" /\ worker.step = 4
      \/ step = "link" /\ worker.step = 5
      \/ step = "restart" /\ worker.step = 6
      \/ step = "health" /\ worker.step = 7
      \/ step = "activate" /\ worker.step = 8
  <2>1. PhasesFit BY RunFacts
  <2>2. CASE step = "prepare" BY <2>1, <2>2, RunPlaces
  <2>3. CASE step = "transfer" BY <2>1, <2>3, RunPlaces
  <2>4. CASE step = "extract" BY <2>1, <2>4, RunPlaces
  <2>5. CASE step = "link" BY <2>1, <2>5, RunPlaces
  <2>6. CASE step = "restart" BY <2>1, <2>6, RunPlaces
  <2>7. CASE step = "health" BY <2>1, <2>7, RunPlaces
  <2>8. CASE step = "activate" BY <2>1, <2>8, RunPlaces
  <2>9. QED BY <2>2, <2>3, <2>4, <2>5, <2>6, <2>7, <2>8 DEF DeploymentSteps
<1>4. request.kind = "deployment" BY RunFacts, RunPlaces DEF DeploymentSteps
<1>5. CASE step \in {"prepare", "transfer", "extract", "link"}
  <2>1. Effect(step) = [remote EXCEPT !.release = step] BY <1>5 DEF Effect
  <2>2. /\ Effect(step) \in RemoteRecs /\ Effect(step).release = step
        /\ Effect(step).current = remote.current
    BY <1>2, <1>5, <2>1 DEF RemoteRecs
  <2>3. QED BY <1>1, <1>2, <1>3, <1>4, <1>5, <2>2 DEF DeployFits, Unpacked, OptionalSteps
<1>6. CASE step = "restart"
  <2>1. Effect(step) = [remote EXCEPT !.services = "new"] BY <1>6 DEF Effect
  <2>2. /\ Effect(step) \in RemoteRecs /\ Effect(step).release = remote.release
        /\ Effect(step).services = "new" /\ Effect(step).current = remote.current
    BY <1>2, <2>1 DEF RemoteRecs
  <2>3. QED BY <1>1, <1>2, <1>3, <1>4, <1>6, <2>2 DEF DeployFits, Unpacked, Restarted, Checked
<1>7. CASE step = "health"
  <2>1. Effect(step) = [remote EXCEPT !.healthy = TRUE] BY <1>7 DEF Effect
  <2>2. /\ Effect(step) \in RemoteRecs /\ Effect(step).release = remote.release
        /\ Effect(step).services = remote.services /\ Effect(step).healthy
        /\ Effect(step).current = remote.current
    BY <1>2, <2>1 DEF RemoteRecs
  <2>3. QED BY <1>1, <1>2, <1>3, <1>4, <1>7, <2>2 DEF DeployFits, Unpacked, Restarted, Checked
<1>8. CASE step = "activate"
  <2>1. Effect(step) = [remote EXCEPT !.current = "new"] BY <1>8 DEF Effect
  <2>2. /\ Effect(step) \in RemoteRecs /\ Effect(step).release = remote.release
        /\ Effect(step).services = remote.services /\ Effect(step).healthy = remote.healthy
        /\ Effect(step).current = "new"
    BY <1>2, <2>1 DEF RemoteRecs
  <2>3. QED BY <1>1, <1>2, <1>3, <1>4, <1>8, <2>2 DEF DeployFits, Unpacked, Restarted, Checked
<1>9. QED BY <1>5, <1>6, <1>7, <1>8 DEF DeploymentSteps

\* A step of a deployment succeeds, or fails with or without its effect.
LEMMA DeployingStep ==
    ASSUME RunInv, DeployStep
    PROVE  RunInv' /\ Quiet
<1>1. PICK step \in DeploymentSteps :
         /\ At(step) /\ (step \in OptionalSteps => step \in worker.parts)
         /\ \/ remote' = Effect(step) /\ Advance /\ UNCHANGED run
            \/ remote' \in {remote, Effect(step)} /\ Finish("failed") /\ UNCHANGED worker
         /\ ran' = IF step = "prepare" THEN Append(ran, Execution("ok")) ELSE ran
         /\ UNCHANGED <<disk, server, source, repo, local, events>>
  BY DEF DeployStep, StopsAfter
<1>2. /\ run.phase = "running" /\ request.kind = "deployment" /\ worker.step \in 2..8
      /\ Effect(step) \in RemoteRecs
      /\ worker.step = 4 => Effect(step).release = "extract"
      /\ worker.step >= 5 => Unpacked(Effect(step), worker.parts)
      /\ worker.step >= 6 => Restarted(Effect(step), worker.parts)
      /\ worker.step >= 7 => Checked(Effect(step), worker.parts)
      /\ worker.step <= 7 => Effect(step).current = "old"
      /\ worker.step = 8 => Effect(step).current = "new"
      /\ step = "prepare" <=> worker.step = 2
  BY <1>1, EffectIs
<1>3. local.temp = "absent" BY <1>2, RunningFacts DEF Staging
<1>4. LastStep(request.kind) = 9 /\ ExecutesAt(request.kind) = 2 BY <1>2, StepCounts
<1>5. \/ ran' = ran /\ worker.step # 2
      \/ /\ ran' \in Seq(ExecRecs) /\ Len(ran') = 1
         /\ Executed(ran'[1], run.input, worker) /\ worker.step = 2
  <2>1. CASE step = "prepare"
    <3>1. Len(ran) = 0 BY <1>2, <1>4, <2>1, RunningFacts
    <3>2. ran' = Append(ran, Execution("ok")) /\ "ok" \in Outcomes BY <1>1, <2>1 DEF Outcomes
    <3>3. QED BY <1>2, <2>1, <3>1, <3>2, Recorded
  <2>2. CASE step # "prepare" BY <1>1, <1>2, <2>2
  <2>3. QED BY <2>1, <2>2
<1>6. remote' \in RemoteRecs /\ Activated(remote', worker.parts)
  <2>1. Activated(Effect(step), worker.parts) BY <1>2 DEF Activated
  <2>2. QED BY <1>1, <1>2, <2>1, RunFacts, RunningFacts
<1>7. CASE remote' = Effect(step) /\ Advance /\ UNCHANGED run
  <2>1. worker' \in WorkerRecs /\ Same(worker', worker) /\ worker'.step = worker.step + 1
    BY <1>2, <1>7, RunFacts, AdvanceIs
  <2>2. request' = request BY <1>7 DEF request
  <2>3. DeployFits' BY <1>2, <1>7, <2>1 DEF DeployFits, Same
  <2>4. RepoFits' /\ TempFits' BY <1>1, <1>2, <1>3, <2>2 DEF RepoFits, TempFits, RepoKinds
  <2>5. RunInv'
    BY <1>1, <1>2, <1>4, <1>5, <1>6, <1>7, <2>1, <2>3, <2>4, RunFacts, RunningFacts, RunGoesOn DEF Same
  <2>6. QED BY <1>1, <2>1, <2>5 DEF Quiet, Same
<1>8. CASE Finish("failed") /\ UNCHANGED worker
  <2>1. RunInv'
    BY <1>1, <1>2, <1>3, <1>5, <1>6, <1>8, FailedIs, RunFacts, RunningFacts, RunEnds DEF Left
  <2>2. QED BY <1>1, <1>8, <2>1 DEF Quiet
<1>9. QED BY <1>1, <1>7, <1>8

\* A step the profile has no part for is left out.
LEMMA SkippingStep ==
    ASSUME RunInv, SkipStep
    PROVE  RunInv' /\ Quiet
<1>1. PICK step \in OptionalSteps \ worker.parts : At(step) BY DEF SkipStep
<1>2. Advance /\ UNCHANGED <<disk, server, source, run, ran, repo, local, remote, events>>
  BY DEF SkipStep
<1>3. run.phase = "running" /\ PhasesFit /\ DeployFits BY <1>1, AtRunning, RunFacts
<1>4. /\ request.kind = "deployment"
      /\ \/ step = "link" /\ worker.step = 5
         \/ step = "restart" /\ worker.step = 6
         \/ step = "health" /\ worker.step = 7
  <2>1. step = "link" => request.kind = "deployment" /\ worker.step = 5 BY <1>1, <1>3, RunPlaces
  <2>2. step = "restart" => request.kind = "deployment" /\ worker.step = 6 BY <1>1, <1>3, RunPlaces
  <2>3. step = "health" => request.kind = "deployment" /\ worker.step = 7 BY <1>1, <1>3, RunPlaces
  <2>4. QED BY <1>1, <2>1, <2>2, <2>3 DEF OptionalSteps
<1>5. worker' \in WorkerRecs /\ Same(worker', worker) /\ worker'.step = worker.step + 1
  BY <1>2, <1>4, RunFacts, AdvanceIs
<1>6. request' = request /\ local.temp = "absent"
  BY <1>2, <1>3, <1>4, RunningFacts DEF request, Staging
<1>7. DeployFits'
  BY <1>1, <1>2, <1>3, <1>4, <1>5, <1>6 DEF DeployFits, Same, Unpacked, Restarted, Checked
<1>8. RepoFits' /\ TempFits' BY <1>2, <1>4, <1>6 DEF RepoFits, TempFits, RepoKinds
<1>9. worker.step < LastStep(request.kind) /\ worker.step # ExecutesAt(request.kind)
  BY <1>4, StepCounts
<1>10. RunInv' BY <1>2, <1>3, <1>5, <1>7, <1>8, <1>9, RunFacts, RunningFacts, RunGoesOn DEF Same
<1>11. QED BY <1>2, <1>5, <1>10 DEF Quiet, Same

\* The deployment is complete.
LEMMA CleanupStep ==
    ASSUME RunInv, DeployCleanup
    PROVE  RunInv' /\ Quiet
<1>1. At("cleanup") /\ Finish("completed")
      /\ UNCHANGED <<disk, server, source, worker, ran, repo, local, remote, events>>
  BY DEF DeployCleanup
<1>2. run.phase = "running" /\ request.kind = "deployment" /\ worker.step = 9
  BY <1>1, AtRunning, RunFacts, RunPlaces
<1>3. local.temp = "absent" /\ remote.current = "new" /\ request.kind \notin RepoKinds
  BY <1>2, RunFacts, RunningFacts DEF Staging, DeployFits, RepoKinds
<1>4. RunInv' BY <1>1, <1>2, <1>3, FailedIs, RunFacts, RunningFacts, RunEnds DEF Left
<1>5. QED BY <1>1, <1>4 DEF Quiet

\* The temporary file of a secret is reserved.
LEMMA ReserveStep ==
    ASSUME RunInv, Reserve
    PROVE  RunInv' /\ Quiet
<1>1. At("reserve") /\ UNCHANGED <<disk, server, source, ran, repo, remote, events>> BY DEF Reserve
<1>2. run.phase = "running" /\ request.kind = "rotate" /\ worker.step = 1
  BY <1>1, AtRunning, RunFacts, RunPlaces
<1>3. local.temp = "absent" /\ local \in LocalRecs BY <1>2, RunFacts, RunningFacts
<1>4. CASE local' = [local EXCEPT !.temp = "partial"] /\ Advance /\ UNCHANGED run
  <2>1. worker' \in WorkerRecs /\ Same(worker', worker) /\ worker'.step = worker.step + 1
    BY <1>2, <1>4, RunFacts, AdvanceIs
  <2>2. request' = request BY <1>4 DEF request
  <2>3. local' \in LocalRecs /\ local'.dest = local.dest BY <1>3, <1>4 DEF LocalRecs
  <2>4. RepoFits' /\ DeployFits' /\ TempFits'
    BY <1>2, <1>4, <2>1, <2>2 DEF RepoFits, DeployFits, TempFits, RepoKinds, Staging
  <2>5. worker.step < LastStep(request.kind) /\ worker.step # ExecutesAt(request.kind)
    BY <1>2, StepCounts
  <2>6. RunInv'
    BY <1>1, <1>2, <1>4, <2>1, <2>3, <2>4, <2>5, RunFacts, RunningFacts, RunGoesOn DEF Same
  <2>7. QED BY <1>1, <2>1, <2>6 DEF Quiet, Same
<1>5. CASE /\ local' = local \/ local' = [local EXCEPT !.temp = "partial", !.stuck = TRUE]
           /\ Finish("failed") /\ UNCHANGED worker
  <2>1. local' \in LocalRecs /\ local'.dest = local.dest /\ Left(local', "failed")
    BY <1>3, <1>5 DEF LocalRecs, Left
  <2>2. RunInv' BY <1>1, <1>2, <1>5, <2>1, FailedIs, RunFacts, RunningFacts, RunEnds
  <2>3. QED BY <1>1, <1>5, <2>2 DEF Quiet
<1>6. QED BY <1>4, <1>5 DEF Reserve

\* Removing the temporary file.
LEMMA Discarded ==
    ASSUME local \in LocalRecs, local' \in Discards
    PROVE  /\ local' \in LocalRecs /\ local'.dest = local.dest /\ Left(local', "failed")
           /\ local'.temp = "absent" => Left(local', "completed")
BY DEF Discards, LocalRecs, Left

\* The key and the token are looked up.
LEMMA CredentialsStep ==
    ASSUME RunInv, LookUpCredentials
    PROVE  RunInv' /\ Quiet
<1>1. At("credentials") /\ UNCHANGED <<disk, server, source, ran, repo, local, remote, events>>
  BY DEF LookUpCredentials
<1>2. run.phase = "running" /\ request.kind = "rotate" /\ worker.step = 2
  BY <1>1, AtRunning, RunFacts, RunPlaces
<1>3. worker.step < LastStep(request.kind) /\ worker.step < ExecutesAt(request.kind)
  BY <1>2, StepCounts
<1>4. Len(ran) = 0 /\ ran = << >>
  <2>1. Len(ran) = 0 /\ ran \in Seq(ExecRecs)
    BY <1>2, <1>3, RunFacts, RunningFacts DEF ExecutesAt, LastStep
  <2>2. QED BY <2>1
<1>5. CASE Advance /\ UNCHANGED run
  <2>1. worker' \in WorkerRecs /\ Same(worker', worker) /\ worker'.step = worker.step + 1
    BY <1>2, <1>5, RunFacts, AdvanceIs
  <2>2. request' = request BY <1>5 DEF request
  <2>3. RepoFits' /\ DeployFits' /\ TempFits'
    BY <1>1, <1>2, <1>5, <2>1, <2>2 DEF RepoFits, DeployFits, TempFits, RepoKinds, Staging
  <2>4. RunInv' BY <1>1, <1>2, <1>3, <1>5, <2>1, <2>3, RunFacts, RunningFacts, RunGoesOn DEF Same
  <2>5. QED BY <1>1, <2>1, <2>4 DEF Quiet, Same
<1>6. CASE Finish("failed") /\ UNCHANGED worker
  <2>1. RunInv' BY <1>1, <1>2, <1>4, <1>6, FailedIs, RunFacts, RunningFacts, RunEnds
  <2>2. QED BY <1>1, <1>6, <2>1 DEF Quiet
<1>7. QED BY <1>5, <1>6 DEF LookUpCredentials

\* The secret is rotated at the service.
LEMMA RotateStep ==
    ASSUME RunInv, RotateRequest
    PROVE  RunInv' /\ Quiet
<1>1. At("request") /\ UNCHANGED <<disk, server, source, repo, events>> BY DEF RotateRequest
<1>2. run.phase = "running" /\ request.kind = "rotate" /\ worker.step = 3
  BY <1>1, AtRunning, RunFacts, RunPlaces
<1>3. worker.step < LastStep(request.kind) /\ worker.step = ExecutesAt(request.kind)
  BY <1>2, StepCounts
<1>4. Len(ran) = 0 /\ local \in LocalRecs /\ remote \in RemoteRecs
  BY <1>2, <1>3, RunFacts, RunningFacts
<1>5. ASSUME NEW o \in Outcomes, ran' = Append(ran, Execution(o))
      PROVE  ran' \in Seq(ExecRecs) /\ Len(ran') = 1 /\ Executed(ran'[1], run.input, worker)
  BY <1>2, <1>4, <1>5, Recorded
<1>6. "ok" \in Outcomes /\ "error" \in Outcomes BY DEF Outcomes
<1>7. [remote EXCEPT !.secret = 2] \in RemoteRecs
      /\ [remote EXCEPT !.secret = 2].current = remote.current
      /\ [remote EXCEPT !.secret = 2].release = remote.release
      /\ [remote EXCEPT !.secret = 2].services = remote.services
      /\ [remote EXCEPT !.secret = 2].healthy = remote.healthy
  BY <1>4 DEF RemoteRecs
<1>8. CASE /\ remote' = [remote EXCEPT !.secret = 2] /\ ran' = Append(ran, Execution("ok"))
           /\ Advance /\ UNCHANGED <<run, local>>
  <2>1. worker' \in WorkerRecs /\ Same(worker', worker) /\ worker'.step = worker.step + 1
    BY <1>2, <1>8, RunFacts, AdvanceIs
  <2>2. request' = request BY <1>8 DEF request
  <2>3. ran' \in Seq(ExecRecs) /\ Len(ran') = 1 /\ Executed(ran'[1], run.input, worker)
    BY <1>5, <1>6, <1>8
  <2>4. RepoFits' /\ DeployFits' /\ TempFits'
    BY <1>2, <1>8, <2>1, <2>2 DEF RepoFits, DeployFits, TempFits, RepoKinds, Staging
  <2>5. remote' \in RemoteRecs /\ Activated(remote', worker.parts)
    BY <1>2, <1>7, <1>8, RunningFacts DEF Activated, Unpacked, Restarted, Checked
  <2>6. RunInv'
    BY <1>1, <1>2, <1>3, <1>4, <1>8, <2>1, <2>3, <2>4, <2>5, RunFacts, RunGoesOn DEF Same
  <2>7. QED BY <1>1, <2>1, <2>6 DEF Quiet, Same
<1>9. CASE /\ remote' \in {remote, [remote EXCEPT !.secret = 2]}
           /\ ran' = Append(ran, Execution("error"))
           /\ local' \in Discards /\ Finish("failed") /\ UNCHANGED worker
  <2>1. ran' \in Seq(ExecRecs) /\ Len(ran') = 1 /\ Executed(ran'[1], run.input, worker)
    BY <1>5, <1>6, <1>9
  <2>2. local' \in LocalRecs /\ Left(local', "failed") /\ local'.dest = local.dest
    BY <1>4, <1>9, Discarded
  <2>3. remote' \in RemoteRecs /\ Activated(remote', worker.parts)
    BY <1>2, <1>4, <1>7, <1>9, RunningFacts DEF Activated, Unpacked, Restarted, Checked
  <2>4. RunInv' BY <1>1, <1>2, <1>9, <2>1, <2>2, <2>3, FailedIs, RunFacts, RunningFacts, RunEnds
  <2>5. QED BY <1>1, <1>9, <2>4 DEF Quiet
<1>10. QED BY <1>8, <1>9 DEF RotateRequest

\* The secret is written.
LEMMA WriteStep ==
    ASSUME RunInv, WriteSecret
    PROVE  RunInv' /\ Quiet
<1>1. At("write") /\ UNCHANGED <<disk, server, source, worker, ran, repo, remote, events>>
  BY DEF WriteSecret
<1>2. run.phase = "running" /\ request.kind = "rotate" /\ worker.step = 4
  BY <1>1, AtRunning, RunFacts, RunPlaces
<1>3. local \in LocalRecs /\ remote.secret \in 1..2 BY RunFacts DEF RemoteRecs
<1>4. CASE local' = Published(remote.secret) /\ Finish("completed")
  <2>1. local' = [local EXCEPT !.temp = "absent", !.secret = remote.secret]
    BY <1>2, <1>4 DEF Published
  <2>2. /\ local' \in LocalRecs /\ local'.temp = "absent" /\ local'.dest = local.dest
        /\ local'.secret = remote.secret
    BY <1>3, <2>1 DEF LocalRecs
  <2>3. request.kind \notin RepoKinds BY <1>2 DEF RepoKinds
  <2>4. RunInv' BY <1>1, <1>2, <1>4, <2>2, <2>3, FailedIs, RunFacts, RunningFacts, RunEnds DEF Left
  <2>5. QED BY <1>1, <2>4 DEF Quiet
<1>5. CASE local' \in Discards /\ Finish("failed")
  <2>1. local' \in LocalRecs /\ Left(local', "failed") /\ local'.dest = local.dest
    BY <1>3, <1>5, Discarded
  <2>2. RunInv' BY <1>1, <1>2, <1>5, <2>1, FailedIs, RunFacts, RunningFacts, RunEnds
  <2>3. QED BY <1>1, <2>2 DEF Quiet
<1>6. QED BY <1>4, <1>5 DEF WriteSecret

\* Something is fetched into the temporary file.
LEMMA FetchStep ==
    ASSUME RunInv, Fetch
    PROVE  RunInv' /\ Quiet
<1>1. At("fetch") /\ UNCHANGED <<disk, server, source, run, repo, remote, events>> BY DEF Fetch
<1>2. PICK o \in ScpOutcomes, t \in {"absent", "partial", "whole"} :
         /\ o = "ok" => t # "partial"
         /\ ran' = Append(ran, Execution(o)) /\ local' = [local EXCEPT !.temp = t]
         /\ worker' = [worker EXCEPT !.step = worker.step + 1, !.outcome = o]
  BY DEF Fetch
<1>3. run.phase = "running" /\ request.kind \in {"download", "fixture"} /\ worker.step = 1
  BY <1>1, AtRunning, RunFacts, RunPlaces
<1>4. worker.step < LastStep(request.kind) /\ worker.step = ExecutesAt(request.kind)
  BY <1>3, StepCounts
<1>5. o \in Outcomes /\ Len(ran) = 0 BY <1>3, <1>4, RunningFacts DEF ScpOutcomes, Outcomes
<1>6. ran' \in Seq(ExecRecs) /\ Len(ran') = 1 /\ Executed(ran'[1], run.input, worker)
  BY <1>2, <1>3, <1>5, Recorded
<1>7. /\ worker' \in WorkerRecs /\ Same(worker', worker) /\ worker'.step = worker.step + 1
      /\ worker'.outcome = o
  <2>1. worker' = Returning(worker, worker.step + 1, o) BY <1>2 DEF Returning
  <2>2. worker.step + 1 \in 0..9 /\ worker \in WorkerRecs BY <1>3, RunFacts
  <2>3. o \in Outcomes BY <1>5
  <2>4. QED BY <2>1, <2>2, <2>3, Returned
<1>8. local' \in LocalRecs /\ local'.temp = t /\ local'.dest = local.dest
  BY <1>2, RunFacts DEF LocalRecs
<1>9. request' = request BY <1>1 DEF request
<1>10. RepoFits' /\ DeployFits' /\ TempFits'
  BY <1>1, <1>2, <1>3, <1>7, <1>8, <1>9 DEF RepoFits, DeployFits, TempFits, RepoKinds, Staging
<1>11. RunInv'
  BY <1>1, <1>3, <1>4, <1>6, <1>7, <1>8, <1>10, RunFacts, RunningFacts, RunGoesOn DEF Same
<1>12. QED BY <1>1, <1>7, <1>11 DEF Quiet, Same

\* A download is published, or its staging removed.
LEMMA PublishStep ==
    ASSUME RunInv, PublishDownload
    PROVE  RunInv' /\ Quiet
<1>1. At("publish") /\ UNCHANGED <<disk, server, source, worker, ran, repo, remote, events>>
  BY DEF PublishDownload
<1>2. run.phase = "running" /\ request.kind = "download" /\ worker.step = 2
  BY <1>1, AtRunning, RunFacts, RunPlaces
<1>3. local \in LocalRecs /\ request.kind \notin RepoKinds BY <1>2, RunFacts DEF RepoKinds
<1>4. CASE Fetched /\ local' = Published(0) /\ Finish("completed")
  <2>1. local' = [local EXCEPT !.temp = "absent", !.dest = local.temp] BY <1>2, <1>4 DEF Published
  <2>2. local.temp = "whole" BY <1>2, <1>3, <1>4, RunFacts DEF Fetched, TempFits, LocalRecs
  <2>3. local' \in LocalRecs /\ local'.dest = "whole" /\ Left(local', "completed")
    BY <1>3, <2>1, <2>2 DEF LocalRecs, Left
  <2>4. RunInv' BY <1>1, <1>2, <1>3, <1>4, <2>3, FailedIs, RunFacts, RunningFacts, RunEnds
  <2>5. QED BY <1>1, <2>4 DEF Quiet
<1>5. CASE (local' = [local EXCEPT !.stuck = TRUE] \/ local' \in Discards) /\ Finish("failed")
  <2>1. [local EXCEPT !.stuck = TRUE] \in Discards BY DEF Discards
  <2>2. local' \in LocalRecs /\ Left(local', "failed") /\ local'.dest = local.dest
    BY <1>3, <1>5, <2>1, Discarded
  <2>3. RunInv' BY <1>1, <1>2, <1>5, <2>2, FailedIs, RunFacts, RunningFacts, RunEnds
  <2>4. QED BY <1>1, <2>3 DEF Quiet
<1>6. QED BY <1>4, <1>5 DEF PublishDownload

\* A fixture is validated and discarded.
LEMMA ValidateStep ==
    ASSUME RunInv, ValidateFixture
    PROVE  RunInv' /\ Quiet
<1>1. At("validate") /\ UNCHANGED <<disk, server, source, worker, ran, repo, remote, events>>
      /\ local' \in Discards
  BY DEF ValidateFixture
<1>2. run.phase = "running" /\ request.kind = "fixture" /\ worker.step = 2
  BY <1>1, AtRunning, RunFacts, RunPlaces
<1>3. request.kind \notin RepoKinds BY <1>2 DEF RepoKinds
<1>4. /\ local' \in LocalRecs /\ local'.dest = local.dest /\ Left(local', "failed")
      /\ local'.temp = "absent" => Left(local', "completed")
  BY <1>1, RunFacts, Discarded
<1>5. (Finish("completed") /\ Left(local', "completed")) \/ Finish("failed")
  BY <1>4 DEF ValidateFixture
<1>6. RunInv' BY <1>1, <1>2, <1>3, <1>4, <1>5, FailedIs, RunFacts, RunningFacts, RunEnds
<1>7. QED BY <1>1, <1>6 DEF Quiet

----
\* What a step may choose to commit, and commit.
CommitFits ==
    /\ worker'.paths \subseteq worker.paths \union repo.touched \union Ends(repo.touched)
    /\ events' = events => \A p \in Paths : repo'.head[p] # repo.head[p] =>
          WritesFiles /\ p \in worker.paths \union repo.theirs

\* Every step keeps the invariant and commits nothing but that.
LEMMA RunStep ==
    ASSUME RunInv, Next
    PROVE  RunInv' /\ CommitFits
<1>0. Quiet => CommitFits BY DEF Quiet, CommitFits
<1>1. CASE EditConfig \/ ReloadServer \/ EditSource \/ WriteFile BY <1>0, <1>1, AroundStep
<1>2. CASE WorkerDies \/ Accept \/ LoadConfig \/ Revalidate
  BY <1>0, <1>2, DeathStep, AcceptStep, LoadStep, RevalidateStep
<1>3. CASE \/ ExecuteSSHCommand \/ ExecuteSSHAction \/ ExecuteReviewedScript \/ ExecuteRootShell
           \/ ExecuteCloudflare \/ ExecuteExecutable \/ ExecuteUpload \/ SourceGone
  BY <1>0, <1>3, SingleStep
<1>4. CASE RepoBefore \/ RepoCommand \/ RepoAfter BY <1>0, <1>4, BeforeStep, CommandStep, AfterStep
<1>5. CASE Archive \/ DeployStep \/ SkipStep \/ DeployCleanup
  BY <1>0, <1>5, ArchiveStep, DeployingStep, SkippingStep, CleanupStep
<1>6. CASE Reserve \/ LookUpCredentials \/ RotateRequest \/ WriteSecret
  BY <1>0, <1>6, ReserveStep, CredentialsStep, RotateStep, WriteStep
<1>7. CASE Fetch \/ PublishDownload \/ ValidateFixture
  BY <1>0, <1>7, FetchStep, PublishStep, ValidateStep
<1>8. CASE UserStage \/ UserCommit BY <1>8, UserStep DEF CommitFits
<1>9. CASE RepoList BY <1>9, ListStep DEF CommitFits
<1>10. CASE RepoCommit BY <1>10, CommitStep DEF CommitFits
<1>11. CASE RepoReadTree \/ RepoAdd \/ RepoDiff \/ RepoSync
  BY <1>0, <1>11, ReadTreeStep, AddStep, DiffStep, SyncStep
<1>12. CASE \E step \in {"list", "read_tree", "add", "diff", "commit", "sync"} : GitFails(step)
  BY <1>0, <1>12, GitFailStep
<1>13. QED BY <1>1, <1>2, <1>3, <1>4, <1>5, <1>6, <1>7, <1>8, <1>9, <1>10, <1>11, <1>12
     DEF Next, FinalizeCommit

\* Initially there is no run.
LEMMA RunInit == Init => RunInv
<1> SUFFICES ASSUME Init PROVE RunInv
  OBVIOUS
<1>1. disk \in Configs /\ server \in Configs /\ source \in 0..2 /\ events \in 0..MaxEvents
  <2>1. disk \in [enabled: {TRUE}, gate: {TRUE}, token: {1}, profile: {"read", "write"}]
        /\ server = disk /\ source = 1 /\ events = 0
    BY DEF Init
  <2>2. disk \in Configs BY <2>1 DEF Configs, Profiles, Tokens
  <2>3. QED BY <2>1, <2>2, EventsAssumption
<1>2. run \in RunRecs /\ run.phase = "none" /\ run.status = "none" /\ request.kind = "none"
  BY DEF Init, RunRecs, InputRecs, RequestRecs, NoInput, NoMetadata, Metadata, Modes, Tiers,
         ApprovalSources, Statuses, Tokens, request
<1>3. worker \in WorkerRecs /\ worker.step = 0
  <2>1. /\ [p \in Paths |-> <<"same", "same">>] \in [Paths -> GitStates]
        /\ [p \in Paths |-> "none"] \in [Paths -> DiffStates]
        /\ [p \in Paths |-> 0] \in [Paths -> Contents]
    BY DEF GitStates, Letters, DiffStates, Contents
  <2>2. NoWorker.config \in Configs /\ NoWorker.step = 0 /\ NoWorker.outcome \in Outcomes
    BY DEF NoWorker, Configs, Profiles, Tokens, Outcomes
  <2>3. NoWorker \in WorkerRecs BY <2>1, <2>2 DEF NoWorker, WorkerRecs
  <2>4. QED BY <2>2, <2>3 DEF Init
<1>4. ran \in Seq(ExecRecs) /\ Len(ran) = 0 BY DEF Init
<1>5. repo \in RepoRecs BY DEF Init, RepoRecs, Contents
<1>6. local \in LocalRecs /\ local.temp = "absent" /\ local.dest = "absent" BY DEF Init, LocalRecs
<1>7. remote \in RemoteRecs /\ remote.current = "old" BY DEF Init, RemoteRecs
<1>8. RunTypes BY <1>1, <1>2, <1>3, <1>4, <1>5, <1>6, <1>7 DEF RunTypes
<1>9. PhasesFit /\ ExecutionFits /\ RepoFits /\ DeployFits /\ TempFits
  BY <1>2, <1>3, <1>4, <1>6, <1>7 DEF PhasesFit, ExecutionFits, RepoFits, DeployFits, TempFits
<1>10. ResultsFit
  BY <1>2, <1>6, <1>7 DEF ResultsFit, ReadOnlyIsReadOnly, ActivatedWhenHealthy, PublishedWhole
<1>11. QED BY <1>8, <1>9, <1>10 DEF RunInv

\* The steps of the others leave the run alone.
LEMMA RunStutters ==
    ASSUME RunInv, UNCHANGED vars
    PROVE  RunInv'
<1>1. UNCHANGED <<disk, server, source, run, worker, ran, repo, local, remote, events>> BY DEF vars
<1>2. QED BY <1>1, RunFacts, RunStands

\* The tier of an SSH run is the one of its metadata.
LEMMA TierFits ==
    ASSUME NEW c, NEW q, NEW m, q.kind \in SSHKinds, MetadataOf(c, q) = m
    PROVE  TierOf(c, q) = m.tier
BY DEF MetadataOf, PolicyMetadata

\* The invariant says that what is executed was accepted, and what the results say.
LEMMA RunFollows == RunInv => ExecutedAsAccepted /\ ResultTruthful
<1> SUFFICES ASSUME RunInv PROVE ExecutedAsAccepted /\ ResultTruthful
  OBVIOUS
<1>1. TypeOK
  <2>1. /\ run.phase \in {"none", "queued", "running", "done", "dead"} /\ run.status \in Statuses
        /\ run.input.metadata \in Metadata /\ run.input.pin \in 0..2
        /\ request.kind \in Kinds \cup {"none"}
    BY RunFacts, RequestFacts DEF RunRecs
  <2>2. worker.config \in Configs /\ worker.step \in 0..9 /\ worker.introduced \subseteq Paths
    BY RunFacts DEF WorkerRecs
  <2>3. /\ worker.paths \subseteq Paths /\ worker.tree \in [Paths -> Contents]
        /\ worker.parts \subseteq OptionalSteps
    BY RunFacts DEF WorkerRecs
  <2>4. QED BY <2>1, <2>2, <2>3, RunFacts DEF TypeOK, RepoRecs, LocalRecs, RemoteRecs
<1>2. ASSUME NEW i \in 1..Len(ran)
      PROVE  /\ i = 1 /\ Vetted(worker.config, run.input, worker)
             /\ Executed(ran[1], run.input, worker)
  <2>1. Len(ran) \in Nat /\ Len(ran) <= 1 BY RunFacts
  <2>2. i = 1 /\ Len(ran) # 0 BY <2>1
  <2>3. QED BY <2>2, RunFacts DEF ExecutionFits
<1>3. AuthorizedTwice BY <1>2, TierFits DEF AuthorizedTwice, Vetted, Executed, request
<1>4. AcceptedBytes BY <1>2 DEF AcceptedBytes, Vetted, Executed, Scripts
<1>5. ResultTruthful BY RunFacts DEF ResultTruthful
<1>6. QED BY <1>1, <1>3, <1>4, <1>5 DEF ExecutedAsAccepted

\* Whatever a worker executes was permitted by the configuration it loaded, at the tier and
\* with the bytes that were accepted, and a result that says completed is true, for every
\* kind of run and any number of edits and crashes (job_worker.py, ssh_tools.py,
\* cloudflare_tools.py).
THEOREM AcceptedStaysExecuted == MCSpec => []AcceptedIsExecuted
<1>1. MCInit => RunInv BY RunInit DEF MCInit
<1>2. RunInv /\ [MCNext]_<<focus, vars, onboardingState, serviceState>> => RunInv'
  BY RunStep, RunStutters DEF MCNext
<1>3. RunInv => AcceptedIsExecuted BY RunFollows DEF AcceptedIsExecuted
<1>4. QED BY <1>1, <1>2, <1>3, PTL DEF MCSpec

\* A commit is of paths written since the run began and of the other ends of renames a
\* user staged of them, for a profile that writes; beyond these it can only take back
\* what a user committed between its git calls (job_worker.py:2562-2650,
\* git_tools.py:1233-1383).
THEOREM CommitsStayOwn == MCSpec => CommitsOwnChanges
<1>1. MCInit => RunInv BY RunInit DEF MCInit
<1>2. RunInv /\ [MCNext]_<<focus, vars, onboardingState, serviceState>> => RunInv'
  BY RunStep, RunStutters DEF MCNext
<1>3. RunInv /\ [MCNext]_<<focus, vars, onboardingState, serviceState>>
        => [CommitFits]_vars
  BY RunStep DEF MCNext
<1>4. CommitFits =>
        /\ worker'.paths \subseteq worker.paths \cup repo.touched
               \cup {p \in Paths : \E q \in repo.touched : Renamed(p, q) \/ Renamed(q, p)}
        /\ events' = events => \A p \in Paths : repo'.head[p] # repo.head[p] =>
               WritesFiles /\ p \in worker.paths \cup repo.theirs
  BY DEF CommitFits, Ends
<1>5. RunInv /\ [MCNext]_<<focus, vars, onboardingState, serviceState>>
        => [/\ worker'.paths \subseteq worker.paths \cup repo.touched
                  \cup {p \in Paths : \E q \in repo.touched : Renamed(p, q) \/ Renamed(q, p)}
            /\ events' = events => \A p \in Paths : repo'.head[p] # repo.head[p] =>
                  WritesFiles /\ p \in worker.paths \cup repo.theirs]_vars
  BY <1>3, <1>4
<1>6. QED BY <1>1, <1>2, <1>5, PTL DEF MCSpec, CommitsOwnChanges

----
(* Bringing in a host (HostOnboarding).                                     *)

Configurations == [entry: [Hosts -> {"none", "bare", "profiled"}], rest: Int]
ChangeRecs == [status: {"none", "previewed", "applied", "failed"}, action: Onb!Actions,
               host: Hosts \union {Onb!NoChange.host}, base: Configurations,
               intent: Onb!Intents, policy: Onb!Policies]
ApplyRecs == [pc: {"idle", "write", "activate", "failed"}, change: Int,
              original: Configurations, touched: BOOLEAN]
Credentials == [address: Onb!Addresses, expected: {"none", "k1"},
                posture: {"sound", "exposed", "exposed key", "incomplete"}]
Listeners == [key: Onb!Fingerprints, capable: BOOLEAN, root: BOOLEAN]
Pairs == Onb!Addresses \X Onb!Fingerprints
TrialRecs == [pc: {"idle", "probe", "resolve", "scan", "rescan", "authenticate", "discover",
                   "validate", "prepared"},
              change: Int, address: Onb!Addresses, expected: {"none", "k1"},
              first: SUBSET Onb!Fingerprints, staged: SUBSET Pairs,
              contacts: SUBSET (Onb!Addresses \X Onb!Fingerprints),
              validation: {"none", "valid", "preparation_required"}]

\* A change that is there: its fields stay what they were when it was previewed.
Made(c, cs) == c \in 1..MaxChanges /\ cs[c].status # "none"

\* An apply works on a change that was made, from the file it was previewed on; nobody
\* having written since, the file is that one, or the candidate.
ApplyFits(x, cs, now) ==
    x.pc # "idle" =>
        /\ Made(x.change, cs) /\ x.original = cs[x.change].base
        /\ x.pc = "write" /\ ~x.touched => now = x.original
        /\ x.pc = "activate" /\ ~x.touched =>
              now = Onb!BuildCandidate(cs[x.change], x.original)

\* What is staged is evidence of the trial's host, and contacts went to what is staged.
Evidence ==
    \A pair \in trial.staged :
        /\ pair[1] = trial.address /\ pair[2] \in trial.first
        /\ trial.expected = "none" => Onb!Change.intent = "new_host" /\ Onb!Change.policy = "tofu"
        /\ trial.expected # "none" => pair[2] = trial.expected
TrialFits ==
    /\ trial.pc # "idle" => Made(trial.change, changes)
    /\ trial.pc \in {"authenticate", "discover", "validate", "prepared"} => Evidence
    /\ trial.pc \in {"discover", "validate", "prepared"} =>
          trial.contacts # {} /\ trial.contacts \subseteq trial.staged

OnboardingTypes ==
    /\ config \in Configurations /\ changes \in [1..MaxChanges -> ChangeRecs]
    /\ applier \in [Appliers -> ApplyRecs] /\ credential \in [Hosts -> Credentials]
    /\ listening \in [Onb!Addresses -> Listeners] /\ trial \in TrialRecs /\ known \subseteq Pairs
    /\ \A c \in 1..MaxChanges : changes[c].status # "none" => changes[c].host \in Hosts

OnboardingInv ==
    /\ OnboardingTypes /\ TrialFits
    /\ \A a \in Appliers : ApplyFits(applier[a], changes, config)

\* What the invariant gives each step.
LEMMA OnboardingFacts ==
    ASSUME OnboardingInv
    PROVE  /\ config \in Configurations /\ changes \in [1..MaxChanges -> ChangeRecs]
           /\ applier \in [Appliers -> ApplyRecs] /\ credential \in [Hosts -> Credentials]
           /\ listening \in [Onb!Addresses -> Listeners] /\ trial \in TrialRecs /\ known \subseteq Pairs
           /\ \A c \in 1..MaxChanges : changes[c].status # "none" => changes[c].host \in Hosts
           /\ TrialFits /\ \A a \in Appliers : ApplyFits(applier[a], changes, config)
BY DEF OnboardingInv, OnboardingTypes

\* A candidate is a configuration, and differs from its base in one entry.
LEMMA CandidateFits ==
    ASSUME NEW c \in ChangeRecs, NEW base \in Configurations
    PROVE  /\ Onb!BuildCandidate(c, base) \in Configurations
           /\ Onb!BuildCandidate(c, base).rest = base.rest
<1>1. Onb!Mutated(c.action) \in {"none", "bare", "profiled"}
  BY DEF Onb!Mutated, ChangeRecs, Onb!Actions
<1>2. [base.entry EXCEPT ![c.host] = Onb!Mutated(c.action)]
         \in [Hosts -> {"none", "bare", "profiled"}]
  BY <1>1 DEF Configurations
<1>3. Onb!BuildCandidate(c, base)
        = [base EXCEPT !.entry = [base.entry EXCEPT ![c.host] = Onb!Mutated(c.action)]]
  BY DEF Onb!BuildCandidate, Configurations
<1>4. QED BY <1>2, <1>3 DEF Configurations

\* The calls under way are marked when somebody writes the file.
LEMMA TouchedIs ==
    ASSUME applier \in [Appliers -> ApplyRecs], NEW others \in SUBSET Appliers
    PROVE  /\ Onb!TouchedBy(others) \in [Appliers -> ApplyRecs]
           /\ \A a \in Appliers :
                 /\ Onb!TouchedBy(others)[a].pc = applier[a].pc
                 /\ Onb!TouchedBy(others)[a].change = applier[a].change
                 /\ Onb!TouchedBy(others)[a].original = applier[a].original
                 /\ a \in others /\ applier[a].pc # "idle" => Onb!TouchedBy(others)[a].touched
                 /\ a \notin others => Onb!TouchedBy(others)[a] = applier[a]
<1>1. \A a \in Appliers : LET r == [applier[a] EXCEPT !.touched = TRUE] IN
         /\ r \in ApplyRecs /\ r.pc = applier[a].pc /\ r.change = applier[a].change
         /\ r.original = applier[a].original /\ r.touched
  BY DEF ApplyRecs
<1>2. \A a \in Appliers : applier[a] \in ApplyRecs
  OBVIOUS
<1>3. QED BY <1>1, <1>2 DEF Onb!TouchedBy

\* The status of a change says nothing else of it.
LEMMA StatusMoves ==
    ASSUME changes \in [1..MaxChanges -> ChangeRecs], NEW d \in 1..MaxChanges,
           NEW status \in {"applied", "failed"}, Onb!ChangeStatus(d, status), Made(d, changes)
    PROVE  /\ changes' \in [1..MaxChanges -> ChangeRecs]
           /\ \A c \in 1..MaxChanges :
                 /\ changes'[c].action = changes[c].action /\ changes'[c].host = changes[c].host
                 /\ changes'[c].base = changes[c].base /\ changes'[c].intent = changes[c].intent
                 /\ changes'[c].policy = changes[c].policy
                 /\ changes'[c].status = "none" <=> changes[c].status = "none"
<1> DEFINE r == [changes[d] EXCEPT !.status = status]
<1>1. /\ r \in ChangeRecs /\ r.action = changes[d].action /\ r.host = changes[d].host
      /\ r.base = changes[d].base /\ r.intent = changes[d].intent /\ r.policy = changes[d].policy
      /\ r.status = status
  BY DEF ChangeRecs
<1>2. changes' = [changes EXCEPT ![d] = r] BY DEF Onb!ChangeStatus
<1> HIDE DEF r
<1>3. QED BY <1>1, <1>2 DEF Made

\* A change that stays as it is lets the same candidate be built.
LEMMA SameCandidate ==
    ASSUME NEW c, NEW d, NEW base, c.action = d.action, c.host = d.host
    PROVE  Onb!BuildCandidate(c, base) = Onb!BuildCandidate(d, base)
BY DEF Onb!BuildCandidate

\* The changes that were made stay as they are, but for their status.
Kept(cs, new) ==
    /\ new \in [1..MaxChanges -> ChangeRecs]
    /\ \A c \in 1..MaxChanges : new[c].status # "none" => new[c].host \in Hosts
    /\ \A c \in 1..MaxChanges : cs[c].status # "none" =>
          /\ new[c].action = cs[c].action /\ new[c].host = cs[c].host
          /\ new[c].base = cs[c].base /\ new[c].intent = cs[c].intent
          /\ new[c].policy = cs[c].policy /\ new[c].status # "none"

\* A call keeps what fits it as long as the changes are kept and the file is, or it is marked.
LEMMA ApplyKept ==
    ASSUME NEW cs, NEW new, Kept(cs, new), NEW cfg, NEW cfg2,
           NEW x, NEW y, ApplyFits(x, cs, cfg), y.pc = x.pc, y.change = x.change,
           y.original = x.original, y.touched \/ (cfg2 = cfg /\ y = x)
    PROVE  ApplyFits(y, new, cfg2)
<1>1. Made(x.change, cs) => /\ Made(x.change, new) /\ new[x.change].base = cs[x.change].base
                            /\ new[x.change].action = cs[x.change].action
                            /\ new[x.change].host = cs[x.change].host
  BY DEF Made, Kept
<1>2. Made(x.change, cs) => Onb!BuildCandidate(new[x.change], x.original)
         = Onb!BuildCandidate(cs[x.change], x.original)
  BY <1>1, SameCandidate
<1>3. QED BY <1>1, <1>2 DEF ApplyFits

\* So does the trial.
LEMMA TrialKept ==
    ASSUME OnboardingInv, Kept(changes, changes'), trial' = trial
    PROVE  TrialFits'
<1>1. Made(trial.change, changes) =>
         /\ Made(trial.change, changes')
         /\ changes'[trial.change].intent = changes[trial.change].intent
         /\ changes'[trial.change].policy = changes[trial.change].policy
  BY DEF Made, Kept
<1>2. QED BY <1>1, OnboardingFacts DEF TrialFits, Evidence, Onb!Change

\* Nothing happens to the changes.
LEMMA KeptAlone == OnboardingInv => Kept(changes, changes)
BY OnboardingFacts DEF Kept

\* A step of one applier.
LEMMA ApplierSteps ==
    ASSUME OnboardingInv, NEW a \in Appliers, NEW r \in ApplyRecs,
           NEW app, app = Onb!TouchedBy(Appliers \ {a}) \/ (app = applier /\ config' = config),
           applier' = [app EXCEPT ![a] = r], Kept(changes, changes'),
           config' \in Configurations, ApplyFits(r, changes', config')
    PROVE  /\ applier' \in [Appliers -> ApplyRecs] /\ applier'[a] = r
           /\ \A b \in Appliers \ {a} : applier'[b].pc = applier[b].pc
           /\ \A b \in Appliers : ApplyFits(applier'[b], changes', config')
<1>1. /\ app \in [Appliers -> ApplyRecs]
      /\ \A b \in Appliers \ {a} :
            /\ app[b].pc = applier[b].pc /\ app[b].change = applier[b].change
            /\ app[b].original = applier[b].original
            /\ applier[b].pc = "idle" \/ app[b].touched \/ (config' = config /\ app[b] = applier[b])
  BY TouchedIs, OnboardingFacts
<1>2. /\ applier' \in [Appliers -> ApplyRecs] /\ applier'[a] = r
      /\ \A b \in Appliers \ {a} : applier'[b] = app[b]
  BY <1>1
<1>3. \A b \in Appliers \ {a} : ApplyFits(applier'[b], changes', config')
  <2> TAKE b \in Appliers \ {a}
  <2> DEFINE x == applier[b]
             y == app[b]
  <2>1. ApplyFits(x, changes, config) BY OnboardingFacts
  <2>2. y.pc = x.pc /\ y.change = x.change /\ y.original = x.original BY <1>1
  <2>3. CASE x.pc = "idle" BY <1>2, <2>2, <2>3 DEF ApplyFits
  <2>4. CASE x.pc # "idle"
    <3>1. y.touched \/ (config' = config /\ y = x) BY <1>1, <2>4
    <3> HIDE DEF x, y
    <3>2. ApplyFits(y, changes', config') BY <2>1, <2>2, <3>1, ApplyKept
    <3>3. QED BY <1>2, <3>2 DEF y
  <2>5. QED BY <2>3, <2>4
<1>4. QED BY <1>1, <1>2, <1>3

\* Somebody else writes the file.
LEMMA OthersTouched ==
    ASSUME OnboardingInv, applier' = Onb!TouchedBy(Appliers), Kept(changes, changes'),
           config' \in Configurations
    PROVE  /\ applier' \in [Appliers -> ApplyRecs]
           /\ \A b \in Appliers : applier'[b].pc = applier[b].pc
           /\ \A b \in Appliers : ApplyFits(applier'[b], changes', config')
<1>1. /\ applier' \in [Appliers -> ApplyRecs]
      /\ \A b \in Appliers :
            /\ applier'[b].pc = applier[b].pc /\ applier'[b].change = applier[b].change
            /\ applier'[b].original = applier[b].original
            /\ applier[b].pc = "idle" \/ applier'[b].touched
  BY TouchedIs, OnboardingFacts
<1>2. ASSUME NEW b \in Appliers PROVE ApplyFits(applier'[b], changes', config')
  <2>1. CASE applier[b].pc = "idle" BY <1>1, <2>1 DEF ApplyFits
  <2>2. CASE applier[b].pc # "idle"
    <3>1. ApplyFits(applier[b], changes, config) BY OnboardingFacts
    <3>2. QED BY <1>1, <2>2, <3>1, ApplyKept
  <2>3. QED BY <2>1, <2>2
<1>3. QED BY <1>1, <1>2

\* The invariant follows from its parts.
LEMMA OnboardingFollows ==
    ASSUME config' \in Configurations, Kept(changes, changes'),
           applier' \in [Appliers -> ApplyRecs], credential' \in [Hosts -> Credentials],
           listening' \in [Onb!Addresses -> Listeners], trial' \in TrialRecs, known' \subseteq Pairs,
           TrialFits', \A a \in Appliers : ApplyFits(applier'[a], changes', config')
    PROVE  OnboardingInv'
BY DEF OnboardingInv, OnboardingTypes, Kept

\* A change is previewed on the file as it is.
LEMMA PreviewStep ==
    ASSUME OnboardingInv, Onb!PreviewChange
    PROVE  OnboardingInv' /\ Onb!ApplyStep
<1>1. UNCHANGED <<config, applier, credential, listening, trial, known>> BY DEF Onb!PreviewChange
<1>2. PICK c \in 1..MaxChanges, action \in Onb!Actions, h \in Hosts, intent \in Onb!Intents,
           policy \in Onb!Policies :
         /\ changes[c].status = "none" /\ \A d \in 1..(c - 1) : changes[d].status # "none"
         /\ Onb!NormalizedMutation(action, intent, policy)
         /\ Onb!MayMutate(action, config.entry[h])
         /\ changes' = [changes EXCEPT ![c] = [status |-> "previewed", action |-> action, host |-> h,
                                               base |-> config, intent |-> intent, policy |-> policy]]
  BY Zenon DEF Onb!PreviewChange
<1> DEFINE r == [status |-> "previewed", action |-> action, host |-> h,
                 base |-> config, intent |-> intent, policy |-> policy]
<1>3. r \in ChangeRecs /\ r.status = "previewed" /\ r.host \in Hosts
  BY OnboardingFacts DEF ChangeRecs
<1>4. changes' = [changes EXCEPT ![c] = r] BY <1>2
<1> HIDE DEF r
<1>5. Kept(changes, changes') BY <1>2, <1>3, <1>4, OnboardingFacts DEF Kept
<1>6. TrialFits' BY <1>1, <1>5, TrialKept
<1>7. \A a \in Appliers : ApplyFits(applier'[a], changes', config')
  BY <1>1, <1>5, OnboardingFacts, ApplyKept
<1>8. OnboardingInv' BY <1>1, <1>5, <1>6, <1>7, OnboardingFacts, OnboardingFollows
<1>9. Onb!ApplyStep BY <1>1 DEF Onb!ApplyStep
<1>10. QED BY <1>8, <1>9

\* The file is read, and the call begins.
LEMMA ReadsStep ==
    ASSUME OnboardingInv, NEW a \in Appliers, Onb!ApplyReads(a)
    PROVE  OnboardingInv' /\ Onb!ApplyStep
<1>1. applier[a].pc = "idle" /\ UNCHANGED <<config, changes, credential, listening, trial, known>>
  BY DEF Onb!ApplyReads
<1>2. PICK c \in 1..MaxChanges :
         /\ Onb!StillPreviewed(changes[c], config)
         /\ applier' = [applier EXCEPT ![a] = [pc |-> "write", change |-> c, original |-> config,
                                               touched |-> FALSE]]
  BY DEF Onb!ApplyReads
<1> DEFINE r == [pc |-> "write", change |-> c, original |-> config, touched |-> FALSE]
<1>3. r \in ApplyRecs /\ r.pc = "write" /\ ApplyFits(r, changes, config)
  BY <1>2, OnboardingFacts DEF ApplyRecs, ApplyFits, Made, Onb!StillPreviewed
<1>4. applier' = [applier EXCEPT ![a] = r] BY <1>2
<1> HIDE DEF r
<1>5. Kept(changes, changes') /\ TrialFits' BY <1>1, KeptAlone, TrialKept
<1>6. /\ applier' \in [Appliers -> ApplyRecs] /\ applier'[a] = r
      /\ \A b \in Appliers \ {a} : applier'[b].pc = applier[b].pc
      /\ \A b \in Appliers : ApplyFits(applier'[b], changes', config')
  BY <1>1, <1>3, <1>4, <1>5, OnboardingFacts, ApplierSteps
<1>7. OnboardingInv' BY <1>1, <1>5, <1>6, OnboardingFacts, OnboardingFollows
<1>8. Onb!ApplyStep BY <1>1, <1>3, <1>6 DEF Onb!ApplyStep
<1>9. QED BY <1>7, <1>8

\* A call under way is of a change that was made, and goes on.
LEMMA CallFacts ==
    ASSUME OnboardingInv, NEW a \in Appliers, applier[a].pc # "idle"
    PROVE  /\ applier[a] \in ApplyRecs /\ ApplyFits(applier[a], changes, config)
           /\ Made(applier[a].change, changes) /\ changes[applier[a].change] \in ChangeRecs
           /\ applier[a].original = changes[applier[a].change].base
           /\ applier[a].original \in Configurations
<1>1. applier[a] \in ApplyRecs /\ ApplyFits(applier[a], changes, config) BY OnboardingFacts
<1>2. Made(applier[a].change, changes) /\ applier[a].original = changes[applier[a].change].base
  BY <1>1 DEF ApplyFits
<1>3. changes[applier[a].change] \in ChangeRecs BY <1>2, OnboardingFacts DEF Made
<1>4. QED BY <1>1, <1>2, <1>3 DEF ChangeRecs

\* The candidate is written.
LEMMA WritesStep ==
    ASSUME OnboardingInv, NEW a \in Appliers, Onb!ApplyWrites(a)
    PROVE  OnboardingInv' /\ Onb!ApplyStep
<1> DEFINE x == applier[a]
           app == Onb!TouchedBy(Appliers \ {a})
           r == [x EXCEPT !.pc = "activate"]
<1>1. /\ x.pc = "write" /\ UNCHANGED <<changes, credential, listening, trial, known>>
      /\ config' = Onb!BuildCandidate(changes[x.change], x.original)
      /\ applier' = [app EXCEPT ![a].pc = "activate"]
  BY DEF Onb!ApplyWrites
<1>2. /\ x \in ApplyRecs /\ ApplyFits(x, changes, config)
      /\ Made(x.change, changes) /\ changes[x.change] \in ChangeRecs
      /\ x.original = changes[x.change].base /\ x.original \in Configurations
  BY <1>1, CallFacts
<1>3. config' \in Configurations /\ config'.rest = x.original.rest BY <1>1, <1>2, CandidateFits
<1>4. app[a] = x /\ app \in [Appliers -> ApplyRecs] BY TouchedIs, OnboardingFacts
<1>5. /\ r \in ApplyRecs /\ r.pc = "activate" /\ r.change = x.change /\ r.original = x.original
      /\ r.touched = x.touched
  BY <1>2 DEF ApplyRecs
<1>6. applier' = [app EXCEPT ![a] = r] BY <1>1, <1>4
<1>7. Kept(changes, changes') /\ TrialFits' BY <1>1, KeptAlone, TrialKept
<1> HIDE DEF app, r
<1>8. ApplyFits(r, changes', config') BY <1>1, <1>2, <1>5 DEF ApplyFits
<1>9. /\ applier' \in [Appliers -> ApplyRecs] /\ applier'[a] = r
      /\ \A b \in Appliers \ {a} : applier'[b].pc = applier[b].pc
      /\ \A b \in Appliers : ApplyFits(applier'[b], changes', config')
  <2>1. app = Onb!TouchedBy(Appliers \ {a}) BY DEF app
  <2>2. config' \in Configurations BY <1>3
  <2>3. QED BY <1>5, <1>6, <1>7, <1>8, <2>1, <2>2, ApplierSteps
<1>10. OnboardingInv' BY <1>1, <1>3, <1>7, <1>9, OnboardingFacts, OnboardingFollows
<1>11. ~x.touched => /\ config = changes[x.change].base
                     /\ config' = Onb!BuildCandidate(changes[x.change], config)
                     /\ config'.rest = config.rest
  BY <1>1, <1>2, <1>3 DEF ApplyFits
<1>12. Onb!ApplyStep BY <1>1, <1>5, <1>9, <1>11 DEF Onb!ApplyStep
<1>13. QED BY <1>10, <1>12

\* An idle call fits whatever there is.
LEMMA NoApplyFits ==
    ASSUME NEW cs, NEW cfg
    PROVE  Onb!NoApply \in ApplyRecs /\ Onb!NoApply.pc = "idle" /\ ApplyFits(Onb!NoApply, cs, cfg)
<1>1. Onb!NoApply = [pc |-> "idle", change |-> 0, original |-> Onb!NoChange.base, touched |-> FALSE]
  BY DEF Onb!NoApply
<1>2. Onb!NoChange.base \in Configurations BY DEF Onb!NoChange, Configurations
<1>3. QED BY <1>1, <1>2 DEF ApplyRecs, ApplyFits

\* The status of a change that was made moves, and the changes are kept.
LEMMA MovesKept ==
    ASSUME OnboardingInv, NEW d, Made(d, changes), NEW status \in {"applied", "failed"},
           Onb!ChangeStatus(d, status)
    PROVE  Kept(changes, changes')
<1>1. d \in 1..MaxChanges /\ changes \in [1..MaxChanges -> ChangeRecs] BY OnboardingFacts DEF Made
<1>2. /\ changes' \in [1..MaxChanges -> ChangeRecs]
      /\ \A c \in 1..MaxChanges :
            /\ changes'[c].action = changes[c].action /\ changes'[c].host = changes[c].host
            /\ changes'[c].base = changes[c].base /\ changes'[c].intent = changes[c].intent
            /\ changes'[c].policy = changes[c].policy
            /\ changes'[c].status = "none" <=> changes[c].status = "none"
  BY <1>1, StatusMoves
<1>3. QED BY <1>2, OnboardingFacts DEF Kept

\* An apply ends: its change has a status, and its file is left.
LEMMA EndsStep ==
    ASSUME OnboardingInv, NEW a \in Appliers, applier[a].pc # "idle",
           applier' = [applier EXCEPT ![a] = Onb!NoApply], Kept(changes, changes'),
           UNCHANGED <<config, credential, listening, trial, known>>
    PROVE  OnboardingInv' /\ Onb!ApplyStep
<1>1. applier[a] \in ApplyRecs /\ ApplyFits(applier[a], changes, config)
      /\ applier[a].original = changes[applier[a].change].base
  BY CallFacts
<1>2. TrialFits' BY TrialKept
<1>3. /\ Onb!NoApply \in ApplyRecs /\ Onb!NoApply.pc = "idle"
      /\ ApplyFits(Onb!NoApply, changes', config')
  BY NoApplyFits
<1>4. /\ applier' \in [Appliers -> ApplyRecs] /\ applier'[a] = Onb!NoApply
      /\ \A b \in Appliers \ {a} : applier'[b].pc = applier[b].pc
      /\ \A b \in Appliers : ApplyFits(applier'[b], changes', config')
  BY <1>3, OnboardingFacts, ApplierSteps
<1>5. OnboardingInv' BY <1>2, <1>4, OnboardingFacts, OnboardingFollows
<1>6. applier[a].pc = "activate" /\ ~applier[a].touched =>
         config' = Onb!BuildCandidate(changes[applier[a].change], changes[applier[a].change].base)
  BY <1>1 DEF ApplyFits
<1>7. Onb!ApplyStep BY <1>3, <1>4, <1>6 DEF Onb!ApplyStep
<1>8. QED BY <1>5, <1>7

\* The activation ends well or badly.
LEMMA ActivatesStep ==
    ASSUME OnboardingInv, NEW a \in Appliers, Onb!ApplyActivates(a)
    PROVE  OnboardingInv' /\ Onb!ApplyStep
<1> DEFINE x == applier[a]
           app == Onb!TouchedBy(Appliers \ {a})
           r == [x EXCEPT !.pc = "failed"]
<1>1. x.pc = "activate" /\ UNCHANGED <<credential, listening, trial, known>>
  BY DEF Onb!ApplyActivates
<1>2. /\ x \in ApplyRecs /\ ApplyFits(x, changes, config)
      /\ Made(x.change, changes) /\ changes[x.change] \in ChangeRecs
      /\ x.original = changes[x.change].base /\ x.original \in Configurations
  BY <1>1, CallFacts
<1>3. CASE /\ Onb!ChangeStatus(x.change, "applied")
           /\ applier' = [applier EXCEPT ![a] = Onb!NoApply] /\ config' = config
  <2>1. Kept(changes, changes') BY <1>2, <1>3, MovesKept
  <2>2. QED BY <1>1, <1>3, <2>1, EndsStep
<1>4. CASE /\ config' = x.original /\ applier' = [app EXCEPT ![a].pc = "failed"]
           /\ changes' = changes
  <2>1. app[a] = x /\ app \in [Appliers -> ApplyRecs] BY TouchedIs, OnboardingFacts
  <2>2. r \in ApplyRecs /\ r.pc = "failed" /\ r.change = x.change /\ r.original = x.original
    BY <1>2 DEF ApplyRecs
  <2>3. applier' = [app EXCEPT ![a] = r] BY <1>4, <2>1
  <2>4. Kept(changes, changes') /\ TrialFits' BY <1>1, <1>4, KeptAlone, TrialKept
  <2>5. app = Onb!TouchedBy(Appliers \ {a}) /\ config' \in Configurations BY <1>2, <1>4
  <2> HIDE DEF app, r
  <2>6. ApplyFits(r, changes', config') BY <1>2, <1>4, <2>2 DEF ApplyFits
  <2>7. /\ applier' \in [Appliers -> ApplyRecs] /\ applier'[a] = r
        /\ \A b \in Appliers \ {a} : applier'[b].pc = applier[b].pc
        /\ \A b \in Appliers : ApplyFits(applier'[b], changes', config')
    BY <2>2, <2>3, <2>4, <2>5, <2>6, ApplierSteps
  <2>8. OnboardingInv' BY <1>1, <2>4, <2>5, <2>7, OnboardingFacts, OnboardingFollows
  <2>9. config' = changes[x.change].base BY <1>2, <1>4
  <2>10. Onb!ApplyStep BY <1>1, <2>2, <2>7, <2>9 DEF Onb!ApplyStep
  <2>11. QED BY <2>8, <2>10
<1>5. QED BY <1>3, <1>4 DEF Onb!ApplyActivates

\* The steps of a call.
LEMMA CallStep ==
    ASSUME OnboardingInv, NEW a \in Appliers,
           \/ Onb!ApplyReads(a) \/ Onb!ApplyWrites(a) \/ Onb!ApplyActivates(a)
           \/ Onb!ApplyFails(a) \/ Onb!ApplierDies(a)
    PROVE  OnboardingInv' /\ Onb!ApplyStep
<1>1. CASE Onb!ApplyFails(a)
  <2>1. /\ applier[a].pc = "failed" /\ Onb!ChangeStatus(applier[a].change, "failed")
        /\ applier' = [applier EXCEPT ![a] = Onb!NoApply]
        /\ UNCHANGED <<config, credential, listening, trial, known>>
    BY <1>1 DEF Onb!ApplyFails
  <2>2. Kept(changes, changes') BY <2>1, CallFacts, MovesKept
  <2>3. QED BY <2>1, <2>2, EndsStep
<1>2. CASE Onb!ApplierDies(a)
  <2>1. /\ applier[a].pc # "idle" /\ applier' = [applier EXCEPT ![a] = Onb!NoApply]
        /\ UNCHANGED <<config, changes, credential, listening, trial, known>>
    BY <1>2 DEF Onb!ApplierDies
  <2>2. Kept(changes, changes') BY <2>1, KeptAlone
  <2>3. QED BY <2>1, <2>2, EndsStep
<1>3. QED BY <1>1, <1>2, ReadsStep, WritesStep, ActivatesStep

\* A trial of a change that was made: its source, and where its connections go.
LEMMA TrialFacts ==
    ASSUME OnboardingInv, trial.pc # "idle"
    PROVE  /\ trial \in TrialRecs /\ Made(trial.change, changes) /\ Onb!Change \in ChangeRecs
           /\ Onb!Change.host \in Hosts /\ Onb!Source \in Credentials
           /\ Onb!Endpoint \in Onb!Addresses \X Onb!Fingerprints
<1>1. trial \in TrialRecs /\ Made(trial.change, changes) BY OnboardingFacts DEF TrialFits
<1>2. Onb!Change \in ChangeRecs /\ Onb!Change.host \in Hosts
  BY <1>1, OnboardingFacts DEF Made, Onb!Change
<1>3. Onb!Source \in Credentials BY <1>2, OnboardingFacts DEF Onb!Source
<1>4. Onb!Source.address \in Onb!Addresses BY <1>3 DEF Credentials
<1>5. listening[Onb!Source.address].key \in Onb!Fingerprints BY <1>4, OnboardingFacts DEF Listeners
<1>6. QED BY <1>1, <1>2, <1>3, <1>4, <1>5 DEF Onb!Endpoint

\* A step of the trial alone.
LEMMA TrialAlone ==
    ASSUME OnboardingInv, Onb!OnlyTrial, trial' \in TrialRecs, TrialFits'
    PROVE  OnboardingInv' /\ Onb!ApplyStep
<1>1. UNCHANGED <<config, changes, applier, credential, listening, known>> BY DEF Onb!OnlyTrial
<1>2. Kept(changes, changes') BY <1>1, KeptAlone
<1>3. \A a \in Appliers : ApplyFits(applier'[a], changes', config') BY <1>1, OnboardingFacts
<1>4. OnboardingInv' BY <1>1, <1>2, <1>3, OnboardingFacts, OnboardingFollows
<1>5. Onb!ApplyStep BY <1>1 DEF Onb!ApplyStep
<1>6. QED BY <1>4, <1>5

\* No trial is under way.
LEMMA NoTrialFits ==
    Onb!NoTrial \in TrialRecs /\ Onb!NoTrial.pc = "idle"
BY DEF Onb!NoTrial, TrialRecs, Onb!Addresses, Onb!Fingerprints

\* A trial before its contacts: it is of a change that was made.
LEMMA TrialBegins ==
    ASSUME OnboardingInv, Onb!OnlyTrial, trial' \in TrialRecs, Made(trial'.change, changes),
           trial'.pc \in {"probe", "resolve", "scan", "rescan"}
    PROVE  OnboardingInv' /\ Onb!ApplyStep
<1>1. TrialFits' BY DEF TrialFits, Onb!OnlyTrial, Made
<1>2. QED BY <1>1, TrialAlone

\* The steps of the trial up to the second scan.
LEMMA EarlyTrial ==
    ASSUME OnboardingInv,
           Onb!StartTrial \/ Onb!ProbeSource \/ Onb!ResolveCredential \/ Onb!ScanHostKeys
    PROVE  OnboardingInv' /\ Onb!ApplyStep
<1>1. CASE Onb!StartTrial
  <2>1. Onb!OnlyTrial BY <1>1 DEF Onb!StartTrial
  <2>2. PICK c \in 1..MaxChanges : /\ changes[c].status = "previewed"
                                   /\ trial' = [Onb!NoTrial EXCEPT !.pc = "probe", !.change = c]
    BY <1>1 DEF Onb!StartTrial
  <2>3. trial' \in TrialRecs /\ trial'.pc = "probe" /\ trial'.change = c
    <3>1. c \in Int
      OBVIOUS
    <3>2. ASSUME NEW n \in TrialRecs
          PROVE  LET r == [n EXCEPT !.pc = "probe", !.change = c] IN
                 r \in TrialRecs /\ r.pc = "probe" /\ r.change = c
      BY <3>1 DEF TrialRecs
    <3>3. QED BY <2>2, <3>2, NoTrialFits
  <2>4. Made(trial'.change, changes) BY <2>2, <2>3 DEF Made
  <2>5. QED BY <2>1, <2>3, <2>4, TrialBegins
<1>2. CASE Onb!ProbeSource
  <2>1. Onb!OnlyTrial /\ trial.pc # "idle" /\ trial' = [trial EXCEPT !.pc = "resolve"]
    BY <1>2 DEF Onb!ProbeSource, Onb!Trying, Onb!TrialStep
  <2>2. trial' \in TrialRecs /\ trial'.pc = "resolve" /\ trial'.change = trial.change
    BY <2>1, OnboardingFacts DEF TrialRecs
  <2>3. QED BY <2>1, <2>2, TrialFacts, TrialBegins
<1>3. CASE Onb!ResolveCredential
  <2>1. /\ Onb!OnlyTrial /\ trial.pc # "idle"
        /\ trial' = [trial EXCEPT !.pc = "scan", !.address = Onb!Source.address,
                                  !.expected = Onb!Source.expected]
    BY <1>3 DEF Onb!ResolveCredential, Onb!Trying
  <2>2. Onb!Source.address \in Onb!Addresses /\ Onb!Source.expected \in {"none", "k1"}
    BY <2>1, TrialFacts DEF Credentials
  <2>3. trial' \in TrialRecs /\ trial'.pc = "scan" /\ trial'.change = trial.change
    BY <2>1, <2>2, OnboardingFacts DEF TrialRecs
  <2>4. QED BY <2>1, <2>3, TrialFacts, TrialBegins
<1>4. CASE Onb!ScanHostKeys
  <2>1. /\ Onb!OnlyTrial /\ trial.pc # "idle"
        /\ trial' = [trial EXCEPT !.pc = "rescan", !.first = {listening[trial.address].key}]
    BY <1>4 DEF Onb!ScanHostKeys, Onb!Trying
  <2>2. trial.address \in Onb!Addresses BY OnboardingFacts DEF TrialRecs
  <2>3. listening[trial.address].key \in Onb!Fingerprints BY <2>2, OnboardingFacts DEF Listeners
  <2>4. trial' \in TrialRecs /\ trial'.pc = "rescan" /\ trial'.change = trial.change
    BY <2>1, <2>3, OnboardingFacts DEF TrialRecs
  <2>5. QED BY <2>1, <2>4, TrialFacts, TrialBegins
<1>5. QED BY <1>1, <1>2, <1>3, <1>4

\* What a policy lets through was seen, and is what is expected or a new host's first key.
LEMMA SelectedIs ==
    ASSUME NEW seen, Onb!Change.policy \in Onb!Policies, NEW k \in Onb!SelectHostKeys(seen)
    PROVE  /\ k \in seen
           /\ trial.expected = "none" =>
                 \/ Onb!Change.intent = "new_host" /\ Onb!Change.policy = "tofu"
                 \/ k = "none"
           /\ trial.expected # "none" => k = trial.expected
<1>1. CASE Onb!Change.policy = "tofu" BY <1>1 DEF Onb!SelectHostKeys
<1>2. CASE Onb!Change.policy = "rotation" BY <1>2 DEF Onb!SelectHostKeys, Onb!PreviousFingerprints
<1>3. CASE Onb!Change.policy = "pinned" BY <1>3 DEF Onb!SelectHostKeys
<1>4. QED BY <1>1, <1>2, <1>3 DEF Onb!Policies

\* The keys both scans saw are staged.
LEMMA StagesStep ==
    ASSUME OnboardingInv, Onb!StageHostKeys
    PROVE  OnboardingInv' /\ Onb!ApplyStep
<1> DEFINE seen == {listening[trial.address].key}
           chosen == Onb!SelectHostKeys(seen)
<1>1. /\ Onb!OnlyTrial /\ trial.pc # "idle" /\ seen = trial.first
      /\ trial' = [trial EXCEPT !.pc = "authenticate",
                                !.staged = {<<trial.address, k>> : k \in chosen}]
  BY DEF Onb!StageHostKeys, Onb!Trying, Onb!StableScan
<1>2. trial \in TrialRecs /\ Made(trial.change, changes) /\ Onb!Change \in ChangeRecs
  BY <1>1, TrialFacts
<1>3. Onb!Change.policy \in Onb!Policies /\ trial.address \in Onb!Addresses
      /\ seen \subseteq Onb!Fingerprints
  BY <1>1, <1>2 DEF ChangeRecs, TrialRecs
<1> HIDE DEF seen
<1>4. \A k \in chosen :
         /\ k \in seen
         /\ trial.expected = "none" =>
               \/ Onb!Change.intent = "new_host" /\ Onb!Change.policy = "tofu"
               \/ k = "none"
         /\ trial.expected # "none" => k = trial.expected
  BY <1>3, SelectedIs
<1> HIDE DEF chosen
<1>5. {<<trial.address, k>> : k \in chosen} \subseteq Pairs BY <1>3, <1>4 DEF Pairs
<1>6. /\ trial' \in TrialRecs /\ trial'.pc = "authenticate" /\ trial'.change = trial.change
      /\ trial'.address = trial.address /\ trial'.expected = trial.expected
      /\ trial'.first = trial.first /\ trial'.staged = {<<trial.address, k>> : k \in chosen}
  BY <1>1, <1>2, <1>5 DEF TrialRecs
<1>7. changes' = changes /\ Onb!Change' = Onb!Change BY <1>1, <1>6 DEF Onb!OnlyTrial, Onb!Change
<1>8. \A k \in chosen : k # "none" BY <1>3, <1>4 DEF Onb!Fingerprints
<1>9. Evidence' BY <1>1, <1>4, <1>6, <1>7, <1>8 DEF Evidence
<1>10. TrialFits' BY <1>2, <1>6, <1>7, <1>9 DEF TrialFits, Made
<1>11. QED BY <1>1, <1>6, <1>10, TrialAlone

\* A contact goes to a staged key.
LEMMA ContactStep ==
    ASSUME OnboardingInv, Onb!OnlyTrial, Onb!Contact,
           trial.pc \in {"authenticate", "discover", "validate"},
           NEW r \in TrialRecs, trial' = r, r.pc \in {"discover", "validate", "prepared"},
           r.change = trial.change, r.address = trial.address, r.expected = trial.expected,
           r.first = trial.first, r.staged = trial.staged,
           \/ r.contacts = {Onb!Endpoint}
           \/ r.contacts = trial.contacts \union {Onb!Endpoint} /\ trial.pc # "authenticate"
    PROVE  OnboardingInv' /\ Onb!ApplyStep
<1>1. Made(trial.change, changes) /\ Evidence
      /\ (trial.pc # "authenticate" => trial.contacts \subseteq trial.staged)
  BY OnboardingFacts DEF TrialFits
<1>2. Onb!Endpoint \in trial.staged BY DEF Onb!Contact, Onb!StrictlyKnown
<1>3. r.contacts # {} /\ r.contacts \subseteq r.staged BY <1>1, <1>2
<1>4. changes' = changes /\ Onb!Change' = Onb!Change BY DEF Onb!OnlyTrial, Onb!Change
<1>5. Evidence' BY <1>1, <1>4 DEF Evidence
<1>6. TrialFits' BY <1>1, <1>3, <1>4, <1>5 DEF TrialFits, Made
<1>7. QED BY <1>6, TrialAlone

\* The contacts of the trial.
LEMMA LateTrial ==
    ASSUME OnboardingInv, Onb!AuthenticateHost \/ Onb!CapabilitySnapshot \/ Onb!ValidateBindings
    PROVE  OnboardingInv' /\ Onb!ApplyStep
<1>0. trial \in TrialRecs BY OnboardingFacts
<1>1. CASE Onb!AuthenticateHost
  <2> DEFINE r == [trial EXCEPT !.pc = "discover", !.contacts = {Onb!Endpoint}]
  <2>1. trial.pc = "authenticate" /\ Onb!Contact /\ Onb!OnlyTrial /\ trial' = r
    BY <1>1 DEF Onb!AuthenticateHost, Onb!Trying
  <2>2. Onb!Endpoint \in Onb!Addresses \X Onb!Fingerprints BY <2>1, TrialFacts
  <2>3. /\ r \in TrialRecs /\ r.pc = "discover" /\ r.contacts = {Onb!Endpoint}
        /\ r.change = trial.change /\ r.address = trial.address /\ r.expected = trial.expected
        /\ r.first = trial.first /\ r.staged = trial.staged
    BY <1>0, <2>2 DEF TrialRecs
  <2> HIDE DEF r
  <2>4. QED BY <2>1, <2>3, ContactStep
<1>2. CASE Onb!CapabilitySnapshot
  <2> DEFINE r == [trial EXCEPT !.pc = "validate", !.contacts = trial.contacts \union {Onb!Endpoint}]
  <2>1. trial.pc = "discover" /\ Onb!Contact /\ Onb!OnlyTrial /\ trial' = r
    BY <1>2 DEF Onb!CapabilitySnapshot, Onb!Trying
  <2>2. Onb!Endpoint \in Onb!Addresses \X Onb!Fingerprints BY <2>1, TrialFacts
  <2>3. /\ r \in TrialRecs /\ r.pc = "validate"
        /\ r.contacts = trial.contacts \union {Onb!Endpoint}
        /\ r.change = trial.change /\ r.address = trial.address /\ r.expected = trial.expected
        /\ r.first = trial.first /\ r.staged = trial.staged
    BY <1>0, <2>2 DEF TrialRecs
  <2> HIDE DEF r
  <2>4. QED BY <2>1, <2>3, ContactStep
<1>3. CASE Onb!ValidateBindings
  <2> DEFINE v == IF listening[Onb!Source.address].root THEN "valid" ELSE "preparation_required"
             r == [trial EXCEPT !.pc = "prepared", !.contacts = trial.contacts \union {Onb!Endpoint},
                                !.validation = v]
  <2>1. trial.pc = "validate" /\ Onb!Contact /\ Onb!OnlyTrial /\ trial' = r
    BY <1>3 DEF Onb!ValidateBindings, Onb!Trying
  <2>2. Onb!Endpoint \in Onb!Addresses \X Onb!Fingerprints BY <2>1, TrialFacts
  <2>3. /\ r \in TrialRecs /\ r.pc = "prepared"
        /\ r.contacts = trial.contacts \union {Onb!Endpoint}
        /\ r.change = trial.change /\ r.address = trial.address /\ r.expected = trial.expected
        /\ r.first = trial.first /\ r.staged = trial.staged
    BY <1>0, <2>2 DEF TrialRecs
  <2> HIDE DEF r
  <2>4. QED BY <2>1, <2>3, ContactStep
<1>4. QED BY <1>1, <1>2, <1>3

\* A trial ends with nothing changed.
LEMMA FailsStep ==
    ASSUME OnboardingInv, Onb!TrialFails
    PROVE  OnboardingInv' /\ Onb!ApplyStep
<1>1. Onb!OnlyTrial /\ trial' = Onb!NoTrial BY DEF Onb!TrialFails
<1>2. trial' \in TrialRecs /\ TrialFits' BY <1>1, NoTrialFits DEF TrialFits
<1>3. QED BY <1>1, <1>2, TrialAlone

\* Whoever else writes the file keeps the calls from saying anything of it.
LEMMA OthersWrite ==
    ASSUME OnboardingInv, applier' = Onb!TouchedBy(Appliers), Kept(changes, changes'),
           config' \in Configurations, UNCHANGED <<credential, listening>>,
           known' \subseteq Pairs, trial' \in TrialRecs, TrialFits'
    PROVE  OnboardingInv' /\ Onb!ApplyStep
<1>1. /\ applier' \in [Appliers -> ApplyRecs]
      /\ \A b \in Appliers : applier'[b].pc = applier[b].pc
      /\ \A b \in Appliers : ApplyFits(applier'[b], changes', config')
  BY OthersTouched
<1>2. OnboardingInv' BY <1>1, OnboardingFacts, OnboardingFollows
<1>3. Onb!ApplyStep BY <1>1 DEF Onb!ApplyStep
<1>4. QED BY <1>2, <1>3

\* The tried host is brought in.
LEMMA ActivateStep ==
    ASSUME OnboardingInv, Onb!Activate
    PROVE  OnboardingInv' /\ Onb!ApplyStep
<1>1. /\ trial.pc = "prepared" /\ config' = Onb!BuildCandidate(Onb!Change, config)
      /\ applier' = Onb!TouchedBy(Appliers) /\ known' = trial.staged
      /\ Onb!ChangeStatus(trial.change, "applied") /\ trial' = Onb!NoTrial
      /\ UNCHANGED <<credential, listening>>
  BY DEF Onb!Activate, Onb!Trying
<1>2. trial \in TrialRecs /\ Made(trial.change, changes) /\ Onb!Change \in ChangeRecs
  BY <1>1, TrialFacts
<1>3. config' \in Configurations BY <1>1, <1>2, OnboardingFacts, CandidateFits
<1>4. known' \subseteq Pairs BY <1>1, <1>2 DEF TrialRecs
<1>5. Kept(changes, changes') BY <1>1, <1>2, MovesKept
<1>6. trial' \in TrialRecs /\ TrialFits' BY <1>1, NoTrialFits DEF TrialFits
<1>7. QED BY <1>1, <1>3, <1>4, <1>5, <1>6, OthersWrite

\* What happens outside: the owner edits the configuration or a source, a host changes.
LEMMA OutsideStep ==
    ASSUME OnboardingInv, Onb!OwnerEditsConfig \/ Onb!OwnerEditsSource \/ Onb!HostChanges
    PROVE  OnboardingInv' /\ Onb!ApplyStep
<1>1. changes' = changes /\ trial' = trial /\ known' = known
  BY DEF Onb!OwnerEditsConfig, Onb!OwnerEditsSource, Onb!HostChanges
<1>2. Kept(changes, changes') /\ TrialFits' BY <1>1, KeptAlone, TrialKept
<1>3. CASE Onb!OwnerEditsConfig
  <2>1. /\ config' = [config EXCEPT !.rest = 1 - config.rest]
        /\ applier' = Onb!TouchedBy(Appliers) /\ UNCHANGED <<credential, listening>>
    BY <1>3 DEF Onb!OwnerEditsConfig
  <2>2. config' \in Configurations BY <2>1, OnboardingFacts DEF Configurations
  <2>3. QED BY <1>1, <1>2, <2>1, <2>2, OnboardingFacts, OthersWrite
<1>4. CASE Onb!OwnerEditsSource
  <2>1. UNCHANGED <<config, applier, listening>> BY <1>4 DEF Onb!OwnerEditsSource
  <2>2. PICK h \in Hosts :
           \/ credential' = [credential EXCEPT ![h] = [credential[h] EXCEPT
                 !.address = IF credential[h].address = "here" THEN "there" ELSE "here"]]
           \/ credential' = [credential EXCEPT ![h] = [credential[h] EXCEPT !.posture = "exposed"]]
           \/ credential' = [credential EXCEPT ![h] = [credential[h] EXCEPT !.posture = "exposed key"]]
           \/ credential' = [credential EXCEPT ![h] = [credential[h] EXCEPT !.posture = "incomplete"]]
    BY <1>4 DEF Onb!OwnerEditsSource
  <2>3. credential[h] \in Credentials BY OnboardingFacts
  <2>4. /\ [credential[h] EXCEPT !.address = IF credential[h].address = "here" THEN "there" ELSE "here"]
              \in Credentials
        /\ \A p \in {"exposed", "exposed key", "incomplete"} :
              [credential[h] EXCEPT !.posture = p] \in Credentials
    BY <2>3 DEF Credentials, Onb!Addresses
  <2>5. credential' \in [Hosts -> Credentials] BY <2>2, <2>4, OnboardingFacts
  <2>6. \A a \in Appliers : ApplyFits(applier'[a], changes', config') BY <1>1, <2>1, OnboardingFacts
  <2>7. OnboardingInv' BY <1>1, <1>2, <2>1, <2>5, <2>6, OnboardingFacts, OnboardingFollows
  <2>8. QED BY <2>1, <2>7 DEF Onb!ApplyStep
<1>5. CASE Onb!HostChanges
  <2>1. UNCHANGED <<config, applier, credential>> BY <1>5 DEF Onb!HostChanges
  <2>2. PICK a \in Onb!Addresses :
           \/ listening' = [listening EXCEPT ![a] = [listening[a] EXCEPT !.key = "k2"]]
           \/ listening' = [listening EXCEPT ![a] = [listening[a] EXCEPT !.root = FALSE]]
           \/ listening' = [listening EXCEPT ![a] = [listening[a] EXCEPT !.capable = FALSE]]
    BY <1>5 DEF Onb!HostChanges
  <2>3. listening[a] \in Listeners BY OnboardingFacts
  <2>4. /\ [listening[a] EXCEPT !.key = "k2"] \in Listeners
        /\ [listening[a] EXCEPT !.root = FALSE] \in Listeners
        /\ [listening[a] EXCEPT !.capable = FALSE] \in Listeners
    BY <2>3 DEF Listeners, Onb!Fingerprints
  <2>5. listening' \in [Onb!Addresses -> Listeners] BY <2>2, <2>4, OnboardingFacts
  <2>6. \A b \in Appliers : ApplyFits(applier'[b], changes', config') BY <1>1, <2>1, OnboardingFacts
  <2>7. OnboardingInv' BY <1>1, <1>2, <2>1, <2>5, <2>6, OnboardingFacts, OnboardingFollows
  <2>8. QED BY <2>1, <2>7 DEF Onb!ApplyStep
<1>6. QED BY <1>3, <1>4, <1>5

\* Every step of the component keeps the invariant, and writes what was previewed.
LEMMA OnboardingStep ==
    ASSUME OnboardingInv, Onb!Next
    PROVE  OnboardingInv' /\ Onb!ApplyStep
<1>1. CASE \E a \in Appliers : \/ Onb!ApplyReads(a) \/ Onb!ApplyWrites(a) \/ Onb!ApplyActivates(a)
                               \/ Onb!ApplyFails(a) \/ Onb!ApplierDies(a)
  BY <1>1, CallStep
<1>2. QED
  BY <1>1, PreviewStep, EarlyTrial, StagesStep, LateTrial, FailsStep, ActivateStep, OutsideStep
     DEF Onb!Next

\* Initially no host is configured and nothing is under way.
LEMMA OnboardingInit == Onb!Init => OnboardingInv
<1> SUFFICES ASSUME Onb!Init PROVE OnboardingInv
  OBVIOUS
<1>1. Onb!NoChange \in ChangeRecs /\ Onb!NoChange.status = "none"
      /\ Onb!NoChange.base \in Configurations
  BY DEF Onb!NoChange, ChangeRecs, Configurations, Onb!Actions, Onb!Intents, Onb!Policies
<1>2. config \in Configurations /\ changes \in [1..MaxChanges -> ChangeRecs]
      /\ \A c \in 1..MaxChanges : changes[c].status = "none"
  BY <1>1 DEF Onb!Init
<1>3. applier \in [Appliers -> ApplyRecs] /\ \A a \in Appliers : applier[a].pc = "idle"
  BY NoApplyFits DEF Onb!Init
<1>4. credential \in [Hosts -> Credentials] BY DEF Onb!Init, Credentials, Onb!Addresses
<1>5. listening \in [Onb!Addresses -> Listeners] BY DEF Onb!Init, Listeners, Onb!Fingerprints
<1>6. trial \in TrialRecs /\ trial.pc = "idle" /\ known \subseteq Pairs BY NoTrialFits DEF Onb!Init
<1>7. OnboardingTypes BY <1>2, <1>3, <1>4, <1>5, <1>6 DEF OnboardingTypes
<1>8. TrialFits /\ \A a \in Appliers : ApplyFits(applier[a], changes, config)
  BY <1>3, <1>6 DEF TrialFits, ApplyFits
<1>9. QED BY <1>7, <1>8 DEF OnboardingInv

\* The steps of the others leave the hosts alone.
LEMMA OnboardingStutters ==
    ASSUME OnboardingInv, UNCHANGED onboardingState
    PROVE  OnboardingInv'
BY DEF onboardingState, OnboardingInv, OnboardingTypes, TrialFits, Evidence, Onb!Change

\* What is brought in is what one host showed.
LEMMA OnboardingFollowsEvidence == OnboardingInv => Onb!EvidenceOfOneHost
<1> SUFFICES ASSUME OnboardingInv PROVE Onb!EvidenceOfOneHost
  OBVIOUS
<1>1. Onb!TypeOK BY OnboardingFacts DEF Onb!TypeOK, Configurations, ChangeRecs, Pairs
<1>2. Onb!Trying("prepared") => Evidence /\ trial.contacts # {} /\ trial.contacts \subseteq trial.staged
  BY OnboardingFacts DEF TrialFits, Onb!Trying
<1>3. QED BY <1>1, <1>2 DEF Onb!EvidenceOfOneHost, Evidence

\* A host is brought in on what that one host showed, and a profile change writes what
\* was previewed where it was previewed, for any number of hosts, calls and changes
\* (ssh_activation.py, ssh_host_keys.py, ssh_profile_manager.py).
THEOREM HostChangesStayExact == MCSpec => HostChangesExact
<1>1. MCInit => OnboardingInv BY OnboardingInit DEF MCInit
<1>2. OnboardingInv /\ [MCNext]_<<focus, vars, onboardingState, serviceState>> => OnboardingInv'
  BY OnboardingStep, OnboardingStutters DEF MCNext
<1>3. OnboardingInv /\ [MCNext]_<<focus, vars, onboardingState, serviceState>>
        => [focus = "hosts" => Onb!ApplyStep]_onboardingState
  BY OnboardingStep DEF MCNext
<1>4. OnboardingInv => Onb!EvidenceOfOneHost BY OnboardingFollowsEvidence
<1>5. QED BY <1>1, <1>2, <1>3, <1>4, PTL DEF MCSpec, HostChangesExact

----
(* The service from start to reload (ServiceLifecycle).                     *)

PassOutcomes == {"none", "ok", "failed"}
CallRecs == [step: {"none", "modules", "apply", "set"}, config: Int, restart: BOOLEAN]

LifecycleTypes ==
    /\ rows \in [Lif!AllPaths -> {"none", "running", "ok", "failed"}]
    /\ attempt \in [Lif!AllPaths -> {"none", "begun", "ok", "failed"}]
    /\ unrecorded \subseteq Lif!AllPaths /\ lastOk \in PassOutcomes
    /\ boot \in [at: 0..6, phase: {"down", "next", "claimed"}]
    /\ file \in Int /\ served \in Int /\ life \in [active: Int, previous: Int]
    /\ call \in [Lif!Actors -> CallRecs] /\ torn \in BOOLEAN

\* A reconciliation that failed or was left half done has a row that says so, unless the
\* store refused it; so has the path under way and what the coordinator recorded last.
RowsFit ==
    /\ \A p \in Lif!AllPaths \ unrecorded :
          attempt[p] \in {"begun", "failed"} => rows[p] \in {"running", "failed"}
    /\ lastOk = "failed" /\ Lif!Coordinator \notin unrecorded => rows[Lif!Coordinator] = "failed"
    /\ boot.phase = "claimed" =>
          boot.at \in 1..5 /\ attempt[Lif!StartupPaths[boot.at]] = "begun"
    /\ boot.phase = "next" => boot.at \in 1..6
    /\ boot.phase = "down" => boot.at = 0

Busy(a) == call[a] # Lif!Idle
Settled == served = life.active

\* One call at most is under way, and until it changes the configuration the one that
\* is served is the active one, unless calls are torn.
CallsFit ==
    /\ \A a \in Lif!Actors : call[a].step = "none" => ~Busy(a)
    /\ boot = Lif!Down => ~torn /\ \A a \in Lif!Actors : ~Busy(a)
    /\ ~torn => \A a, b \in Lif!Actors : Busy(a) /\ Busy(b) => a = b
    /\ ~torn /\ boot # Lif!Down /\ (\A a \in Lif!Actors : call[a].step \in {"none", "modules"}) =>
          Settled

LifecycleInv == LifecycleTypes /\ RowsFit /\ CallsFit

\* The startup paths, one after the other, and the coordinator's after them.
LEMMA PathsAre ==
    /\ Len(Lif!StartupPaths) = 5 /\ Lif!Coordinator \in Lif!AllPaths
    /\ \A i \in 1..5 : Lif!StartupPaths[i] \in Lif!AllPaths /\ Lif!StartupPaths[i] # Lif!Coordinator
    /\ \A p \in Lif!Startup : p \in Lif!AllPaths
BY DEF Lif!StartupPaths, Lif!AllPaths, Lif!Startup, Lif!Coordinator

\* The service is down, and an idle call is none.
LEMMA DownIs ==
    /\ Lif!Down = [at |-> 0, phase |-> "down"] /\ Lif!Idle \in CallRecs /\ Lif!Idle.step = "none"
    /\ Lif!Idle.config = -1
BY DEF Lif!Down, Lif!Idle, Lif!None, Lif!NoConfig, CallRecs

\* A startup reconciliation begins and ends, and the coordinator makes a pass.
LEMMA ReconcileStep ==
    ASSUME LifecycleInv, NEW ok \in BOOLEAN, NEW stored \in BOOLEAN,
           Lif!ClaimPath(stored) \/ Lif!ResolvePath(ok, stored) \/ Lif!CoordinatorPass(ok, stored)
    PROVE  LifecycleInv'
<1>0. LifecycleTypes /\ RowsFit /\ CallsFit BY DEF LifecycleInv
<1>1. UNCHANGED <<file, served, life, call, torn>>
  BY DEF Lif!ClaimPath, Lif!ResolvePath, Lif!CoordinatorPass, Lif!configuration
<1>2. CASE Lif!ClaimPath(stored)
  <2> DEFINE p == Lif!StartupPaths[boot.at]
  <2>1. boot.phase = "next" /\ boot.at \in 1..5 /\ lastOk' = lastOk
    BY <1>0, <1>2, PathsAre DEF Lif!ClaimPath, Lif!Serving, RowsFit
  <2>2. boot' = [boot EXCEPT !.phase = "claimed"] BY <1>2 DEF Lif!ClaimPath
  <2>3. boot' \in [at: 0..6, phase: {"down", "next", "claimed"}] /\ boot'.phase = "claimed"
        /\ boot'.at = boot.at
    BY <1>0, <2>2 DEF LifecycleTypes
  <2>4. /\ attempt' = [attempt EXCEPT ![p] = "begun"]
        /\ rows' = IF stored THEN [rows EXCEPT ![p] = "running"] ELSE rows
        /\ unrecorded' = IF stored THEN unrecorded \ {p} ELSE unrecorded \union {p}
    BY <1>2 DEF Lif!ClaimPath, Lif!ClaimedRow
  <2>5. p \in Lif!AllPaths /\ p # Lif!Coordinator BY <2>1, PathsAre
  <2>6. p = Lif!StartupPaths[boot'.at] BY <2>3
  <2> HIDE DEF p
  <2>7. LifecycleTypes' BY <1>0, <1>1, <2>1, <2>3, <2>4, <2>5 DEF LifecycleTypes
  <2>8. RowsFit' BY <1>0, <2>1, <2>3, <2>4, <2>5, <2>6 DEF LifecycleTypes, RowsFit
  <2>9. boot # Lif!Down /\ boot' # Lif!Down BY <2>1, <2>3, DownIs
  <2>10. CallsFit' BY <1>0, <1>1, <2>9 DEF CallsFit, Busy, Settled
  <2>11. QED BY <2>7, <2>8, <2>10 DEF LifecycleInv
<1>3. CASE Lif!ResolvePath(ok, stored)
  <2> DEFINE p == Lif!StartupPaths[boot.at]
             now == IF ok THEN "ok" ELSE "failed"
  <2>1. /\ boot.phase = "claimed" /\ boot.at \in 1..5 /\ lastOk' = lastOk
        /\ attempt[p] = "begun"
    BY <1>0, <1>3 DEF Lif!ResolvePath, RowsFit
  <2>2. boot' = [at |-> boot.at + 1, phase |-> "next"] BY <1>3 DEF Lif!ResolvePath
  <2>3. boot' \in [at: 0..6, phase: {"down", "next", "claimed"}] /\ boot'.phase = "next"
        /\ boot'.at \in 1..6
    BY <2>1, <2>2
  <2>4. /\ attempt' = [attempt EXCEPT ![p] = now]
        /\ rows' = IF stored THEN [rows EXCEPT ![p] = now] ELSE rows
        /\ unrecorded' = IF stored THEN unrecorded \ {p} ELSE unrecorded
    BY <1>3 DEF Lif!ResolvePath
  <2>5. p \in Lif!AllPaths /\ p # Lif!Coordinator /\ now \in {"ok", "failed"} BY <2>1, PathsAre
  <2> HIDE DEF p, now
  <2>6. LifecycleTypes' BY <1>0, <1>1, <2>1, <2>3, <2>4, <2>5 DEF LifecycleTypes
  <2>7. RowsFit' BY <1>0, <2>1, <2>3, <2>4, <2>5 DEF LifecycleTypes, RowsFit
  <2>8. boot # Lif!Down /\ boot' # Lif!Down BY <2>1, <2>3, DownIs
  <2>9. CallsFit' BY <1>0, <1>1, <2>8 DEF CallsFit, Busy, Settled
  <2>10. QED BY <2>6, <2>7, <2>9 DEF LifecycleInv
<1>4. CASE Lif!CoordinatorPass(ok, stored)
  <2> DEFINE now == IF ok THEN "ok" ELSE "failed"
  <2>1. /\ boot' = boot /\ lastOk' = now /\ attempt' = [attempt EXCEPT ![Lif!Coordinator] = now]
        /\ rows' = IF now # lastOk /\ stored THEN [rows EXCEPT ![Lif!Coordinator] = now] ELSE rows
        /\ unrecorded' = IF now = lastOk THEN unrecorded
                         ELSE IF stored THEN unrecorded \ {Lif!Coordinator}
                         ELSE unrecorded \union {Lif!Coordinator}
    BY <1>4 DEF Lif!CoordinatorPass
  <2>2. now \in {"ok", "failed"}
    OBVIOUS
  <2> HIDE DEF now
  <2>3. LifecycleTypes' BY <1>0, <1>1, <2>1, <2>2, PathsAre DEF LifecycleTypes, PassOutcomes
  <2>4. RowsFit' BY <1>0, <2>1, <2>2, PathsAre DEF LifecycleTypes, RowsFit
  <2>5. CallsFit' BY <1>0, <1>1, <2>1 DEF CallsFit, Busy, Settled
  <2>6. QED BY <2>3, <2>4, <2>5 DEF LifecycleInv
<1>5. QED BY <1>2, <1>3, <1>4

\* The process starts and dies, and the file is edited.
LEMMA ProcessStep ==
    ASSUME LifecycleInv,
           \/ Lif!StartProcess \/ Lif!ProcessDies \/ \E version \in 0..MaxFile : Lif!EditFile(version)
    PROVE  LifecycleInv'
<1>0. LifecycleTypes /\ RowsFit /\ CallsFit BY DEF LifecycleInv
<1>1. UNCHANGED <<rows, attempt, unrecorded>>
  BY DEF Lif!StartProcess, Lif!ProcessDies, Lif!EditFile, Lif!startup
<1>2. CASE Lif!StartProcess
  <2>1. /\ boot = Lif!Down /\ boot' = [at |-> 1, phase |-> "next"] /\ served' = file
        /\ life' = [life EXCEPT !.active = file] /\ UNCHANGED <<lastOk, file, call, torn>>
    BY <1>2 DEF Lif!StartProcess, Lif!Registered
  <2>2. life' \in [active: Int, previous: Int] /\ life'.active = served'
    BY <1>0, <2>1 DEF LifecycleTypes
  <2>3. LifecycleTypes' BY <1>0, <1>1, <2>1, <2>2 DEF LifecycleTypes
  <2>4. RowsFit' BY <1>0, <1>1, <2>1 DEF RowsFit
  <2>5. boot' # Lif!Down BY <2>1, DownIs
  <2>6. CallsFit' BY <1>0, <2>1, <2>2, <2>5 DEF CallsFit, Busy, Settled
  <2>7. QED BY <2>3, <2>4, <2>6 DEF LifecycleInv
<1>3. CASE Lif!ProcessDies
  <2>1. /\ boot' = Lif!Down /\ lastOk' = "none" /\ served' = -1
        /\ life' = [active |-> -1, previous |-> -1] /\ file' = file /\ torn' = FALSE
        /\ call' = [a \in Lif!Actors |-> Lif!Idle]
    BY <1>3 DEF Lif!ProcessDies, Lif!None, Lif!NoConfig
  <2>2. LifecycleTypes'
    <3>1. /\ boot' \in [at: 0..6, phase: {"down", "next", "claimed"}] /\ served' \in Int
          /\ life' \in [active: Int, previous: Int] /\ lastOk' \in PassOutcomes
      BY <2>1, DownIs DEF PassOutcomes
    <3>2. call' \in [Lif!Actors -> CallRecs] /\ torn' \in BOOLEAN BY <2>1, DownIs
    <3>3. QED BY <1>0, <1>1, <2>1, <3>1, <3>2 DEF LifecycleTypes
  <2>3. RowsFit' BY <1>0, <1>1, <2>1, DownIs DEF RowsFit
  <2>4. CallsFit' BY <2>1 DEF CallsFit, Busy
  <2>5. QED BY <2>2, <2>3, <2>4 DEF LifecycleInv
<1>4. CASE \E version \in 0..MaxFile : Lif!EditFile(version)
  <2>1. file' \in Int /\ UNCHANGED <<boot, lastOk, served, life, call, torn>>
    BY <1>4 DEF Lif!EditFile, Lif!startup, Lif!configuration
  <2>2. QED BY <1>0, <1>1, <2>1 DEF LifecycleInv, LifecycleTypes, RowsFit, CallsFit, Busy, Settled
<1>5. QED BY <1>2, <1>3, <1>4

\* What the reconciliations have recorded is not the calls' business.
LEMMA CallKeeps ==
    ASSUME LifecycleInv, UNCHANGED <<rows, attempt, unrecorded, lastOk, boot, file>>,
           life' \in [active: Int, previous: Int], served' \in Int, torn' \in BOOLEAN,
           NEW a \in Lif!Actors, NEW r \in CallRecs, call' = [call EXCEPT ![a] = r],
           boot # Lif!Down, r.step = "none" => r = Lif!Idle,
           ~torn' => /\ r # Lif!Idle => \A b \in Lif!Actors \ {a} : ~Busy(b)
                     /\ ~torn \/ \A b \in Lif!Actors \ {a} : ~Busy(b)
                     /\ r.step \in {"none", "modules"} => Settled'
    PROVE  LifecycleInv'
<1>0. LifecycleTypes /\ RowsFit /\ CallsFit BY DEF LifecycleInv
<1>1. /\ call' \in [Lif!Actors -> CallRecs] /\ call'[a] = r
      /\ \A b \in Lif!Actors \ {a} : call'[b] = call[b]
  BY <1>0 DEF LifecycleTypes
<1>2. LifecycleTypes' BY <1>0, <1>1 DEF LifecycleTypes
<1>3. RowsFit' BY <1>0 DEF RowsFit
<1>4. \A b \in Lif!Actors : call'[b].step = "none" => ~Busy(b)' BY <1>0, <1>1 DEF CallsFit, Busy
<1>5. ~torn' => \A b, d \in Lif!Actors : Busy(b)' /\ Busy(d)' => b = d
  <2> SUFFICES ASSUME ~torn', NEW b \in Lif!Actors, NEW d \in Lif!Actors, Busy(b)', Busy(d)', b # d
               PROVE  FALSE
    OBVIOUS
  <2>1. CASE b = a \/ d = a BY <1>1, <2>1 DEF Busy
  <2>2. CASE b # a /\ d # a BY <1>0, <1>1, <2>2 DEF CallsFit, Busy
  <2>3. QED BY <2>1, <2>2
<1>6. ~torn' /\ boot' # Lif!Down /\ (\A b \in Lif!Actors : call'[b].step \in {"none", "modules"}) =>
         Settled'
  BY <1>1
<1>7. CallsFit' BY <1>4, <1>5, <1>6 DEF CallsFit
<1>8. QED BY <1>2, <1>3, <1>7 DEF LifecycleInv

\* A call begins, goes on and sets the configuration.
LEMMA ReloadStep ==
    ASSUME LifecycleInv, NEW a \in Lif!Actors,
           \/ \E withConfig, restart \in BOOLEAN : Lif!ValidateCandidate(a, withConfig, restart)
           \/ Lif!ActivateCandidate(a) \/ Lif!ApplyReloaded(a)
           \/ Lif!RollbackService(a) \/ Lif!SetConfig(a)
    PROVE  LifecycleInv'
<1>0. LifecycleTypes /\ RowsFit /\ CallsFit BY DEF LifecycleInv
<1>1. UNCHANGED <<rows, attempt, unrecorded, lastOk, boot, file>>
  BY DEF Lif!ValidateCandidate, Lif!ActivateCandidate, Lif!ApplyReloaded, Lif!RollbackService,
     Lif!SetConfig, Lif!startup
<1>2. /\ call[a] \in CallRecs /\ life \in [active: Int, previous: Int] /\ served \in Int
      /\ torn \in BOOLEAN /\ file \in Int /\ call[a].config \in Int
  BY <1>0 DEF LifecycleTypes, CallRecs
<1>3. Busy(a) => boot # Lif!Down BY <1>0 DEF CallsFit
<1>4. Lif!MayCall(a) => boot # Lif!Down /\ ~Busy(a)
  BY <1>0, DownIs, PathsAre DEF Lif!MayCall, Lif!CoordinatorRuns, Lif!Serving, Busy
<1>5. Lif!Others(a) <=> \E b \in Lif!Actors \ {a} : Busy(b) BY DEF Lif!Others, Busy
<1>6. Busy(a) /\ ~torn => ~Lif!Others(a) BY <1>0, <1>5 DEF CallsFit
<1>7. CASE \E withConfig, restart \in BOOLEAN : Lif!ValidateCandidate(a, withConfig, restart)
  <2>1. PICK withConfig \in BOOLEAN, restart \in BOOLEAN : Lif!ValidateCandidate(a, withConfig, restart)
    BY <1>7
  <2> DEFINE r == [step |-> "modules", config |-> IF withConfig THEN file ELSE Lif!NoConfig,
                   restart |-> restart]
  <2>2. /\ Lif!MayCall(a) /\ call' = [call EXCEPT ![a] = r] /\ torn' = (torn \/ Lif!Others(a))
        /\ UNCHANGED <<served, life>>
    BY <2>1 DEF Lif!ValidateCandidate, Lif!Begin
  <2>3. r \in CallRecs /\ r.step = "modules" BY <1>2 DEF CallRecs, Lif!NoConfig
  <2> HIDE DEF r
  <2>4. ~torn' => ~torn /\ \A b \in Lif!Actors \ {a} : ~Busy(b) BY <1>5, <2>2
  <2>5. ~torn' => Settled'
    <3> SUFFICES ASSUME ~torn' PROVE Settled'
      OBVIOUS
    <3>1. \A b \in Lif!Actors : call[b].step \in {"none", "modules"}
      BY <1>4, <2>2, <2>4, DownIs DEF Busy
    <3>2. Settled BY <1>0, <1>4, <2>2, <2>4, <3>1 DEF CallsFit
    <3>3. QED BY <2>2, <3>2 DEF Settled
  <2>6. QED BY <1>1, <1>2, <1>4, <2>2, <2>3, <2>4, <2>5, CallKeeps
<1>8. CASE Lif!ActivateCandidate(a)
  <2> DEFINE r == IF call[a].restart THEN Lif!Idle ELSE [Lif!Idle EXCEPT !.step = "apply"]
             l == IF call[a].config = Lif!NoConfig THEN life
                  ELSE [active |-> call[a].config, previous |-> life.active]
  <2>1. /\ call[a].step = "modules" /\ life' = l /\ served' = served /\ call' = [call EXCEPT ![a] = r]
        /\ torn' = (torn \/ (call[a].restart /\ call[a].config # Lif!NoConfig))
    BY <1>8 DEF Lif!ActivateCandidate
  <2>2. Busy(a) BY <2>1, DownIs DEF Busy
  <2>3. l \in [active: Int, previous: Int] /\ (call[a].config = Lif!NoConfig => l = life) BY <1>2
  <2>4. /\ r \in CallRecs /\ (call[a].restart => r = Lif!Idle)
        /\ (~call[a].restart => r.step = "apply")
    BY DownIs DEF CallRecs, Lif!Idle
  <2> HIDE DEF r, l
  <2>5. ~torn' => ~torn /\ \A b \in Lif!Actors \ {a} : ~Busy(b) BY <1>5, <1>6, <2>1, <2>2
  <2>6. ASSUME ~torn', r.step \in {"none", "modules"} PROVE Settled'
    <3>1. call[a].restart /\ call[a].config = Lif!NoConfig /\ life' = life
      BY <1>2, <2>1, <2>3, <2>4, <2>6 DEF CallRecs
    <3>2. \A b \in Lif!Actors : call[b].step \in {"none", "modules"}
      BY <2>1, <2>5, <2>6, DownIs DEF Busy
    <3>3. Settled BY <1>0, <1>3, <2>2, <2>5, <2>6, <3>2 DEF CallsFit
    <3>4. QED BY <2>1, <3>1, <3>3 DEF Settled
  <2>7. r.step = "none" => r = Lif!Idle BY <1>2, <2>4 DEF CallRecs
  <2>8. QED BY <1>1, <1>2, <1>3, <2>1, <2>2, <2>3, <2>4, <2>5, <2>6, <2>7, CallKeeps
<1>9. CASE Lif!ApplyReloaded(a)
  <2>1. call[a].step = "apply" /\ served' = served BY <1>9 DEF Lif!ApplyReloaded
  <2>2. Busy(a) BY <2>1, DownIs DEF Busy
  <2>3. ~torn => \A b \in Lif!Actors \ {a} : ~Busy(b) BY <1>5, <1>6, <2>2
  <2>4. CASE file > 0
    <3> DEFINE r == [Lif!Idle EXCEPT !.step = "set", !.config = file]
    <3>1. /\ life' = [life EXCEPT !.active = file] /\ call' = [call EXCEPT ![a] = r] /\ torn' = torn
      BY <1>9, <2>4 DEF Lif!ApplyReloaded, Lif!Registered
    <3>2. r \in CallRecs /\ r.step = "set" BY <1>2 DEF CallRecs, Lif!Idle
    <3>3. life' \in [active: Int, previous: Int] BY <1>2, <3>1
    <3> HIDE DEF r
    <3>4. QED BY <1>1, <1>2, <1>3, <2>1, <2>2, <2>3, <3>1, <3>2, <3>3, CallKeeps
  <2>5. CASE ~(file > 0)
    <3>1. call' = [call EXCEPT ![a] = Lif!Idle] /\ torn' = TRUE /\ life' = life
      BY <1>9, <2>5 DEF Lif!ApplyReloaded
    <3>2. QED BY <1>1, <1>2, <1>3, <2>1, <2>2, <3>1, DownIs, CallKeeps
  <2>6. QED BY <2>4, <2>5
<1>10. CASE Lif!RollbackService(a)
  <2> DEFINE r == [Lif!Idle EXCEPT !.step = "set", !.config = life.previous]
  <2>1. /\ Lif!MayCall(a) /\ call' = [call EXCEPT ![a] = r] /\ torn' = (torn \/ Lif!Others(a))
        /\ life' = [life EXCEPT !.active = life.previous] /\ served' = served
    BY <1>10 DEF Lif!RollbackService, Lif!Begin, Lif!Registered
  <2>2. r \in CallRecs /\ r.step = "set" /\ life' \in [active: Int, previous: Int]
    BY <1>2, <2>1 DEF CallRecs, Lif!Idle
  <2> HIDE DEF r
  <2>3. ~torn' => ~torn /\ \A b \in Lif!Actors \ {a} : ~Busy(b) BY <1>5, <2>1
  <2>4. QED BY <1>1, <1>2, <1>4, <2>1, <2>2, <2>3, CallKeeps
<1>11. CASE Lif!SetConfig(a)
  <2>1. /\ call[a].step = "set" /\ call' = [call EXCEPT ![a] = Lif!Idle]
        /\ torn' = (torn /\ Lif!Others(a)) /\ served' = call[a].config
        /\ life' = [life EXCEPT !.active = call[a].config]
    BY <1>11 DEF Lif!SetConfig, Lif!Registered
  <2>2. Busy(a) BY <2>1, DownIs DEF Busy
  <2>3. life' \in [active: Int, previous: Int] /\ served' \in Int /\ Settled'
    BY <1>2, <2>1 DEF Settled
  <2>4. torn' \in BOOLEAN /\ (~torn' => ~torn \/ \A b \in Lif!Actors \ {a} : ~Busy(b))
    BY <1>2, <1>5, <2>1
  <2>5. QED BY <1>1, <1>3, <2>1, <2>2, <2>3, <2>4, DownIs, CallKeeps
<1>12. QED BY <1>7, <1>8, <1>9, <1>10, <1>11

\* Every step keeps the invariant.
LEMMA LifecycleStep ==
    ASSUME LifecycleInv, Lif!Next
    PROVE  LifecycleInv'
<1>1. CASE \/ Lif!StartProcess \/ Lif!ProcessDies
           \/ \E version \in 0..MaxFile : Lif!EditFile(version)
  BY <1>1, ProcessStep
<1>2. ASSUME NEW ok \in BOOLEAN, NEW stored \in BOOLEAN,
             Lif!ClaimPath(stored) \/ Lif!ResolvePath(ok, stored) \/ Lif!CoordinatorPass(ok, stored)
      PROVE  LifecycleInv'
  BY <1>2, ReconcileStep
<1>3. ASSUME NEW a \in Lif!Actors,
             \/ \E withConfig, restart \in BOOLEAN : Lif!ValidateCandidate(a, withConfig, restart)
             \/ Lif!ActivateCandidate(a) \/ Lif!ApplyReloaded(a)
             \/ Lif!RollbackService(a) \/ Lif!SetConfig(a)
      PROVE  LifecycleInv'
  BY <1>3, ReloadStep
<1>4. QED BY <1>1, <1>2, <1>3 DEF Lif!Next

\* Initially nothing is recorded and the service is down.
LEMMA LifecycleInit == Lif!Init => LifecycleInv
<1> SUFFICES ASSUME Lif!Init PROVE LifecycleInv
  OBVIOUS
<1>1. LifecycleTypes
  <2>1. /\ boot \in [at: 0..6, phase: {"down", "next", "claimed"}] /\ served \in Int
        /\ life \in [active: Int, previous: Int] /\ lastOk \in PassOutcomes
    BY DownIs DEF Lif!Init, PassOutcomes, Lif!None, Lif!NoConfig
  <2>2. call \in [Lif!Actors -> CallRecs] /\ torn \in BOOLEAN BY DownIs DEF Lif!Init
  <2>3. /\ rows \in [Lif!AllPaths -> {"none", "running", "ok", "failed"}]
        /\ attempt \in [Lif!AllPaths -> {"none", "begun", "ok", "failed"}]
        /\ unrecorded \subseteq Lif!AllPaths /\ file \in Int
    BY DEF Lif!Init, Lif!None
  <2>4. QED BY <2>1, <2>2, <2>3 DEF LifecycleTypes
<1>2. RowsFit BY DownIs DEF Lif!Init, RowsFit, Lif!None
<1>3. CallsFit BY DEF Lif!Init, CallsFit, Busy
<1>4. QED BY <1>1, <1>2, <1>3 DEF LifecycleInv

\* The steps of the others leave the service alone.
LEMMA LifecycleStutters ==
    ASSUME LifecycleInv, UNCHANGED serviceState
    PROVE  LifecycleInv'
BY DEF serviceState, LifecycleInv, LifecycleTypes, RowsFit, CallsFit, Busy, Settled

\* The invariant says that readiness hides nothing and that the served configuration
\* is the active one.
LEMMA LifecycleFollows == LifecycleInv => Lif!ReadinessTruthful /\ Lif!ConfigSettled
<1> SUFFICES ASSUME LifecycleInv PROVE Lif!ReadinessTruthful /\ Lif!ConfigSettled
  OBVIOUS
<1>1. Lif!ReadinessTruthful BY DEF Lif!ReadinessTruthful, Lif!Ready, LifecycleInv, RowsFit, Lif!None
<1>2. Lif!ConfigSettled BY DownIs DEF Lif!ConfigSettled, LifecycleInv, CallsFit, Settled
<1>3. QED BY <1>1, <1>2

\* The readiness check hides no reconciliation that failed or was left half done, unless
\* the store refused its row, and between calls the served configuration is the active
\* one, for any number of callers (reconciliation_status.py, service_reload.py, server.py).
THEOREM ServiceStaysTruthful == MCSpec => []ServiceTruthful
<1>1. MCInit => LifecycleInv BY LifecycleInit DEF MCInit
<1>2. LifecycleInv /\ [MCNext]_<<focus, vars, onboardingState, serviceState>> => LifecycleInv'
  BY LifecycleStep, LifecycleStutters DEF MCNext
<1>3. LifecycleInv => ServiceTruthful BY LifecycleFollows DEF ServiceTruthful
<1>4. QED BY <1>1, <1>2, <1>3, PTL DEF MCSpec

================================================================================
