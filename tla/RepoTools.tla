------------------------------- MODULE RepoTools -------------------------------
(***************************************************************************)
(* The repository tools that work on the real index and tree: commits of   *)
(* selected files or of everything, staging and unstaging, creating,       *)
(* deleting and moving a file, and the cleanup of managed artifacts.  One  *)
(* call holds the repository lock at a time, but the user edits and stages *)
(* between any two of its steps, and previews take no lock at all.         *)
(***************************************************************************)
EXTENDS Integers, FiniteSets

CONSTANTS Paths,
          MaxTurns    \* bound on calls, edits, stagings and previews

VARIABLES
    head, index, tree,   \* content of each path in the commit, the index, the work tree
    artifacts,           \* content of each managed artifact
    cleanup,             \* the cleanup manifest: status and the contents it listed
    policy,              \* of the repository: refuse_unrelated_staged_files, commit_mode
    op,                  \* the call that holds the lock
    turns

toolVars == <<head, index, tree, artifacts, cleanup, policy, op, turns>>

Contents == {"absent", "old", "new"}
Commits == {"selected", "all"}
IndexTools == Commits \cup {"stage", "unstage"}
FileTools == {"create", "delete", "move"}
Everywhere(v) == [p \in Paths |-> v]
NoCall == [pc |-> "idle", tool |-> "none", files |-> {}, source |-> {}, seen |-> "absent",
           before |-> Everywhere("absent"), snapshot |-> Everywhere("absent"), made |-> FALSE,
           touched |-> {}, staged |-> {}, hidden |-> {}, todo |-> {}, told |-> "none"]

\* At most one path is not in the repository yet.
Init ==
    /\ \E p \in Paths, v \in {"absent", "old"} : head = [Everywhere("old") EXCEPT ![p] = v]
    /\ index = head /\ tree = head
    /\ artifacts = Everywhere("old")
    /\ cleanup = [status |-> "none", listed |-> Everywhere("absent")]
    /\ policy \in [refuse : BOOLEAN, mode : {"explicit_only", "all"}]
    /\ op = NoCall
    /\ turns = 0

Turn == turns < MaxTurns /\ turns' = turns + 1
At(pc) == op.pc = pc
Goto(pc) == op' = [op EXCEPT !.pc = pc]
Tell(told) == op' = [NoCall EXCEPT !.told = told]

Staged == {p \in Paths : index[p] # head[p]}
Dirty == {p \in Paths : tree[p] # index[p]}

\* git status pairs files that are gone from the index with new ones that resemble
\* them, each at most once, and lists such a rename by its new name only.
Renames == {r \in Paths \X Paths :
                /\ head[r[1]] # "absent" /\ index[r[1]] = "absent"
                /\ head[r[2]] = "absent" /\ index[r[2]] # "absent"}
Pairings == {R \in SUBSET Renames : \A r, s \in R : r[1] = s[1] \/ r[2] = s[2] => r = s}
Partners(files, R) == {p \in Paths : \E r \in R :
                          \/ r[1] \in files /\ r[2] = p
                          \/ r[2] \in files /\ r[1] = p}
ListedStaged(R) == {p \in Staged : \A r \in R : r[1] # p}

----
(* The user.                                                               *)

UserEdits(p, v) ==
    /\ Turn /\ tree[p] # v
    /\ tree' = [tree EXCEPT ![p] = v]
    /\ op' = IF At("idle") THEN op ELSE [op EXCEPT !.touched = @ \cup {p}]
    /\ UNCHANGED <<head, index, artifacts, cleanup, policy>>
UserStages(p) ==
    /\ Turn /\ index[p] # tree[p]
    /\ index' = [index EXCEPT ![p] = tree[p]]
    /\ op' = IF At("idle") THEN op ELSE [op EXCEPT !.staged = @ \cup {p}]
    /\ UNCHANGED <<head, tree, artifacts, cleanup, policy>>

\* git mv, in the tree and in the index.
UserMoves(p, q) ==
    /\ Turn /\ "absent" \notin {tree[p], index[p]}
    /\ tree[q] = "absent" /\ index[q] = "absent"
    /\ tree' = [tree EXCEPT ![p] = "absent", ![q] = tree[p]]
    /\ index' = [index EXCEPT ![p] = "absent", ![q] = index[p]]
    /\ op' = IF At("idle") THEN op
             ELSE [op EXCEPT !.touched = @ \cup {p, q}, !.staged = @ \cup {p, q}]
    /\ UNCHANGED <<head, artifacts, cleanup, policy>>

\* A tool of the user rewrites or removes a managed artifact.
ArtifactChanges(p, v) ==
    /\ Turn /\ artifacts[p] # v
    /\ artifacts' = [artifacts EXCEPT ![p] = v]
    /\ op' = IF At("idle") THEN op ELSE [op EXCEPT !.touched = @ \cup {p}]
    /\ UNCHANGED <<head, index, tree, cleanup, policy>>

----
(* Calls, each under the repository lock.                                   *)

Begin(tool, files, source, seen) ==
    /\ At("idle") /\ Turn
    /\ op' = [NoCall EXCEPT !.pc = "check", !.tool = tool, !.files = files, !.source = source,
                            !.seen = seen, !.before = index]
    /\ UNCHANGED <<head, index, tree, artifacts, cleanup, policy>>
StartIndexTool ==
    \E tool \in IndexTools, files \in SUBSET Paths :
       /\ IF tool = "selected" THEN files # {} ELSE files = Paths
       /\ Begin(tool, files, {}, "absent")

\* The caller names the hash it last saw of the file it deletes or moves.
StartFileTool ==
    \E tool \in FileTools, p, q \in Paths, seen \in Contents :
       /\ (tool = "move") = (p # q)
       /\ (tool = "create") = (seen = "absent")
       /\ Begin(tool, {p, q}, {p}, seen)
StartCleanup == Begin("cleanup", Paths, {}, "absent")

\* mutant: files staged by somebody else are left to be committed.
UnrelatedStagedNone(listed, files) == FALSE
UnrelatedStaged(listed, files) == policy.refuse /\ ~(listed \subseteq files)

Refused(R) ==
    CASE op.tool = "selected" -> \/ ~(op.files \subseteq ListedStaged(R) \cup Dirty)
                                 \/ UnrelatedStaged(ListedStaged(R), op.files)
      [] op.tool = "all" -> policy.mode = "explicit_only"
      [] OTHER -> FALSE

\* The old name of a staged rename is hidden from the check.
CheckIndexTool ==
    /\ At("check") /\ op.tool \in IndexTools
    /\ \E R \in Pairings :
          IF Refused(R) THEN Tell("refused")
          ELSE op' = [op EXCEPT !.pc = "snapshot", !.hidden = Partners(op.files, R)]
    /\ UNCHANGED <<head, index, tree, artifacts, cleanup, policy, turns>>
SnapshotIndex ==
    /\ At("snapshot")
    /\ op' = [op EXCEPT !.pc = "add", !.snapshot = index]
    /\ UNCHANGED <<head, index, tree, artifacts, cleanup, policy, turns>>

\* git add refuses a path that is neither in the tree nor in the index.
Unmatched(files, entries) == \E p \in files : tree[p] = "absent" /\ entries[p] = "absent"

\* git add of the files, or of everything; git reset for unstage_all.
GitAdd ==
    /\ At("add") /\ ~(op.tool = "selected" /\ Unmatched(op.files, index))
    /\ index' = [p \in Paths |-> IF op.tool = "unstage" THEN head[p]
                                 ELSE IF p \in op.files THEN tree[p] ELSE index[p]]
    /\ IF op.tool \in Commits THEN Goto("commit") ELSE Tell("ok")
    /\ UNCHANGED <<head, tree, artifacts, cleanup, policy, turns>>

\* git commit takes the whole index; with nothing in it, it fails.
GitCommit ==
    /\ At("commit") /\ index # head
    /\ head' = index
    /\ op' = [op EXCEPT !.pc = "hash", !.made = TRUE]
    /\ UNCHANGED <<index, tree, artifacts, cleanup, policy, turns>>
RevParse ==
    /\ At("hash") /\ Tell("ok")
    /\ UNCHANGED <<head, index, tree, artifacts, cleanup, policy, turns>>

RestoredIndex == op.snapshot

\* A git command fails and the index is restored, even after the commit; the
\* restore itself may fail.
GitFails ==
    /\ op.pc \in {"add", "commit", "hash"}
    /\ \/ Tell("failed") /\ index' = RestoredIndex
       \/ Tell("failed_unrestored") /\ UNCHANGED index
    /\ UNCHANGED <<head, tree, artifacts, cleanup, policy, turns>>

\* A timeout is no git error: the exception leaves everything as it is.  So does
\* the death of the server.
GitTimesOut ==
    /\ op.pc \in {"check", "snapshot", "add", "commit", "hash", "write", "finalize", "sync", "unlink"}
    /\ Tell("raised")
    /\ UNCHANGED <<head, index, tree, artifacts, cleanup, policy, turns>>

----
(* Files.                                                                   *)

Source == CHOOSE p \in op.source : TRUE
Destination == CHOOSE p \in op.files : p \notin op.source

ValidTarget ==
    /\ tree[Source] = op.seen
    /\ op.tool = "move" => tree[Destination] = "absent"

\* What is deleted is saved first.
ValidateFile ==
    /\ At("check") /\ op.tool \in FileTools
    /\ IF ValidTarget THEN op' = [op EXCEPT !.pc = "write", !.touched = {}] ELSE Tell("refused")
    /\ UNCHANGED <<head, index, tree, artifacts, cleanup, policy, turns>>
WriteFile ==
    /\ At("write")
    /\ tree' = CASE op.tool = "create" -> [tree EXCEPT ![Source] = "new"]
                 [] op.tool = "delete" -> [tree EXCEPT ![Source] = "absent"]
                 [] op.tool = "move" -> [tree EXCEPT ![Source] = "absent", ![Destination] = tree[Source]]
    /\ Goto("finalize")
    /\ UNCHANGED <<head, index, artifacts, cleanup, policy, turns>>

\* finalize_explicit_changes: the changed files of the call, and the other ends of
\* renames staged for them, are committed through an index of their own, or the
\* commit fails.
FinalizePaths(R) == (op.files \cap (Staged \cup Dirty)) \cup Partners(op.files, R)
FinalizeExplicitChanges ==
    /\ At("finalize")
    /\ \/ \E R \in Pairings :
             /\ ~Unmatched(FinalizePaths(R), head)
             /\ head' = [p \in Paths |-> IF p \in FinalizePaths(R) THEN tree[p] ELSE head[p]]
             /\ IF head' = head THEN Tell("ok")
                ELSE op' = [op EXCEPT !.pc = "sync", !.todo = FinalizePaths(R),
                                      !.hidden = Partners(op.files, R)]
       \/ Tell("commit_failed") /\ UNCHANGED head
    /\ UNCHANGED <<index, tree, artifacts, cleanup, policy, turns>>

\* Then the real index is brought into line, or the call reports a failed commit
\* although it stands.
SyncIndex ==
    /\ At("sync")
    /\ \/ /\ ~Unmatched(op.todo, index)
          /\ index' = [p \in Paths |-> IF p \in op.todo THEN tree[p] ELSE index[p]]
          /\ Tell("ok")
       \/ Tell("commit_failed") /\ UNCHANGED index
    /\ UNCHANGED <<head, tree, artifacts, cleanup, policy, turns>>

----
(* Managed artifacts: a preview lists them with their hashes, and its id    *)
(* applies it once.                                                         *)

PreviewCleanup ==
    /\ Turn /\ op.tool # "cleanup"
    /\ cleanup' = [status |-> "previewed", listed |-> artifacts]
    /\ UNCHANGED <<head, index, tree, artifacts, policy, op>>
ApplyCleanup ==
    /\ At("check") /\ op.tool = "cleanup"
    /\ CASE cleanup.status = "none" -> Tell("refused")
         [] cleanup.status = "applied" -> Tell("replay")
         [] OTHER -> op' = [op EXCEPT !.pc = "sweep", !.touched = {},
                              !.todo = {p \in Paths : cleanup.listed[p] # "absent"}]
    /\ UNCHANGED <<head, index, tree, artifacts, cleanup, policy, turns>>

\* One file after the other: missing, changed (and the rest is left), or removed.
SweepArtifact ==
    /\ At("sweep") /\ op.todo # {}
    /\ \E p \in op.todo :
          CASE artifacts[p] = "absent" -> op' = [op EXCEPT !.todo = @ \ {p}]
            [] artifacts[p] \notin {"absent", cleanup.listed[p]} -> Tell("changed")
            [] OTHER -> op' = [op EXCEPT !.pc = "unlink", !.source = {p}, !.touched = {}]
    /\ UNCHANGED <<head, index, tree, artifacts, cleanup, policy, turns>>
UnlinkArtifact ==
    /\ At("unlink")
    /\ artifacts' = [artifacts EXCEPT ![Source] = "absent"]
    /\ op' = [op EXCEPT !.pc = "sweep", !.todo = @ \ op.source]
    /\ UNCHANGED <<head, index, tree, cleanup, policy, turns>>
CleanupApplied ==
    /\ At("sweep") /\ op.todo = {}
    /\ cleanup' = [cleanup EXCEPT !.status = "applied"]
    /\ Tell("ok")
    /\ UNCHANGED <<head, index, tree, artifacts, policy, turns>>

Next ==
    \/ \E p \in Paths : UserStages(p) \/ \E v \in Contents : UserEdits(p, v) \/ ArtifactChanges(p, v)
    \/ \E p, q \in Paths : UserMoves(p, q)
    \/ StartIndexTool \/ CheckIndexTool \/ SnapshotIndex \/ GitAdd \/ GitCommit \/ RevParse
    \/ GitFails \/ GitTimesOut
    \/ StartFileTool \/ ValidateFile \/ WriteFile \/ FinalizeExplicitChanges \/ SyncIndex
    \/ StartCleanup \/ PreviewCleanup \/ ApplyCleanup \/ SweepArtifact \/ UnlinkArtifact \/ CleanupApplied

Spec == Init /\ [][Next]_toolVars

----
TypeOK ==
    /\ {head, index, tree, artifacts} \subseteq [Paths -> Contents]
    /\ cleanup.listed \in [Paths -> Contents]
    /\ op.files \cup op.touched \cup op.staged \cup op.hidden \cup op.todo \subseteq Paths

\* A commit changes nothing but the files of the call and the other ends of renames
\* that were staged for them when they were listed, unless everything was asked for,
\* the policy lets foreign files pass, or the user staged them during the call; and
\* a call that failed without one leaves every path of the index that the user did
\* not stage meanwhile as it was (git_tools.py:1215-1398, 1473-1548, 1601-1713,
\* 1433-1470).
CommitStep ==
    /\ TypeOK
    /\ op'.hidden \subseteq op.hidden \cup Partners(op.files, Renames)
    /\ \A p \in Paths : head'[p] # head[p] =>
          p \in op.files \cup op'.hidden \cup op.staged \/ ~policy.refuse
    /\ op.pc # "idle" /\ op'.pc = "idle" /\ op'.told = "failed" /\ ~op.made =>
          \A p \in Paths \ op.staged : index'[p] = op.before[p]

\* No tool removes or replaces content that its caller, or the preview, had not
\* seen, unless it was written between the check and the removal, and an applied
\* cleanup removes nothing again (repo_writer.py:1997-2116, managed_artifacts.py:163-216).
RemovalStep ==
    /\ WriteFile => \A p \in Paths \ op.touched :
          tree[p] # "absent" /\ tree'[p] # tree[p] => p \in op.source /\ tree[p] = op.seen
    /\ UnlinkArtifact =>
          /\ cleanup.status = "previewed"
          /\ \A p \in op.source \ op.touched : artifacts[p] = cleanup.listed[p]

==============================================================================
