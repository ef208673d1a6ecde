------------------------------ MODULE RepoWriter ------------------------------
(***************************************************************************)
(* Managed repository patches: a change is previewed into a bundle with a  *)
(* manifest, applied file by file under the repository operation lock,     *)
(* committed through an isolated index, and possibly reverted from the     *)
(* rollback files the apply has saved.                                     *)
(*                                                                         *)
(* The lock admits one writer; the user's editor and git do not take it.   *)
(* A file's content is a number: who wrote it is all that matters, since   *)
(* the code compares SHA-256 digests only.                                 *)
(***************************************************************************)
EXTENDS Integers, FiniteSets, FiniteSetsExt

CONSTANTS
    NumPaths,       \* files of the repository, patches list them in this order
    NumPatches,     \* patches that are previewed
    KindOf,         \* of every patch: "modify", "create" or "remove"
    FilesOf,        \* its files: several to modify, one to create or remove
    Existing,       \* the files that exist and are committed at the start
    Faults,         \* subset of {"io", "git", "crash", "user"}
    MaxEvents       \* bound: failing writes, failing git calls, crashes and
                    \* user actions together

Paths   == 1..NumPaths
Patches == 1..NumPatches

\* What the constants must be.
WriterConstants ==
    /\ NumPaths \in Nat \ {0} /\ NumPatches \in Nat /\ MaxEvents \in Nat
    /\ Existing \subseteq Paths
    /\ KindOf \in [Patches -> {"modify", "create", "remove"}]
    /\ FilesOf \in [Patches -> (SUBSET Paths) \ {{}}]
    /\ \A p \in Patches : KindOf[p] # "modify" => \E f \in Paths : FilesOf[p] = {f}

\* contents: no file, the original, the payload of a patch, a user's version
Absent     == 0
Original   == 1
Payload(p) == 1 + p
Edit(k)    == 1 + NumPatches + k
Contents   == 0..(1 + NumPatches + MaxEvents)
NoCopy     == -1    \* no file in the rollback directory

VARIABLES
    disk,       \* the working tree
    tree,       \* the files at HEAD
    index,      \* the real git index
    head,       \* the commit HEAD names
    manifest,   \* the manifest of every patch
    rollback,   \* the rollback directory of every patch
    writer,     \* the operation that holds the repository lock
    before,     \* history: the files an apply found when it checked them
    touched,    \* history: files the user changed during the operation
    events      \* how many of the bounded events happened

vars == <<disk, tree, index, head, manifest, rollback, writer, before, touched, events>>
gitVars   == <<tree, index, head>>
ghostVars == <<before, touched>>

Target(p) == IF KindOf[p] = "remove" THEN Absent ELSE Payload(p)

NoFiles == [f \in Paths |-> NoCopy]
Idle == [pc |-> "idle", patch |-> 0, left |-> {}, done |-> {},
         old |-> NoFiles, snap |-> NoFiles, clean |-> TRUE,
         scratch |-> NoFiles, parent |-> 0]

Event == events < MaxEvents /\ events' = events + 1
Fault(kind) == kind \in Faults /\ Event
NoFault == UNCHANGED events

At(pc) == writer.pc = pc
Status(p) == manifest[p].status

Goto(pc) == writer' = [writer EXCEPT !.pc = pc]

SetStatus(p, s) == manifest' = [manifest EXCEPT ![p].status = s]

----
(***************************************************************************)
(* Preview takes no lock and changes no file.                              *)
(***************************************************************************)

\* the target of a create must not exist, the others must
CreateTargetValid(f) == disk[f] = Absent
RemoveTargetValid(f) == disk[f] # Absent
OperationsValid(p) == \A f \in FilesOf[p] : disk[f] # Absent

\* The bundle is written whether or not the validation found errors.
WritePreviewBundle(p, ok) ==
    /\ Status(p) = "none"
    /\ manifest' = [manifest EXCEPT ![p] =
         [status |-> IF ok THEN "preview_ok" ELSE "preview_failed",
          head |-> head, base |-> disk]]
    /\ UNCHANGED <<disk, gitVars, rollback, writer, ghostVars, events>>

\* fresh: the client's hash is the file's and its edits apply to the content
PreviewPatch(p) ==
    /\ KindOf[p] = "modify"
    /\ \E fresh \in BOOLEAN : WritePreviewBundle(p, fresh /\ OperationsValid(p))

PreviewFileCreation(p) ==
    /\ KindOf[p] = "create"
    /\ WritePreviewBundle(p, \A f \in FilesOf[p] : CreateTargetValid(f))

PreviewFileRemoval(p) ==
    /\ KindOf[p] = "remove"
    /\ \E fresh \in BOOLEAN :
         WritePreviewBundle(p, fresh /\ \A f \in FilesOf[p] : RemoveTargetValid(f))

----
(***************************************************************************)
(* apply_previewed_repo_change.                                            *)
(***************************************************************************)

\* the statuses that do not raise; "applied" is replayed instead
MayApply(p) ==
    Status(p) \notin {"none", "applied", "reverted", "preview_failed", "corrupt"}

\* mutant: the digests recorded by the preview are not compared
UnchangedSinceUnchecked(p) ==
    /\ manifest[p].head = head
    /\ \A f \in FilesOf[p] : (disk[f] = Absent) = (KindOf[p] = "create")

\* HEAD has to be the previewed one unless the operation creates a file, and
\* every file has to be as the preview saw it.
UnchangedSincePreview(p) ==
    /\ KindOf[p] # "create" => manifest[p].head = head
    /\ \A f \in FilesOf[p] : disk[f] = manifest[p].base[f]

\* All checks come first; the bytes that were checked become rollback_bytes.
ApplyCheck(p) ==
    /\ At("idle")
    /\ MayApply(p) /\ UnchangedSincePreview(p)
    /\ writer' = [Idle EXCEPT !.pc = "snapshot", !.patch = p, !.left = FilesOf[p],
                              !.old = disk]
    /\ before' = [before EXCEPT ![p] = disk]
    /\ touched' = {}
    /\ UNCHANGED <<disk, gitVars, manifest, rollback, events>>

\* An applied patch is reported again, and goes on to the commit.
ApplyReplay(p) ==
    /\ At("idle") /\ Status(p) = "applied"
    /\ writer' = [Idle EXCEPT !.pc = "commit", !.patch = p]
    /\ touched' = {}
    /\ UNCHANGED <<disk, gitVars, manifest, rollback, before, events>>

\* TransactionContext reads the files once more.
ApplySnapshot ==
    /\ At("snapshot")
    /\ writer' = [writer EXCEPT !.pc = "mark_applying", !.snap = disk]
    /\ UNCHANGED <<disk, gitVars, manifest, rollback, ghostVars, events>>

\* The status is durable before the first file is written.
MarkApplying ==
    /\ At("mark_applying")
    /\ \/ /\ SetStatus(writer.patch, "applying")
          /\ Goto("write")
          /\ NoFault
       \/ /\ Fault("io")
          /\ writer' = Idle
          /\ UNCHANGED manifest
    /\ UNCHANGED <<disk, gitVars, rollback, ghostVars>>

\* Every later failure goes to the rollback.
Fails(next) == writer' = [next EXCEPT !.pc = "undo", !.left = {}]

Saved(p, f) ==
    IF KindOf[p] = "create" THEN rollback
    ELSE [rollback EXCEPT ![p][f] = writer.old[f]]

\* One operation: the rollback copy, then the file by temp and rename.
WriteOp ==
    /\ At("write") /\ writer.left # {}
    /\ LET f == Min(writer.left)
           p == writer.patch
           saved == Saved(p, f)
       IN \/ /\ ~(KindOf[p] = "remove" /\ disk[f] = Absent)
             /\ rollback' = saved
             /\ disk' = [disk EXCEPT ![f] = Target(p)]
             /\ writer' = [writer EXCEPT !.left = @ \ {f}, !.done = @ \cup {f}]
             /\ NoFault
          \/ /\ KindOf[p] = "remove" /\ disk[f] = Absent
             /\ rollback' = saved
             /\ Fails(writer)
             /\ NoFault
             /\ UNCHANGED disk
          \/ /\ Fault("io")
             /\ rollback' \in {rollback, saved}
             /\ Fails(writer)
             /\ UNCHANGED disk
    /\ UNCHANGED <<gitVars, manifest, ghostVars>>

MarkApplied ==
    /\ At("write") /\ writer.left = {}
    /\ \/ /\ SetStatus(writer.patch, "applied")
          /\ Goto("save_result")
          /\ NoFault
       \/ /\ Fault("io")
          /\ Fails(writer)
          /\ UNCHANGED manifest
    /\ UNCHANGED <<disk, gitVars, rollback, ghostVars>>

\* The result is stored for replays; a failure here raises after the fact.
SaveResult ==
    /\ At("save_result")
    /\ \/ Goto("commit") /\ NoFault
       \/ Fault("io") /\ writer' = Idle
    /\ UNCHANGED <<disk, gitVars, manifest, rollback, ghostVars>>

\* _rollback_applied_preview_ops: the written files, last one first; the first
\* failure ends the whole rollback.
UndoOp ==
    /\ At("undo") /\ writer.done # {}
    /\ LET f == Max(writer.done)
           p == writer.patch
       IN \/ /\ disk' = [disk EXCEPT ![f] =
                  IF KindOf[p] = "create" THEN Absent ELSE rollback[p][f]]
             /\ writer' = [writer EXCEPT !.done = @ \ {f}]
             /\ NoFault
          \/ /\ Fault("io")
             /\ writer' = [writer EXCEPT !.pc = "mark_failed", !.clean = FALSE]
             /\ UNCHANGED disk
    /\ UNCHANGED <<gitVars, manifest, rollback, ghostVars>>

UndoDone ==
    /\ At("undo") /\ writer.done = {}
    /\ writer' = [writer EXCEPT !.pc = "restore", !.left = FilesOf[writer.patch]]
    /\ UNCHANGED <<disk, gitVars, manifest, rollback, ghostVars, events>>

\* rollback_transaction: every touched file back to its snapshot; a failure is
\* noted and the others are still restored.
RestoreOp ==
    /\ At("restore") /\ writer.left # {}
    /\ LET f == Max(writer.left) IN
       \/ /\ disk' = [disk EXCEPT ![f] = writer.snap[f]]
          /\ writer' = [writer EXCEPT !.left = @ \ {f}]
          /\ NoFault
       \/ /\ Fault("io")
          /\ writer' = [writer EXCEPT !.left = @ \ {f}, !.clean = FALSE]
          /\ UNCHANGED disk
    /\ UNCHANGED <<gitVars, manifest, rollback, ghostVars>>

\* The rollback directory is a temporary artifact of the transaction.
RestoreDone ==
    /\ At("restore") /\ writer.left = {}
    /\ \/ /\ rollback' = [rollback EXCEPT ![writer.patch] = NoFiles]
          /\ Goto("mark_failed")
          /\ NoFault
       \/ /\ Fault("io")
          /\ writer' = [writer EXCEPT !.pc = "mark_failed", !.clean = FALSE]
          /\ UNCHANGED rollback
    /\ UNCHANGED <<disk, gitVars, manifest, ghostVars>>

\* mutant: an incomplete rollback is recorded as a complete one
FailureStatusForgotten == "failed"

FailureStatus == IF writer.clean THEN "failed" ELSE "rollback_failed"

MarkFailed ==
    /\ At("mark_failed")
    /\ \/ /\ SetStatus(writer.patch, FailureStatus)
          /\ NoFault
       \/ Fault("io") /\ UNCHANGED manifest
    /\ writer' = Idle
    /\ UNCHANGED <<disk, gitVars, rollback, ghostVars>>

----
(***************************************************************************)
(* finalize_explicit_changes: the commit after an apply or a revert.       *)
(***************************************************************************)

\* A rename that git status reports: a file of HEAD is gone from the index, and
\* one that is new in the index resembles it.
Renames == {r \in Paths \X Paths :
                /\ tree[r[1]] # Absent /\ index[r[1]] = Absent
                /\ tree[r[2]] = Absent /\ index[r[2]] # Absent}

\* git pairs a file at most once; what resembles what is git's choice.
Pairings == {R \in SUBSET Renames :
                \A r, s \in R : r[1] = s[1] \/ r[2] = s[2] => r = s}

\* the other ends of the reported renames that touch the given files
Partners(files, R) == {f \in Paths : \E r \in R :
                          \/ r[1] \in files /\ r[2] = f
                          \/ r[2] \in files /\ r[1] = f}

\* _finalize_stage_paths: the changed ones of the operation's files, and with
\* one end of a reported rename the other one too
StagePaths(p, R) ==
    {f \in FilesOf[p] : disk[f] # tree[f] \/ index[f] # tree[f]} \cup Partners(FilesOf[p], R)

\* git status; a git call that fails ends the commit.
ListChanges ==
    /\ At("commit")
    /\ \/ /\ \E R \in Pairings :
              LET paths == StagePaths(writer.patch, R) IN
              writer' = IF paths = {} THEN Idle
                        ELSE [writer EXCEPT !.pc = "read_tree", !.left = paths]
          /\ NoFault
       \/ Fault("git") /\ writer' = Idle
    /\ UNCHANGED <<disk, gitVars, manifest, rollback, ghostVars>>

\* An index of its own receives HEAD as it is now,
ReadTree ==
    /\ At("read_tree")
    /\ \/ /\ writer' = [writer EXCEPT !.pc = "add", !.scratch = tree, !.parent = head]
          /\ NoFault
       \/ Fault("git") /\ writer' = Idle
    /\ UNCHANGED <<disk, gitVars, manifest, rollback, ghostVars>>

\* git add refuses a path that is neither on disk nor in the index.
Unmatched(files, idx) == \E f \in files : disk[f] = Absent /\ idx[f] = Absent

WithFiles(idx, files) == [f \in Paths |-> IF f \in files THEN disk[f] ELSE idx[f]]

\* then the listed files as they are on disk,
AddFiles ==
    /\ At("add")
    /\ \/ /\ writer' = IF Unmatched(writer.left, writer.scratch) THEN Idle
                       ELSE [writer EXCEPT !.pc = "diff",
                                           !.scratch = WithFiles(@, writer.left)]
          /\ NoFault
       \/ Fault("git") /\ writer' = Idle
    /\ UNCHANGED <<disk, gitVars, manifest, rollback, ghostVars>>

\* and is compared with HEAD as it is by then.
DiffCached ==
    /\ At("diff")
    /\ \/ /\ IF \E f \in writer.left : writer.scratch[f] # tree[f]
             THEN Goto("commit_tree") ELSE writer' = Idle
          /\ NoFault
       \/ Fault("git") /\ writer' = Idle
    /\ UNCHANGED <<disk, gitVars, manifest, rollback, ghostVars>>

\* The commit is a child of HEAD with the tree of that index; git refuses one
\* that changes nothing.
CommitTree ==
    /\ At("commit_tree")
    /\ \/ /\ writer.scratch # tree
          /\ tree' = writer.scratch /\ head' = head + 1
          /\ Goto("sync")
          /\ NoFault
       \/ /\ \/ writer.scratch = tree /\ NoFault
             \/ Fault("git")
          /\ writer' = Idle
          /\ UNCHANGED <<tree, head>>
    /\ UNCHANGED <<disk, index, manifest, rollback, ghostVars>>

\* The committed files are added to the real index as well; where that fails
\* the commit is reported as failed, and stays.
SyncIndex ==
    /\ At("sync")
    /\ \/ /\ index' = IF Unmatched(writer.left, index) THEN index
                      ELSE WithFiles(index, writer.left)
          /\ NoFault
       \/ Fault("git") /\ UNCHANGED index
    /\ writer' = Idle
    /\ UNCHANGED <<disk, tree, head, manifest, rollback, ghostVars>>

----
(***************************************************************************)
(* revert_managed_patch.                                                   *)
(***************************************************************************)

\* every file still has to be what the apply left
Revertable(p) ==
    Status(p) = "applied" /\ \A f \in FilesOf[p] : disk[f] = Target(p)

RevertCheck(p) ==
    /\ At("idle") /\ Revertable(p)
    /\ writer' = [Idle EXCEPT !.pc = "revert", !.patch = p, !.left = FilesOf[p]]
    /\ touched' = {}
    /\ UNCHANGED <<disk, gitVars, manifest, rollback, before, events>>

RevertedContent(p, f) ==
    IF KindOf[p] = "create" THEN Absent ELSE rollback[p][f]

\* Backwards through the results; a failure is raised after partial writes.
RevertOp ==
    /\ At("revert") /\ writer.left # {}
    /\ LET f == Max(writer.left)
           p == writer.patch
       IN \/ /\ ~(KindOf[p] = "create" /\ disk[f] = Absent)
             /\ disk' = [disk EXCEPT ![f] = RevertedContent(p, f)]
             /\ writer' = [writer EXCEPT !.left = @ \ {f}]
             /\ NoFault
          \/ /\ \/ KindOf[p] = "create" /\ disk[f] = Absent /\ NoFault
                \/ Fault("io")
             /\ writer' = Idle
             /\ UNCHANGED disk
    /\ UNCHANGED <<gitVars, manifest, rollback, ghostVars>>

\* The manifest is overwritten in place here, not by temp and rename.
MarkReverted ==
    /\ At("revert") /\ writer.left = {}
    /\ \/ /\ SetStatus(writer.patch, "reverted")
          /\ Goto("commit")
          /\ NoFault
       \/ /\ Fault("io")
          /\ SetStatus(writer.patch, "corrupt")
          /\ writer' = Idle
    /\ UNCHANGED <<disk, gitVars, rollback, ghostVars>>

----
\* The process dies; the lock is recovered by whoever comes next.
Crash ==
    /\ ~At("idle") /\ Fault("crash")
    /\ writer' = Idle
    /\ UNCHANGED <<disk, gitVars, manifest, rollback, ghostVars>>

\* The user saves or deletes a file,
UserEdit(f) ==
    /\ Fault("user")
    /\ \/ disk' = [disk EXCEPT ![f] = Edit(events')]
       \/ disk[f] # Absent /\ disk' = [disk EXCEPT ![f] = Absent]
    /\ touched' = touched \cup {f}
    /\ UNCHANGED <<gitVars, manifest, rollback, writer, before>>

\* stages files,
UserStage(files) ==
    /\ Fault("user")
    /\ index' = WithFiles(index, files) /\ index' # index
    /\ UNCHANGED <<disk, tree, head, manifest, rollback, writer, ghostVars>>

\* or commits what is staged.
UserCommit ==
    /\ Fault("user")
    /\ index # tree
    /\ tree' = index /\ head' = head + 1
    /\ UNCHANGED <<disk, index, manifest, rollback, writer, ghostVars>>

Start == [f \in Paths |-> IF f \in Existing THEN Original ELSE Absent]

Init ==
    /\ disk = Start /\ tree = Start /\ index = Start /\ head = 0
    /\ manifest = [p \in Patches |-> [status |-> "none", head |-> 0, base |-> Start]]
    /\ rollback = [p \in Patches |-> NoFiles]
    /\ writer = Idle
    /\ before = [p \in Patches |-> Start]
    /\ touched = {}
    /\ events = 0

Next ==
    \/ \E p \in Patches : PreviewPatch(p) \/ PreviewFileCreation(p) \/ PreviewFileRemoval(p)
                      \/ ApplyCheck(p) \/ ApplyReplay(p) \/ RevertCheck(p)
    \/ ApplySnapshot \/ MarkApplying \/ WriteOp \/ MarkApplied \/ SaveResult
    \/ UndoOp \/ UndoDone \/ RestoreOp \/ RestoreDone \/ MarkFailed
    \/ ListChanges \/ ReadTree \/ AddFiles \/ DiffCached \/ CommitTree \/ SyncIndex
    \/ RevertOp \/ MarkReverted
    \/ Crash
    \/ \E f \in Paths : UserEdit(f)
    \/ \E files \in (SUBSET Paths) \ {{}} : UserStage(files)
    \/ UserCommit

Spec == Init /\ [][Next]_vars

----
(***************************************************************************)
(* Properties.                                                             *)
(***************************************************************************)

Statuses == {"none", "preview_ok", "preview_failed", "applying", "applied",
             "failed", "rollback_failed", "reverted", "corrupt"}
PCs == {"idle", "snapshot", "mark_applying", "write", "save_result", "undo",
        "restore", "mark_failed", "commit", "read_tree", "add", "diff",
        "commit_tree", "sync", "revert"}
Committing == {"commit", "read_tree", "add", "diff", "commit_tree", "sync"}

\* Every component keeps its shape.  A file never receives the missing rollback
\* copy of an operation, so every undo and revert finds what it needs.
TypeOK ==
    /\ disk \in [Paths -> Contents]
    /\ tree \in [Paths -> Contents] /\ index \in [Paths -> Contents]
    /\ head \in Nat
    /\ manifest \in [Patches -> [status : Statuses, head : Nat, base : [Paths -> Contents]]]
    /\ rollback \in [Patches -> [Paths -> Contents \cup {NoCopy}]]
    /\ writer \in [pc : PCs, patch : Patches \cup {0}, left : SUBSET Paths,
                   done : SUBSET Paths, old : [Paths -> Contents \cup {NoCopy}],
                   snap : [Paths -> Contents \cup {NoCopy}],
                   clean : BOOLEAN,
                   scratch : [Paths -> Contents \cup {NoCopy}], parent : Nat]
    /\ before \in [Patches -> [Paths -> Contents]]
    /\ touched \in SUBSET Paths
    /\ events \in 0..MaxEvents

Becomes(p, s) == Status(p) # s /\ manifest'[p].status = s

\* What the manifest announces is on disk: all payloads after an apply, and
\* the files as they were before it after a failed or a reverted one.  Files the
\* user changed during the operation are the user's.
AnnouncedIsOnDisk == \A p \in Patches : \A f \in FilesOf[p] \ touched :
    /\ Becomes(p, "applied") => disk[f] = Target(p)
    /\ Becomes(p, "failed") \/ Becomes(p, "reverted") => disk[f] = before[p][f]

\* Half a change is never hidden: when no operation is under way, a payload is
\* on disk only for a patch whose manifest says applied, or says that it is in
\* doubt.  (A later patch on the same file keeps it as its own rollback copy,
\* and brings it back when it is reverted.)
NothingLeftBehind ==
    \A p \in Patches :
        (writer.patch # p /\ Status(p) \in {"none", "preview_ok", "preview_failed",
                                            "failed", "reverted"})
        => \A f \in Paths : disk[f] = Payload(p) =>
               \E q \in Patches \ {p} : rollback[q][f] = Payload(p)

\* A version the writer has not seen is never overwritten: what an apply or a
\* revert replaces is what the preview or the apply had recorded, unless the
\* user changed the file after the operation had checked it.
SeenBeforeReplaced == \A f \in Paths \ touched :
    /\ At("write") /\ disk'[f] # disk[f] =>
           disk[f] = manifest[writer.patch].base[f] \/ f \in touched'
    /\ At("revert") /\ disk'[f] # disk[f] =>
           disk[f] = Target(writer.patch) \/ f \in touched'

\* While the writer commits, HEAD and the index change in the listed files
\* only; those are the operation's own, and the other ends of renames that were
\* staged for them when they were listed.  A commit of the user's that came
\* after the isolated index was read is exempt: the writer's undoes it.
CommitsItsFiles ==
    /\ (At("commit") /\ writer'.pc = "read_tree") =>
           writer'.left \subseteq FilesOf[writer.patch] \cup Partners(FilesOf[writer.patch], Renames)
    /\ (writer.pc \in Committing /\ writer' # writer) =>
           \A f \in Paths \ writer.left :
               /\ tree'[f] = tree[f] \/ head # writer.parent
               /\ index'[f] = index[f]

\* What it commits of the operation is what the operation left on disk, unless
\* the user changed the file meanwhile: no file of it is forgotten.
CommitsWhole ==
    (At("commit_tree") /\ head' # head /\ writer' # writer) =>
        \A f \in FilesOf[writer.patch] \ touched : tree'[f] = disk[f]

\* A patch takes effect once: an applied one can only be reverted, and a
\* reverted one never comes back.
TakesEffectOnce == \A p \in Patches :
    /\ Status(p) = "applied" => manifest'[p].status \in {"applied", "reverted", "corrupt"}
    /\ Status(p) \in {"reverted", "corrupt"} => manifest'[p].status = Status(p)

=============================================================================
