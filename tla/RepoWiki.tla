------------------------------- MODULE RepoWiki --------------------------------
(***************************************************************************)
(* The generated repository wiki: a refresh indexes the source, writes an  *)
(* immutable generation and points CURRENT.json at it; tools that changed  *)
(* the source mark CURRENT stale, with no lock between the two; readers    *)
(* follow CURRENT.  Users edit and commit unseen, and processes die.       *)
(***************************************************************************)
EXTENDS Integers, Sequences

CONSTANTS Files,
          MaxGenerations,   \* bound on generations written
          MaxMoves          \* bound on edits, commits, marks, refreshes and deaths

WikiConstants == MaxGenerations \in Nat /\ MaxMoves \in Nat

VARIABLES
    source, committed,   \* content of each file in the work tree and at HEAD
    current,             \* CURRENT.json
    temp,                \* CURRENT.json.tmp, shared by all who publish
    generations,         \* the generation directories, in order
    lockfile,            \* .refresh.lock exists
    ref,                 \* the refresh under way
    marker,              \* the tool that marks the wiki stale
    crossed,             \* history: a mark has published the refresh's file for its own
    moves

wikiVars == <<source, committed, current, temp, generations, lockfile, ref, marker, crossed, moves>>

Versions == {"a", "b"}
NoCurrent == [generation |-> 0, changes |-> 0, stale |-> FALSE]   \* changes: source_generation
Nothing == [generation |-> -1, changes |-> 0, stale |-> FALSE]
NoRefresh == [pc |-> "idle", force |-> FALSE, before |-> NoCurrent, dirty |-> {},
              head |-> [f \in Files |-> "a"], records |-> [f \in Files |-> "a"],
              marked |-> FALSE, next |-> NoCurrent]
NoMarker == [pc |-> "idle", next |-> NoCurrent]

Init ==
    /\ source = [f \in Files |-> "a"] /\ committed = source
    /\ current = NoCurrent /\ temp = Nothing /\ generations = <<>>
    /\ lockfile = FALSE /\ ref = NoRefresh /\ marker = NoMarker
    /\ crossed = FALSE /\ moves = 0

Move == moves < MaxMoves /\ moves' = moves + 1
Dirty == {f \in Files : source[f] # committed[f]}
Refreshing(pc) == ref.pc = pc

----
(* The source.                                                             *)

Rewrite(f) == source' = [source EXCEPT ![f] = CHOOSE v \in Versions : v # source[f]]
UserEdits ==
    /\ Move /\ \E f \in Files : Rewrite(f)
    /\ UNCHANGED <<committed, current, temp, generations, lockfile, ref, marker, crossed>>
UserCommits ==
    /\ Move /\ Dirty # {}
    /\ committed' = source
    /\ UNCHANGED <<source, current, temp, generations, lockfile, ref, marker, crossed>>

\* A tool changes a file, or commits, and then marks the wiki.
ToolChanges ==
    /\ Move /\ marker.pc = "idle"
    /\ \/ \E f \in Files : Rewrite(f) /\ UNCHANGED committed
       \/ Dirty # {} /\ committed' = source /\ UNCHANGED source
    /\ marker' = [marker EXCEPT !.pc = "read"]
    /\ UNCHANGED <<current, temp, generations, lockfile, ref, crossed>>

----
(* mark_stale: reads CURRENT and publishes it again, as stale.              *)

MarkRead ==
    /\ marker.pc = "read"
    /\ marker' = IF current = NoCurrent THEN NoMarker
                 ELSE [pc |-> "write", next |-> [current EXCEPT !.changes = @ + 1, !.stale = TRUE]]
    /\ UNCHANGED <<source, committed, current, temp, generations, lockfile, ref, crossed, moves>>
MarkWrites ==
    /\ marker.pc = "write"
    /\ temp' = marker.next
    /\ marker' = [marker EXCEPT !.pc = "replace"]
    /\ UNCHANGED <<source, committed, current, generations, lockfile, ref, crossed, moves>>

\* _publish_current: whoever replaces publishes what the shared file holds; the
\* other one finds it gone and fails.
Replaced == IF temp = Nothing THEN current ELSE temp
MarkReplaces ==
    /\ marker.pc = "replace"
    /\ current' = Replaced /\ temp' = Nothing
    /\ ref' = IF temp = marker.next /\ ref.pc \in {"scan", "compare", "check"}
              THEN [ref EXCEPT !.marked = TRUE] ELSE ref
    /\ crossed' = (crossed \/ temp \notin {Nothing, marker.next})
    /\ marker' = NoMarker
    /\ UNCHANGED <<source, committed, generations, lockfile, moves>>

----
(* refresh.                                                                 *)

\* A lock file that exists, whoever left it, refuses the refresh.
StartRefresh ==
    /\ Move /\ Refreshing("idle") /\ ~lockfile
    /\ lockfile' = TRUE
    /\ \E force \in BOOLEAN : ref' = [NoRefresh EXCEPT !.pc = "capture", !.force = force]
    /\ UNCHANGED <<source, committed, current, temp, generations, marker, crossed>>
EndRefresh ==
    /\ lockfile' = FALSE
    /\ ref' = NoRefresh
Capture ==
    /\ Refreshing("capture")
    /\ ref' = [ref EXCEPT !.pc = "scan", !.before = current, !.dirty = Dirty, !.head = committed]
    /\ UNCHANGED <<source, committed, current, temp, generations, lockfile, marker, crossed, moves>>

\* Files git calls changed since the indexed head, or dirty, are read again; of
\* the others the records of the previous generation are kept.
Previous == generations[ref.before.generation]
Incremental == ~ref.force /\ ref.before # NoCurrent
ChangedPaths == Dirty \cup {f \in Files : Previous.head[f] # committed[f]}
ScanSourceFiles ==
    /\ Refreshing("scan")
    /\ ref' = [ref EXCEPT !.pc = "compare",
                 !.records = [f \in Files |-> IF Incremental /\ f \notin ChangedPaths
                                              THEN Previous.records[f] ELSE source[f]]]
    /\ UNCHANGED <<source, committed, current, temp, generations, lockfile, marker, crossed, moves>>

\* mutant: the snapshot is current when git status lists the same paths.
SourceSnapshotByStatus == Dirty = ref.dirty
SourceSnapshotIsCurrent == Dirty = ref.dirty /\ source = ref.records

Unchanged ==
    /\ Incremental /\ ~ref.before.stale
    /\ ref.records = Previous.records
    /\ SourceSnapshotIsCurrent
Compare ==
    /\ Refreshing("compare")
    /\ IF Unchanged THEN EndRefresh
       ELSE ref' = [ref EXCEPT !.pc = "check"] /\ UNCHANGED lockfile
    /\ UNCHANGED <<source, committed, current, temp, generations, marker, crossed, moves>>

\* The last look at CURRENT and at the source before the pages are written.
FreshnessState ==
    /\ Refreshing("check")
    /\ LET changes == IF current.changes > ref.before.changes THEN current.changes ELSE ref.before.changes
           stale == current.changes # ref.before.changes \/ ~SourceSnapshotIsCurrent IN
       ref' = [ref EXCEPT !.pc = "generate",
                 !.next = [generation |-> Len(generations) + 1, changes |-> changes, stale |-> stale]]
    /\ Len(generations) < MaxGenerations
    /\ generations' = Append(generations, [records |-> ref.records, head |-> ref.head, complete |-> FALSE,
                                           asChecked |-> source, marked |-> ref.marked])
    /\ UNCHANGED <<source, committed, current, temp, lockfile, marker, crossed, moves>>

\* The manifest is written last, then every page is read back and its hash compared.
Verified(generation) == [generation EXCEPT !.complete = TRUE]
WriteGeneration ==
    /\ Refreshing("generate")
    /\ generations' = [generations EXCEPT ![ref.next.generation] = Verified(@)]
    /\ ref' = [ref EXCEPT !.pc = "write"]
    /\ UNCHANGED <<source, committed, current, temp, lockfile, marker, crossed, moves>>
RefreshWrites ==
    /\ Refreshing("write")
    /\ temp' = ref.next
    /\ ref' = [ref EXCEPT !.pc = "replace"]
    /\ UNCHANGED <<source, committed, current, generations, lockfile, marker, crossed, moves>>
PublishCurrent ==
    /\ Refreshing("replace")
    /\ current' = Replaced /\ temp' = Nothing
    /\ EndRefresh
    /\ UNCHANGED <<source, committed, generations, marker, crossed, moves>>

\* An exception ends the refresh and its lock; the death of the process keeps the
\* lock file, and nobody ever removes it.
RefreshFails ==
    /\ Move /\ ~Refreshing("idle")
    /\ EndRefresh
    /\ UNCHANGED <<source, committed, current, temp, generations, marker, crossed>>
Death ==
    /\ Move /\ (~Refreshing("idle") \/ marker.pc # "idle")
    /\ ref' = NoRefresh /\ marker' = NoMarker
    /\ UNCHANGED <<source, committed, current, temp, generations, lockfile, crossed>>

Next ==
    \/ UserEdits \/ UserCommits \/ ToolChanges \/ MarkRead \/ MarkWrites \/ MarkReplaces
    \/ StartRefresh \/ Capture \/ ScanSourceFiles \/ Compare \/ FreshnessState \/ WriteGeneration
    \/ RefreshWrites \/ PublishCurrent \/ RefreshFails \/ Death

Spec == Init /\ [][Next]_wikiVars

----
\* What a reader gets now: the generation that CURRENT resolves to, verified, or
\* an error; a search goes the same way.
ResolveCurrentSnapshot == generations[current.generation]
ReadPage ==
    IF current = NoCurrent THEN [ok |-> FALSE, stale |-> FALSE]
    ELSE [ok |-> ResolveCurrentSnapshot.complete, stale |-> current.stale]

TypeOK ==
    /\ {source, committed} \subseteq [Files -> Versions]
    /\ current.generation \in 0..Len(generations)
    /\ temp.generation \in -1..Len(generations)
    /\ (ref.pc # "idle") => lockfile

\* CURRENT always leads to a complete generation, whoever died or raced, and what
\* is served as fresh holds the source as it was at its last check, with no mark
\* published between its capture and that check (repo_wiki.py:192-465, 698-814).
\* The marks are counted in the file they publish: once a mark has published the
\* older file of a refresh in place of its own, the count has gone back, and a later
\* mark can bring it to what a refresh has captured.
PagesTruthful ==
    /\ TypeOK
    /\ current # NoCurrent => ReadPage.ok
    /\ ReadPage.ok /\ ~ReadPage.stale =>
          LET page == ResolveCurrentSnapshot IN
          /\ page.records = page.asChecked
          /\ ~crossed => ~page.marked

==============================================================================
