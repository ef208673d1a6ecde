----------------------------- MODULE KnowledgeBase -----------------------------
(***************************************************************************)
(* What a project remembers: the notes of src/soma/knowledge, Markdown     *)
(* files in a vault with a SQLite catalog; the records of src/soma/memory; *)
(* and the guard of src/soma/memory_guard, which lets a semantic search    *)
(* through only when the provider's index is complete.  Every call runs in *)
(* a thread of its own, without a lock, and may die between two steps.     *)
(***************************************************************************)
EXTENDS Integers, FiniteSets

CONSTANTS Threads,     \* concurrent calls
          Ids,         \* notes: an idempotency key fixes the id of its note
          Paths,       \* vault paths, also the canonical files of the guard
          MaxSteps     \* bound on calls, deaths and edits from outside

\* A note has an id and a path of its own: neither is the mark of there being none.
KnowledgeConstants ==
    /\ IsFiniteSet(Paths) /\ "none" \notin Paths
    /\ Ids \intersect {"none", "malformed"} = {}
    /\ MaxSteps \in Nat

VARIABLES
    vault,      \* the note in the file at each path
    catalog,    \* the row of each note
    rebuilt,    \* the rebuild state: counts of the last rebuild, or none
    memory,     \* memory records, by number: source, content, archived, updated since
    disk,       \* canonical files of the bound root
    covered,    \* files the provider has indexed
    answer,     \* how the last guarded search was answered
    thread,     \* position and locals of each call
    clash,      \* two calls on one note, path, vault or memory have overlapped
    steps

knowledgeVars == <<vault, catalog, rebuilt, memory, disk, covered, answer, thread, clash, steps>>

Empty == [id |-> "none", status |-> "none"]
Malformed == [id |-> "malformed", status |-> "none"]
NoRow == [path |-> "none", status |-> "none"]
NoCall == [pc |-> "idle", id |-> "none", path |-> "none", old |-> "none", row |-> NoRow,
           files |-> [p \in Paths |-> Empty], todo |-> {}, record |-> <<>>, entities |-> -1, pending |-> -1,
           complete |-> FALSE]

Init ==
    /\ vault = [p \in Paths |-> Empty]
    /\ catalog = [i \in Ids |-> NoRow]
    /\ rebuilt = "none"
    /\ memory = {}
    /\ disk \in SUBSET Paths /\ covered \in SUBSET disk
    /\ answer = [kind |-> "none", complete |-> FALSE]
    /\ thread = [t \in Threads |-> NoCall]
    /\ clash = FALSE
    /\ steps = 0

At(t, pc) == thread[t].pc = pc
Goto(t, pc) == thread' = [thread EXCEPT ![t].pc = pc]
Return(t) == thread' = [thread EXCEPT ![t] = NoCall]
Step == steps < MaxSteps /\ steps' = steps + 1
Call(t) == At(t, "idle") /\ Step

Catalogued == {i \in Ids : catalog[i] # NoRow}
ByPath(p) == {i \in Catalogued : catalog[i].path = p}

----
(* Notes.                                                                  *)

\* mutant: the owner of the path is not looked up.
SaveChecksUnowned(i, p) == i \notin Catalogued

\* A known key ends the call with its note, a path of another note refuses it.
SaveChecks(i, p) == i \notin Catalogued /\ ByPath(p) = {}

\* Another call is at this note or path, or rebuilds from files it reads.
Overlaps(t, i, p) ==
    \E u \in Threads \ {t} :
       thread[u].path = p \/ thread[u].id = i \/ thread[u].pc \in {"read", "replace"}

\* save: the checks, before anything is written.
Save(t) ==
    /\ Call(t)
    /\ \E i \in Ids, p \in Paths :
          IF SaveChecks(i, p)
          THEN /\ thread' = [thread EXCEPT ![t].pc = "write", ![t].id = i, ![t].path = p]
               /\ clash' = (clash \/ Overlaps(t, i, p))
          ELSE UNCHANGED <<thread, clash>>
    /\ UNCHANGED <<vault, catalog, rebuilt, memory, disk, covered, answer>>

\* supersede reads the row of the note it replaces, then saves the new one.
Supersede(t) ==
    /\ Call(t)
    /\ \E i \in Ids, p \in Paths, old \in Catalogued :
          /\ i # old /\ SaveChecks(i, p)
          /\ thread' = [thread EXCEPT ![t].pc = "write", ![t].id = i, ![t].path = p,
                                      ![t].old = old, ![t].row = catalog[old]]
          /\ clash' = (clash \/ Overlaps(t, i, p))
    /\ UNCHANGED <<vault, catalog, rebuilt, memory, disk, covered, answer>>

VaultWrite(t) ==
    /\ At(t, "write")
    /\ vault' = [vault EXCEPT ![thread[t].path] = [id |-> thread[t].id, status |-> "current"]]
    /\ Goto(t, "upsert")
    /\ UNCHANGED <<catalog, rebuilt, memory, disk, covered, answer, clash, steps>>

\* A row of the same id is replaced; a path of another id is an integrity error,
\* which leaves the file written.  The rebuild state is dropped.
Upsert(t) ==
    /\ At(t, "upsert")
    /\ IF ByPath(thread[t].path) \subseteq {thread[t].id}
       THEN /\ catalog' = [catalog EXCEPT ![thread[t].id] = [path |-> thread[t].path, status |-> "current"]]
            /\ rebuilt' = "none"
            /\ IF thread[t].old = "none" THEN Return(t) ELSE Goto(t, "retire")
       ELSE UNCHANGED <<catalog, rebuilt>> /\ Return(t)
    /\ UNCHANGED <<vault, memory, disk, covered, answer, clash, steps>>

\* The old note is written as superseded, as it was read before the save.
Retire(t) ==
    /\ At(t, "retire")
    /\ vault' = [vault EXCEPT ![thread[t].row.path] = [id |-> thread[t].old, status |-> "superseded"]]
    /\ Goto(t, "retired")
    /\ UNCHANGED <<catalog, rebuilt, memory, disk, covered, answer, clash, steps>>
RetireRow(t) ==
    /\ At(t, "retired")
    /\ IF ByPath(thread[t].row.path) \subseteq {thread[t].old}
       THEN /\ catalog' = [catalog EXCEPT ![thread[t].old] = [thread[t].row EXCEPT !.status = "superseded"]]
            /\ rebuilt' = "none"
       ELSE UNCHANGED <<catalog, rebuilt>>
    /\ Return(t)
    /\ UNCHANGED <<vault, memory, disk, covered, answer, clash, steps>>

\* rebuild, asked for or needed by health: the files are listed and read one after
\* the other, then the rows replaced in one transaction, which a second file of one
\* id makes fail.
Rebuild(t) ==
    /\ Call(t)
    /\ thread' = [thread EXCEPT ![t].pc = "read", ![t].todo = {p \in Paths : vault[p] # Empty}]
    /\ clash' = (clash \/ \E u \in Threads \ {t} : thread[u].pc \in {"write", "upsert", "retire", "retired"})
    /\ UNCHANGED <<vault, catalog, rebuilt, memory, disk, covered, answer>>
ReadFile(t) ==
    /\ At(t, "read")
    /\ IF thread[t].todo = {} THEN Goto(t, "replace")
       ELSE \E p \in thread[t].todo :
               thread' = [thread EXCEPT ![t].todo = @ \ {p}, ![t].files[p] = vault[p]]
    /\ UNCHANGED <<vault, catalog, rebuilt, memory, disk, covered, answer, clash, steps>>
ReplaceProject(t) ==
    /\ At(t, "replace")
    /\ LET files == thread[t].files
           read(i) == {p \in Paths : files[p].id = i} IN
       IF \A i \in Ids : Cardinality(read(i)) <= 1
       THEN /\ catalog' = [i \in Ids |-> IF read(i) = {} THEN NoRow
                             ELSE LET p == CHOOSE q \in read(i) : TRUE IN
                                  [path |-> p, status |-> files[p].status]]
            /\ rebuilt' = IF \E p \in Paths : files[p] = Malformed THEN "degraded" ELSE "healthy"
       ELSE UNCHANGED <<catalog, rebuilt>>
    /\ clash' = (clash \/ thread[t].files # vault)
    /\ Return(t)
    /\ UNCHANGED <<vault, memory, disk, covered, answer, steps>>

\* Somebody damages a note by hand.
UserEdits ==
    /\ Step
    /\ \E p \in Paths : vault[p].id \in Ids /\ vault' = [vault EXCEPT ![p] = Malformed]
    /\ UNCHANGED <<catalog, rebuilt, memory, disk, covered, answer, thread, clash>>

----
(* Memory records: something told by hand, or an imported result, which     *)
(* names its source.                                                        *)

Sources == {"none", "import"}
Contents == {"plain", "other", "sensitive"}
Drafts == [source: Sources, content: Contents]
DetectSensitivity(content) == content = "sensitive"

\* Told of one source, or in the same words; of any repository, not archived.
Same(m, r) == (r.source # "none" /\ m.source = r.source) \/ m.content = r.content
FindDuplicate(r) == {m \in memory : ~m.archived /\ Same(m, r)}

\* create: sensitive content is blocked, a duplicate answers the call.
Remember(t) ==
    /\ Call(t)
    /\ \E r \in Drafts :
          IF DetectSensitivity(r.content) \/ FindDuplicate(r) # {} THEN UNCHANGED <<thread, clash>>
          ELSE /\ thread' = [thread EXCEPT ![t].pc = "insert", ![t].record = r]
               /\ clash' = (clash \/ \E u \in Threads \ {t} : At(u, "insert"))
    /\ UNCHANGED <<vault, catalog, rebuilt, memory, disk, covered, answer>>
Record(number, r) == [number |-> number, source |-> r.source, content |-> r.content,
                      archived |-> FALSE, updated |-> FALSE]
InsertRecord(t) ==
    /\ At(t, "insert")
    /\ memory' = memory \cup {Record(Cardinality(memory), thread[t].record)}
    /\ Return(t)
    /\ UNCHANGED <<vault, catalog, rebuilt, disk, covered, answer, clash, steps>>

\* update: the row is read, then written whole with the new words, archived as it
\* was read; no duplicate is looked for.
Update(t) ==
    /\ Call(t)
    /\ \E m \in memory, content \in {c \in Contents : ~DetectSensitivity(c)} :
          thread' = [thread EXCEPT ![t].pc = "update",
                       ![t].record = [m EXCEPT !.content = content, !.updated = TRUE]]
    /\ UNCHANGED <<vault, catalog, rebuilt, memory, disk, covered, answer, clash>>
UpdateRecord(t) ==
    /\ At(t, "update")
    /\ memory' = {m \in memory : m.number # thread[t].record.number} \cup {thread[t].record}
    /\ Return(t)
    /\ UNCHANGED <<vault, catalog, rebuilt, disk, covered, answer, clash, steps>>

Archive(t) ==
    /\ Call(t)
    /\ \E m \in memory : memory' = (memory \ {m}) \cup {[m EXCEPT !.archived = TRUE]}
    /\ UNCHANGED <<vault, catalog, rebuilt, disk, covered, answer, thread, clash>>

----
(* The guard.  The provider answers truthfully or in a form not understood, *)
(* -1; files and index change at any time.                                  *)

Complete == disk \subseteq covered
Seen(n) == {n, -1}

\* search: the binding is resolved, then the provider asked for its entities,
\* for its pending changes, and the files counted.
GuardInfo(t) ==
    /\ Call(t)
    /\ \E n \in Seen(Cardinality(covered)) :
          thread' = [thread EXCEPT ![t].pc = "status", ![t].entities = n, ![t].complete = Complete]
    /\ UNCHANGED <<vault, catalog, rebuilt, memory, disk, covered, answer, clash>>
GuardStatus(t) ==
    /\ At(t, "status")
    /\ \E n \in Seen(Cardinality((disk \ covered) \cup (covered \ disk))) :
          thread' = [thread EXCEPT ![t].pc = "disposition", ![t].pending = n]
    /\ UNCHANGED <<vault, catalog, rebuilt, memory, disk, covered, answer, clash, steps>>

Disposition(files, entities, pending) ==
    IF files = 0 /\ entities \in {0, -1} THEN "unavailable"
    ELSE IF entities = -1 \/ pending = -1 THEN "degraded"
    ELSE IF pending > 0 THEN "rebuilding"
    ELSE IF entities < files THEN "degraded" ELSE "healthy"

\* Without health, or when the provider's answer is not understood, the files
\* themselves are searched.
GuardSearch(t) ==
    /\ At(t, "disposition")
    /\ LET health == Disposition(Cardinality(disk), thread[t].entities, thread[t].pending) IN
       \E kind \in IF health = "healthy" THEN {"semantic", "literal"} ELSE {"literal"} :
          answer' = [kind |-> kind, complete |-> thread[t].complete]
    /\ Return(t)
    /\ UNCHANGED <<vault, catalog, rebuilt, memory, disk, covered, clash, steps>>

\* A file comes or goes, or the provider catches up.  Calls in progress remember
\* whether the index was complete at some moment of theirs.
Witness == thread' = [t \in Threads |-> [thread[t] EXCEPT
                        !.complete = @ \/ (thread[t].pc \in {"status", "disposition"} /\ disk' \subseteq covered')]]
FilesChange ==
    /\ Step
    /\ \E p \in Paths : disk' = IF p \in disk THEN disk \ {p} ELSE disk \cup {p}
    /\ UNCHANGED covered /\ Witness
    /\ UNCHANGED <<vault, catalog, rebuilt, memory, answer, clash>>
ProviderIndexes ==
    /\ covered # disk /\ Step
    /\ \E p \in Paths : covered' = IF p \in disk THEN covered \cup {p} ELSE covered \ {p}
    /\ UNCHANGED disk /\ Witness
    /\ UNCHANGED <<vault, catalog, rebuilt, memory, answer, clash>>

Die(t) ==
    /\ ~At(t, "idle") /\ Step
    /\ Return(t)
    /\ UNCHANGED <<vault, catalog, rebuilt, memory, disk, covered, answer, clash>>

Next ==
    \/ UserEdits \/ FilesChange \/ ProviderIndexes
    \/ \E t \in Threads :
          \/ Save(t) \/ Supersede(t) \/ VaultWrite(t) \/ Upsert(t) \/ Retire(t) \/ RetireRow(t)
          \/ Rebuild(t) \/ ReadFile(t) \/ ReplaceProject(t)
          \/ Remember(t) \/ InsertRecord(t) \/ Update(t) \/ UpdateRecord(t) \/ Archive(t)
          \/ GuardInfo(t) \/ GuardStatus(t) \/ GuardSearch(t) \/ Die(t)

Spec == Init /\ [][Next]_knowledgeVars

----
TypeOK ==
    /\ \A p \in Paths : vault[p] \in [id: Ids, status: {"current", "superseded"}] \cup {Empty, Malformed}
    /\ \A i \in Ids : catalog[i] \in [path: Paths, status: {"current", "superseded"}] \cup {NoRow}
    /\ rebuilt \in {"none", "healthy", "degraded"}
    /\ \A m \in memory : m.source \in Sources /\ m.content \in Contents \ {"sensitive"}
    /\ disk \subseteq Paths /\ covered \subseteq Paths
    /\ steps \in 0..MaxSteps

\* Each catalogued note has a file of its own; unless two calls overlapped or
\* somebody edited the vault, the file is the note the catalog names, so that get
\* serves it, also after calls that died half way and were repeated; and no two
\* memory records that are in use as they were created tell the same: a creation
\* is answered by any record not archived, while an archived record, or one an
\* update has given other words, may be told again (knowledge/service.py:31-64,
\* 100-148, catalog.py:55-90; memory/store.py:52-178, 289-306).
NotesSound ==
    /\ TypeOK
    /\ \A i \in Catalogued : vault[catalog[i].path] # Empty
    /\ \A i, j \in Catalogued : catalog[i].path = catalog[j].path => i = j
    /\ ~clash =>
          /\ \A i \in Catalogued : vault[catalog[i].path] # Malformed =>
                                      vault[catalog[i].path].id = i
          /\ \A m, n \in {r \in memory : ~r.archived /\ ~r.updated} : Same(m, n) => m = n

\* A semantic answer is given only if at some moment of the call the provider's
\* index held every canonical file, whatever changed between the three reads the
\* health check makes (memory_guard/guard.py:76-93, health.py:73-157).
SemanticComplete == answer.kind = "semantic" => answer.complete

==============================================================================
