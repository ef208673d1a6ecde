---------------------------- MODULE ResearchLibrary ----------------------------
(***************************************************************************)
(* The research platform of one project, src/soma/research: raw sources in *)
(* a content-addressed archive, their versions and the research packets in *)
(* a SQLite overlay, and an external retrieval index the overlay maps      *)
(* versions to.  Sessions, each with its own connection, import, rebuild   *)
(* the index, preserve packets, build context packets, export and restore; *)
(* a session may die between any two of its steps.  The module has one     *)
(* source; a version of it is identified by its content.                   *)
(***************************************************************************)
EXTENDS Integers, Sequences

CONSTANTS Sessions,      \* concurrent users of the platform
          Contents,      \* contents of the source, positive integers
          Keys,          \* idempotency keys of research packets
          Drafts,        \* packets: reviewed or not, version cited, analysis run, 0: none
          MaxDocuments,  \* bound on documents uploaded to the index
          PageSize,      \* documents list_documents returns, 100 in the code
          MaxUses        \* bound on calls and on failures of the environment

VARIABLES
    archive,    \* the archived object of each content
    library,    \* the overlay: current version, versions, packets, claims, evidence
    index,      \* documents of the retrieval index, in the order of upload
    session,    \* position and locals of each session
    context,    \* the context packet saved last
    dump,       \* the export: the JSONL body and the body its manifest is of
    copy,       \* the overlay restored from the export into an empty project
    uses

libraryVars == <<archive, library, index, session, context, dump, copy, uses>>

Ingestion == {"none", "stored", "uploaded", "parsing", "indexed", "failed", "retry"}
NoVersion == [status |-> "none", document |-> 0, supersedes |-> 0]
NoDraft == [reviewed |-> FALSE, cites |-> 0, analysis |-> 9]
EmptyLibrary == [current |-> 0, versions |-> [c \in Contents |-> NoVersion],
                 packets |-> [k \in Keys |-> NoDraft], claims |-> {}, evidence |-> {}]
IdleSession == [pc |-> "idle", content |-> 0, seen |-> 0, document |-> 0, status |-> "none",
                todo |-> {}, passages |-> {}, key |-> 0, draft |-> NoDraft, rebuild |-> FALSE, body |-> EmptyLibrary]
NoContext == [passages |-> {}, claims |-> {}]

\* 0 and NoDraft are marks of there being none.
LibraryConstants ==
    /\ Contents \subseteq Nat \ {0} /\ NoDraft \notin Drafts
    /\ MaxDocuments \in Nat /\ MaxUses \in Nat

Init ==
    /\ archive = [c \in Contents |-> "absent"]
    /\ library = EmptyLibrary
    /\ index = <<>>
    /\ session = [s \in Sessions |-> IdleSession]
    /\ context = NoContext
    /\ dump = [body |-> EmptyLibrary, manifest |-> EmptyLibrary]
    /\ copy = EmptyLibrary
    /\ uses = 0

At(s, pc) == session[s].pc = pc
Goto(s, pc) == session' = [session EXCEPT ![s].pc = pc]
Leave(s) == session' = [session EXCEPT ![s] = IdleSession]
Use == uses < MaxUses /\ uses' = uses + 1
Call(s) == At(s, "idle") /\ Use

Stored(lib) == {c \in Contents : lib.versions[c].status # "none"}
Packets(lib) == {k \in Keys : lib.packets[k] # NoDraft}

----
(* Importing a source.                                                     *)

\* The archive keeps one object per digest; a corrupt one refuses its import.
PutStream(s) ==
    /\ Call(s)
    /\ \E c \in Contents :
          IF archive[c] = "corrupt" THEN UNCHANGED <<archive, session>>
          ELSE /\ archive' = [archive EXCEPT ![c] = "ok"]
               /\ session' = [session EXCEPT ![s].pc = "existing", ![s].content = c]
    /\ UNCHANGED <<library, index, context, dump, copy>>

\* add_source changes no version; a version of this content ends the import.
FindExisting(s) ==
    /\ At(s, "existing")
    /\ IF session[s].content \in Stored(library) THEN Leave(s) ELSE Goto(s, "current")
    /\ UNCHANGED <<archive, library, index, context, dump, copy, uses>>
ReadCurrent(s) ==
    /\ At(s, "current")
    /\ session' = [session EXCEPT ![s].pc = "insert", ![s].seen = library.current]
    /\ UNCHANGED <<archive, library, index, context, dump, copy, uses>>

\* The version another session has inserted meanwhile is put back to stored, its
\* mapping kept; else a new version supersedes the one read, or the current one.
AddSourceVersion(c, seen) ==
    IF c \in Stored(library)
    THEN [library EXCEPT !.versions[c].status = "stored"]
    ELSE [library EXCEPT !.current = c,
            !.versions[c] = [status |-> "stored", document |-> 0,
                             supersedes |-> IF seen # 0 THEN seen ELSE library.current]]
InsertVersion(s) ==
    /\ At(s, "insert")
    /\ library' = AddSourceVersion(session[s].content, session[s].seen)
    /\ \E indexed \in BOOLEAN : IF indexed THEN Goto(s, "upload") ELSE Leave(s)
    /\ UNCHANGED <<archive, index, context, dump, copy, uses>>

\* Where an exception of the index leads: a rebuild notes it and goes on, an
\* import marks its version failed.
Raised(s) == Use /\ Goto(s, IF session[s].rebuild THEN "rebuild" ELSE "failed")

\* The archived object as it is on the disk now; nothing verifies it here.
Document(c) == [content |-> c, intact |-> archive[c] = "ok", run |-> "new", full |-> FALSE]
Upload(s) ==
    /\ At(s, "upload")
    /\ \/ /\ Len(index) < MaxDocuments
          /\ index' = Append(index, Document(session[s].content))
          /\ session' = [session EXCEPT ![s].pc = "parse", ![s].document = Len(index) + 1]
          /\ UNCHANGED uses
       \/ Raised(s) /\ UNCHANGED index
    /\ UNCHANGED <<archive, library, context, dump, copy>>
Parse(s) ==
    /\ At(s, "parse")
    /\ \/ /\ index' = [index EXCEPT ![session[s].document].run = "parsing"]
          /\ Goto(s, "map")
          /\ UNCHANGED uses
       \/ Raised(s) /\ UNCHANGED index
    /\ UNCHANGED <<archive, library, context, dump, copy>>

UpdateMapping(s) ==
    /\ At(s, "map")
    /\ library' = [library EXCEPT !.versions[session[s].content].document = session[s].document,
                                  !.versions[session[s].content].status = "parsing"]
    /\ IF session[s].rebuild THEN Goto(s, "reconcile") ELSE Leave(s)
    /\ UNCHANGED <<archive, index, context, dump, copy, uses>>
MarkFailed(s) ==
    /\ At(s, "failed")
    /\ library' = [library EXCEPT !.versions[session[s].content].status = "failed"]
    /\ Leave(s)
    /\ UNCHANGED <<archive, index, context, dump, copy, uses>>

----
(* Rebuilding the index: each version is verified, uploaded, parsed, mapped *)
(* and reconciled in turn.                                                  *)

RebuildIndex(s) ==
    /\ Call(s)
    /\ session' = [session EXCEPT ![s].pc = "rebuild", ![s].rebuild = TRUE,
                                  ![s].todo = Stored(library)]
    /\ UNCHANGED <<archive, library, index, context, dump, copy>>

VerifyArchive(c) == archive[c] = "ok"

RebuildNext(s) ==
    /\ At(s, "rebuild")
    /\ IF session[s].todo = {} THEN Leave(s)
       ELSE \E c \in session[s].todo :
               session' = [session EXCEPT ![s].todo = @ \ {c}, ![s].content = c,
                             ![s].pc = IF VerifyArchive(c) THEN "upload" ELSE "rebuild"]
    /\ UNCHANGED <<archive, library, index, context, dump, copy, uses>>

ListDocuments == {d \in 1..Len(index) : d <= PageSize}

\* mutant: a document being parsed counts as indexed.
ReconciledStatusEarly(run, full) ==
    CASE run \in {"done", "parsing"} \/ full -> "indexed"
      [] run = "fail" /\ ~full -> "failed"
      [] run = "cancel" /\ ~full -> "retry"
      [] OTHER -> "parsing"

\* Full progress counts as done, whatever the run says.
ReconciledStatus(run, full) ==
    CASE run = "done" \/ full -> "indexed"
      [] run = "fail" /\ ~full -> "failed"
      [] run = "cancel" /\ ~full -> "retry"
      [] OTHER -> "parsing"

\* The mapped document is looked up, then the status written.  A document beyond
\* the first page is not found, an exception the rebuild notes.
ReconcileRead(s) ==
    /\ At(s, "reconcile")
    /\ LET d == library.versions[session[s].content].document IN
       IF d \in ListDocuments
       THEN session' = [session EXCEPT ![s].pc = "reconciled", ![s].document = d,
                          ![s].status = ReconciledStatus(index[d].run, index[d].full)]
       ELSE Goto(s, "rebuild")
    /\ UNCHANGED <<archive, library, index, context, dump, copy, uses>>
ReconcileWrite(s) ==
    /\ At(s, "reconciled")
    /\ library' = [library EXCEPT !.versions[session[s].content].status = session[s].status]
    /\ Goto(s, "rebuild")
    /\ UNCHANGED <<archive, index, context, dump, copy, uses>>

----
(* Research packets and context packets.                                   *)

\* preserve_packet: a packet of this key ends the call as a replay.
Preserve(s) ==
    /\ Call(s)
    /\ \E k \in Keys, d \in Drafts :
          IF k \in Packets(library) THEN UNCHANGED session
          ELSE session' = [session EXCEPT ![s].pc = "preserve", ![s].key = k, ![s].draft = d]
    /\ UNCHANGED <<archive, library, index, context, dump, copy>>

\* The transaction holds if the key is still free, the analysis run has no row
\* yet and the version the evidence cites exists; else nothing is inserted.
PreserveHolds(k, d) ==
    /\ k \notin Packets(library)
    /\ d.analysis # 0 => \A j \in Packets(library) : library.packets[j].analysis # d.analysis
    /\ d.cites # 0 => d.cites \in Stored(library)
PreserveCommit(s) ==
    /\ At(s, "preserve")
    /\ LET k == session[s].key  d == session[s].draft IN
       library' = IF PreserveHolds(k, d)
                  THEN [library EXCEPT !.packets[k] = d, !.claims = @ \cup {k},
                          !.evidence = IF d.cites = 0 THEN @ ELSE @ \cup {k}]
                  ELSE library
    /\ Leave(s)
    /\ UNCHANGED <<archive, index, context, dump, copy, uses>>

\* build_context_packet: the passages retrieved of mapped documents, each with the
\* version its document was mapped to when the versions were read.
Retrieve(s) ==
    /\ Call(s)
    /\ \E found \in SUBSET (1..Len(index)) :
          session' = [session EXCEPT ![s].pc = "context",
                        ![s].passages = {p \in [content: Stored(library), document: found] :
                                            library.versions[p.content].document = p.document}]
    /\ UNCHANGED <<archive, library, index, context, dump, copy>>

\* The reviewed claims whose evidence cites the version of a passage.
Linked(passages) ==
    {k \in library.evidence : /\ library.packets[k].reviewed
                              /\ \E p \in passages : p.content = library.packets[k].cites}

\* The reviewed claims the query matches, and the linked ones.
BuildOverlayContext(s) ==
    /\ At(s, "context")
    /\ \E matching \in SUBSET {k \in library.claims : library.packets[k].reviewed} :
          context' = [passages |-> session[s].passages,
                      claims |-> matching \cup Linked(session[s].passages)]
    /\ Leave(s)
    /\ UNCHANGED <<archive, library, index, dump, copy, uses>>

----
(* Export, table after table without a transaction, and restore.           *)

ExportSources(s) ==
    /\ Call(s)
    /\ session' = [session EXCEPT ![s].pc = "export_versions", ![s].body.current = library.current]
    /\ UNCHANGED <<archive, library, index, context, dump, copy>>
ExportVersions(s) ==
    /\ At(s, "export_versions")
    /\ session' = [session EXCEPT ![s].pc = "export_packets", ![s].body.versions = library.versions]
    /\ UNCHANGED <<archive, library, index, context, dump, copy, uses>>
ExportPackets(s) ==
    /\ At(s, "export_packets")
    /\ session' = [session EXCEPT ![s].pc = "export_claims", ![s].body.packets = library.packets]
    /\ UNCHANGED <<archive, library, index, context, dump, copy, uses>>
\* Claims and the tables after them, then the file.
ExportClaims(s) ==
    /\ At(s, "export_claims")
    /\ LET body == [session[s].body EXCEPT !.claims = library.claims, !.evidence = library.evidence] IN
       /\ dump' = [dump EXCEPT !.body = body]
       /\ session' = [session EXCEPT ![s].pc = "export_manifest", ![s].body = body]
    /\ UNCHANGED <<archive, library, index, context, copy, uses>>
ExportManifest(s) ==
    /\ At(s, "export_manifest")
    /\ dump' = [dump EXCEPT !.manifest = session[s].body]
    /\ Leave(s)
    /\ UNCHANGED <<archive, library, index, context, copy, uses>>

\* The foreign keys of the schema.
ReferencesHold(lib) ==
    /\ lib.current # 0 => lib.current \in Stored(lib)
    /\ \A c \in Stored(lib) : lib.versions[c].supersedes \in Stored(lib) \cup {0}
    /\ lib.claims \subseteq Packets(lib)
    /\ lib.evidence \subseteq lib.claims
    /\ \A k \in lib.evidence : lib.packets[k].cites \in Stored(lib)

\* The target is empty, the manifest is of this body and its references hold.
\* A call not counted: it fills the copy once.
RestoreOverlay(s) ==
    /\ At(s, "idle")
    /\ copy' = IF copy = EmptyLibrary /\ dump.manifest = dump.body /\ ReferencesHold(dump.body)
               THEN dump.body ELSE copy
    /\ UNCHANGED <<archive, library, index, session, context, dump, uses>>

----
(* The environment: the index parses, the disk loses bytes, sessions die.  *)

\* Its progress may be full before the run ends, and whatever the run ends as.
DocumentMoves ==
    /\ \E d \in 1..Len(index), run \in {"parsing", "done", "fail", "cancel"}, full \in BOOLEAN :
          /\ index[d].run = "parsing"
          /\ index' = [index EXCEPT ![d].run = run, ![d].full = @ \/ full]
    /\ UNCHANGED <<archive, library, session, context, dump, copy, uses>>
Corrupt ==
    /\ Use
    /\ \E c \in Contents : archive[c] = "ok" /\ archive' = [archive EXCEPT ![c] = "corrupt"]
    /\ UNCHANGED <<library, index, session, context, dump, copy>>
Die ==
    /\ Use
    /\ \E s \in Sessions : ~At(s, "idle") /\ Leave(s)
    /\ UNCHANGED <<archive, library, index, context, dump, copy>>

Next ==
    \/ DocumentMoves \/ Corrupt \/ Die
    \/ \E s \in Sessions :
          \/ PutStream(s) \/ FindExisting(s) \/ ReadCurrent(s) \/ InsertVersion(s)
          \/ Upload(s) \/ Parse(s) \/ UpdateMapping(s) \/ MarkFailed(s)
          \/ RebuildIndex(s) \/ RebuildNext(s) \/ ReconcileRead(s) \/ ReconcileWrite(s)
          \/ Preserve(s) \/ PreserveCommit(s) \/ Retrieve(s) \/ BuildOverlayContext(s)
          \/ ExportSources(s) \/ ExportVersions(s) \/ ExportPackets(s) \/ ExportClaims(s)
          \/ ExportManifest(s) \/ RestoreOverlay(s)

Spec == Init /\ [][Next]_libraryVars

----
TypeOK ==
    /\ archive \in [Contents -> {"absent", "ok", "corrupt"}]
    /\ \A lib \in {library, copy} :
          /\ lib.current \in Contents \cup {0}
          /\ \A c \in Contents : lib.versions[c] \in
                [status: Ingestion, document: 0..MaxDocuments, supersedes: Contents \cup {0}]
          /\ \A k \in Keys : lib.packets[k] \in Drafts \cup {NoDraft}
    /\ Len(index) <= MaxDocuments
    /\ uses \in 0..MaxUses

\* d was uploaded from the archived object of c, and has the bytes of c unless the
\* object had lost them by then, which its verification still tells.
UploadOf(d, c) == index[d].content = c /\ (index[d].intact \/ archive[c] = "corrupt")
Parsed(d) == index[d].run = "done" \/ index[d].full

\* Every version has had its bytes archived, a version in the index is mapped to a
\* document uploaded from its object, indexed means that such a document was parsed
\* to the end, and no chain of superseded versions runs in a circle; whatever
\* imports and rebuilds raced or died (importer.py:167-300, store.py:123-208,
\* service.py:193-303).
VersionsSound ==
    /\ TypeOK
    /\ \A c \in Stored(library) : LET v == library.versions[c] IN
          /\ archive[c] # "absent"
          /\ v.status \in {"parsing", "indexed", "retry"} => v.document # 0
          /\ v.document # 0 => UploadOf(v.document, c)
          /\ v.status = "indexed" => \E d \in 1..Len(index) : UploadOf(d, c) /\ Parsed(d)
          /\ v.supersedes # c
          /\ v.supersedes # 0 => library.versions[v.supersedes].supersedes # c

\* A context packet holds reviewed claims only, each of a preserved packet, and
\* cites for each passage the version whose archived object it was indexed from
\* (store.py:609-723, service.py:205-257); and an overlay restored from an export
\* taken while other sessions wrote has no dangling reference and has every
\* packet with its claims and evidence (store.py:753-826).
ResearchTruthful ==
    /\ \A k \in context.claims : k \in library.claims /\ library.packets[k].reviewed
    /\ \A p \in context.passages : UploadOf(p.document, p.content)
    /\ \A k \in copy.evidence : copy.packets[k].cites \in Stored(copy)
    /\ copy.claims = Packets(copy)
    /\ copy.evidence = {k \in Packets(copy) : copy.packets[k].cites # 0}
    /\ \A k \in Packets(copy) : copy.packets[k] = library.packets[k]

==============================================================================
