------------------------------ MODULE MCRecords -------------------------------
(***************************************************************************)
(* The stores of what the program knows; they share no state, and a        *)
(* behaviour exercises one of them, the one in focus.                      *)
(***************************************************************************)
EXTENDS Integers, TLC

CONSTANTS Callers, SourceTexts, Keys, MaxDocuments, PageSize, MaxUses,
          Ids, Paths, MaxSteps, Runs, MaxFaults, MaxAsks

VARIABLES focus,
          archive, library, index, session, context, dump, copy, uses,
          vault, catalog, rebuilt, memory, disk, covered, answer, thread, clash, steps,
          row, body, artifact, progress, sweep, clobbered, faults,
          text, manifest, call, asks

\* A reviewed and an unreviewed packet, of one analysis run, citing one version.
Drafts == [reviewed: BOOLEAN, cites: {1}, analysis: {1}]

Res == INSTANCE ResearchLibrary WITH Sessions <- Callers, Contents <- SourceTexts
Kno == INSTANCE KnowledgeBase WITH Threads <- Callers
Evi == INSTANCE EvidenceBackfill WITH Sweepers <- Callers
Rpt == INSTANCE ReportManifests

ASSUME RecordConstants == Res!LibraryConstants /\ Kno!KnowledgeConstants

libraryState == <<archive, library, index, session, context, dump, copy, uses>>
knowledgeState == <<vault, catalog, rebuilt, memory, disk, covered, answer, thread, clash, steps>>
evidenceState == <<row, body, artifact, progress, sweep, clobbered, faults>>
reportState == <<text, manifest, call, asks>>
vars == <<focus, libraryState, knowledgeState, evidenceState, reportState>>

Init ==
    /\ focus \in {"research", "knowledge", "evidence", "reports"}
    /\ Res!Init
    /\ Kno!Init /\ (focus # "knowledge" => disk = {})
    /\ Evi!Init /\ (focus # "evidence" => \A r \in Runs : row[r] = "none" /\ body[r] = "small")
    /\ Rpt!Init

Next ==
    /\ UNCHANGED focus
    /\ \/ focus = "research" /\ Res!Next /\ UNCHANGED <<knowledgeState, evidenceState, reportState>>
       \/ focus = "knowledge" /\ Kno!Next /\ UNCHANGED <<libraryState, evidenceState, reportState>>
       \/ focus = "evidence" /\ Evi!Next /\ UNCHANGED <<libraryState, knowledgeState, reportState>>
       \/ focus = "reports" /\ Rpt!Next /\ UNCHANGED <<libraryState, knowledgeState, evidenceState>>

Spec == Init /\ [][Next]_vars

\* Callers are interchangeable, and so are notes.
Symmetry == Permutations(Callers) \union Permutations(Ids)

\* Versions, archive and index agree, and context packets and restored overlays
\* hold what was preserved (ResearchLibrary; importer.py:207-300, store.py:609-826).
ResearchTruthful == focus = "research" => Res!VersionsSound /\ Res!ResearchTruthful

\* Catalog, vault and memory records agree, and semantic answers come from a
\* complete index only (KnowledgeBase; knowledge/service.py:31-148,
\* memory/store.py:53-107, memory_guard/guard.py:76-166).
NotesSound == focus = "knowledge" => Kno!NotesSound /\ Kno!SemanticComplete

\* The evidence of every finished run is complete somewhere (EvidenceBackfill;
\* evidence_backfill.py:81-342, job_worker.py:683-732).
EvidenceKept == focus = "evidence" => Evi!EvidenceKept

\* Manifests vouch for searched texts and stay delivered (ReportManifests;
\* return_loop/pulse_contract.py:77-349).
ManifestsTruthful == [][focus = "reports" => Rpt!ManifestStep]_reportState

==============================================================================
