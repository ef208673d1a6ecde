-------------------------- MODULE EvidenceBackfill ----------------------------
(***************************************************************************)
(* Where the full evidence of a commit is kept: inline in the result row   *)
(* of the run, or in the artifact commit_evidence.json the row refers to.  *)
(* A worker decides it when it finalises a run                             *)
(* (job_worker._compact_commit_data); evidence_backfill.py moves the       *)
(* inline evidence of older rows out, one row after the other.             *)
(***************************************************************************)
EXTENDS Integers

CONSTANTS
    Runs,
    Sweepers,   \* backfill processes
    MaxFaults   \* bound on failed writes and deaths

VARIABLES
    row,        \* run -> how its result_json holds the evidence
    body,       \* run -> what kind of result the run has
    artifact,   \* run -> commit_evidence.json
    progress,   \* the runs recorded as migrated
    sweep,      \* what each sweeper has read and has left to do
    clobbered,  \* runs whose complete artifact a second sweep overwrote badly
    faults

vars == <<row, body, artifact, progress, sweep, clobbered, faults>>

\* A result without a repository-scale body, with one, with one in a run whose
\* directory is gone, and with one whose compaction would change what is published.
Bodies == {"small", "full", "homeless", "divergent"}

Asleep == [on |-> FALSE, left |-> {}, at |-> "none", step |-> "none"]

\* Older runs have their evidence inline; others have not finished.
Init ==
    /\ row \in [Runs -> {"none", "inline"}]
    /\ body \in [Runs -> Bodies]
    /\ artifact = [r \in Runs |-> "none"]
    /\ progress = {} /\ clobbered = {} /\ faults = 0
    /\ sweep = [s \in Sweepers |-> Asleep]

Fault == faults < MaxFaults /\ faults' = faults + 1

----
(* The worker.                                                              *)

\* The body goes to the artifact first; if that fails the row keeps it inline.
FinalizeRun(r, written) ==
    /\ row[r] = "none" /\ body[r] # "homeless"
    /\ IF body[r] = "small"
       THEN row' = [row EXCEPT ![r] = "inline"] /\ UNCHANGED <<artifact, faults>> /\ written
       ELSE IF written
       THEN /\ artifact' = [artifact EXCEPT ![r] = "complete"]
            /\ row' = [row EXCEPT ![r] = "reference"]
            /\ UNCHANGED faults
       ELSE /\ Fault
            /\ row' = [row EXCEPT ![r] = "inline"]
            /\ UNCHANGED artifact
    /\ UNCHANGED <<body, progress, sweep, clobbered>>

----
(* The backfill.                                                            *)

\* iter_candidates: the rows with a result large enough.
Candidates == {r \in Runs : row[r] = "inline"}

\* run_backfill reads what is done and then all candidates, before the first is touched.
StartSweep(s) ==
    /\ sweep[s] = Asleep
    /\ Candidates \ progress # {}
    /\ sweep' = [sweep EXCEPT ![s] = [on |-> TRUE, left |-> Candidates \ progress,
                                      at |-> "none", step |-> "none"]]
    /\ UNCHANGED <<row, body, artifact, progress, clobbered, faults>>

\* A row is moved only if it has a body to move, a directory to move it to, and the
\* same public projection afterwards.
MayExternalize(r) == body[r] = "full"

\* One row: it is skipped, or its artifact is about to be written.
ExamineRow(s, r) ==
    /\ sweep[s].on /\ sweep[s].at = "none" /\ r \in sweep[s].left
    /\ sweep' = [sweep EXCEPT ![s].left = @ \ {r},
                              ![s].at = IF MayExternalize(r) THEN r ELSE "none",
                              ![s].step = IF MayExternalize(r) THEN "write" ELSE "none"]
    /\ UNCHANGED <<row, body, artifact, progress, clobbered, faults>>

\* mutant: the rename is taken for success
VerifiedUnread(content) == TRUE

\* The artifact read back has the digest that was meant.
Verified(content) == content = "complete"

\* _write_verified_artifact: written beside, renamed over, read back.  The write may
\* fail before the rename, or what is read back may not be what was written.
WriteArtifact(s, result) ==
    LET r == sweep[s].at IN
    /\ sweep[s].step = "write"
    /\ IF result = "complete" THEN UNCHANGED faults ELSE Fault
    /\ artifact' = IF result = "refused" THEN artifact ELSE [artifact EXCEPT ![r] = result]
    /\ clobbered' = IF result = "damaged" /\ artifact[r] = "complete" THEN clobbered \union {r}
                    ELSE IF result = "complete" THEN clobbered \ {r} ELSE clobbered
    /\ sweep' = IF result # "refused" /\ Verified(result)
                THEN [sweep EXCEPT ![s].step = "commit"]
                ELSE [sweep EXCEPT ![s].step = "none", ![s].at = "none"]
    /\ UNCHANGED <<row, body, progress>>

\* One transaction: the row is compacted if it still is what was read, and the run is
\* recorded as migrated either way.
CommitRow(s) ==
    LET r == sweep[s].at IN
    /\ sweep[s].step = "commit"
    /\ row' = IF row[r] = "inline" THEN [row EXCEPT ![r] = "reference"] ELSE row
    /\ progress' = progress \union {r}
    /\ sweep' = [sweep EXCEPT ![s].step = "none", ![s].at = "none"]
    /\ UNCHANGED <<body, artifact, clobbered, faults>>

EndSweep(s) ==
    /\ sweep[s].on /\ sweep[s].at = "none" /\ sweep[s].left = {}
    /\ sweep' = [sweep EXCEPT ![s] = Asleep]
    /\ UNCHANGED <<row, body, artifact, progress, clobbered, faults>>

SweeperDies(s) ==
    /\ sweep[s].on /\ Fault
    /\ sweep' = [sweep EXCEPT ![s] = Asleep]
    /\ UNCHANGED <<row, body, artifact, progress, clobbered>>

Next ==
    \/ \E r \in Runs, written \in BOOLEAN : FinalizeRun(r, written)
    \/ \E s \in Sweepers :
          \/ StartSweep(s) \/ CommitRow(s) \/ EndSweep(s) \/ SweeperDies(s)
          \/ \E r \in Runs : ExamineRow(s, r)
          \/ \E result \in {"complete", "damaged", "refused"} : WriteArtifact(s, result)

----

\* The evidence of a finished run is complete somewhere: inline, or in an artifact
\* whose digest the row carries; only a second sweep, overwriting the artifact of the
\* first and failing its own verification, can take it away.  A run recorded as migrated is no longer inline
\* (evidence_backfill.py:14-25, 163-277; job_worker.py:683-732).
EvidenceKept ==
    \A r \in Runs :
       /\ row[r] = "reference" => artifact[r] = "complete" \/ r \in clobbered
       /\ r \in progress => row[r] = "reference"

==============================================================================
