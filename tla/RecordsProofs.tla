---------------------------- MODULE RecordsProofs -----------------------------
(***************************************************************************)
(* What MCRecords checks of the stores, proved for all constants.  A step  *)
(* of the composition is a step of the store in focus and leaves the       *)
(* others alone.                                                           *)
(***************************************************************************)
EXTENDS MCRecords, FiniteSetTheorems, SequenceTheorems, TLAPS

----
(* The evidence of commits (EvidenceBackfill).                              *)

Sweeps == [on: BOOLEAN, left: SUBSET Runs, at: Runs \union {"none"},
           step: {"none", "write", "commit"}]

EvidenceType ==
    /\ row \in [Runs -> {"none", "inline", "reference"}]
    /\ artifact \in [Runs -> {"none", "complete", "damaged"}]
    /\ progress \subseteq Runs /\ clobbered \subseteq Runs
    /\ sweep \in [Callers -> Sweeps]

\* A complete artifact, or one that was complete until a second sweep overwrote it.
Safe(r) == artifact[r] = "complete" \/ r \in clobbered

\* A sweep works on finished runs, and compacts a row whose artifact it has verified.
SweepsSound ==
    \A s \in Callers :
       /\ \A r \in sweep[s].left : row[r] # "none"
       /\ sweep[s].step # "none" => sweep[s].at \in Runs /\ row[sweep[s].at] # "none"
       /\ sweep[s].step = "commit" => Safe(sweep[s].at)

EvidenceInv == EvidenceType /\ SweepsSound /\ Evi!EvidenceKept

\* The evidence invariant holds when the program starts: no artifact, nobody sweeping.
LEMMA EvidenceStarts == Evi!Init => EvidenceInv
BY DEF Evi!Init, EvidenceInv, EvidenceType, SweepsSound, Evi!EvidenceKept, Sweeps, Evi!Asleep

\* Writing one field of a sweep keeps its type.
LEMMA SweepFields ==
    ASSUME NEW f \in [Callers -> Sweeps], NEW s \in Callers
    PROVE  /\ \A x \in SUBSET Runs : [f EXCEPT ![s].left = x] \in [Callers -> Sweeps]
           /\ \A x \in Runs \union {"none"} : [f EXCEPT ![s].at = x] \in [Callers -> Sweeps]
           /\ \A x \in {"none", "write", "commit"} :
                 [f EXCEPT ![s].step = x] \in [Callers -> Sweeps]
BY DEF Sweeps

\* Types are kept by every step of the worker and of the backfill.
LEMMA EvidenceTyped == EvidenceInv /\ Evi!Next => EvidenceType'
<1> SUFFICES ASSUME EvidenceInv, Evi!Next PROVE EvidenceType'
  OBVIOUS
<1> USE DEF EvidenceInv, EvidenceType
<1>1. ASSUME NEW r \in Runs, NEW written \in BOOLEAN, Evi!FinalizeRun(r, written)
      PROVE EvidenceType'
  BY <1>1 DEF Evi!FinalizeRun
<1>2. ASSUME NEW s \in Callers, Evi!StartSweep(s) PROVE EvidenceType'
  BY <1>2 DEF Evi!StartSweep, Evi!Candidates, Sweeps
<1>3. ASSUME NEW s \in Callers, Evi!CommitRow(s) PROVE EvidenceType'
  <2>1. sweep[s].at \in Runs BY <1>3 DEF Evi!CommitRow, SweepsSound
  <2>2. sweep' \in [Callers -> Sweeps] BY <1>3, SweepFields, Zenon DEF Evi!CommitRow
  <2>3. QED BY <1>3, <2>1, <2>2 DEF Evi!CommitRow
<1>4. ASSUME NEW s \in Callers, Evi!EndSweep(s) \/ Evi!SweeperDies(s) PROVE EvidenceType'
  <2>1. Evi!Asleep \in Sweeps BY DEF Evi!Asleep, Sweeps
  <2>2. sweep' = [sweep EXCEPT ![s] = Evi!Asleep] BY <1>4 DEF Evi!EndSweep, Evi!SweeperDies
  <2>3. QED BY <1>4, <2>1, <2>2 DEF Evi!EndSweep, Evi!SweeperDies
<1>5. ASSUME NEW s \in Callers, NEW r \in Runs, Evi!ExamineRow(s, r) PROVE EvidenceType'
  <2> DEFINE at == IF Evi!MayExternalize(r) THEN r ELSE "none"
             step == IF Evi!MayExternalize(r) THEN "write" ELSE "none"
             left == sweep[s].left \ {r}
  <2>1. left \in SUBSET Runs /\ at \in Runs \union {"none"} /\ step \in {"none", "write", "commit"}
    BY DEF Sweeps
  <2>2. sweep' = [sweep EXCEPT ![s].left = left, ![s].at = at, ![s].step = step]
    BY <1>5 DEF Evi!ExamineRow
  <2> HIDE DEF at, step, left
  <2>3. [sweep EXCEPT ![s].left = left] \in [Callers -> Sweeps] BY <2>1, SweepFields
  <2>4. [sweep EXCEPT ![s].left = left, ![s].at = at] \in [Callers -> Sweeps]
    BY <2>1, <2>3, SweepFields, Zenon
  <2>5. sweep' \in [Callers -> Sweeps] BY <2>1, <2>2, <2>4, SweepFields, Zenon
  <2>6. QED BY <1>5, <2>5 DEF Evi!ExamineRow
<1>6. ASSUME NEW s \in Callers, NEW result \in {"complete", "damaged", "refused"},
             Evi!WriteArtifact(s, result)
      PROVE EvidenceType'
  <2>1. sweep[s].at \in Runs BY <1>6 DEF Evi!WriteArtifact, SweepsSound
  <2>2. row' = row /\ progress' = progress BY <1>6 DEF Evi!WriteArtifact
  <2>3. artifact' \in [Runs -> {"none", "complete", "damaged"}] /\ clobbered' \subseteq Runs
    BY <1>6, <2>1 DEF Evi!WriteArtifact
  <2>4. sweep' \in [Callers -> Sweeps]
    <3>1. \/ sweep' = [sweep EXCEPT ![s].step = "commit"]
          \/ sweep' = [sweep EXCEPT ![s].step = "none", ![s].at = "none"]
      BY <1>6 DEF Evi!WriteArtifact
    <3>2. [sweep EXCEPT ![s].step = "commit"] \in [Callers -> Sweeps] BY SweepFields
    <3>3. [sweep EXCEPT ![s].step = "none"] \in [Callers -> Sweeps] BY SweepFields
    <3>4. [sweep EXCEPT ![s].step = "none", ![s].at = "none"] \in [Callers -> Sweeps]
      BY <3>3, SweepFields, Zenon
    <3>5. QED BY <3>1, <3>2, <3>4
  <2>5. QED BY <2>2, <2>3, <2>4 DEF EvidenceType
<1>7. QED BY <1>1, <1>2, <1>3, <1>4, <1>5, <1>6 DEF Evi!Next

\* Every step keeps the evidence: an artifact is verified before the row lets go of it.
LEMMA EvidenceStep == EvidenceInv /\ Evi!Next => EvidenceInv'
<1> SUFFICES ASSUME EvidenceInv, Evi!Next PROVE SweepsSound' /\ Evi!EvidenceKept'
  BY EvidenceTyped DEF EvidenceInv
<1>0. EvidenceType /\ EvidenceType' /\ SweepsSound /\ Evi!EvidenceKept
  BY EvidenceTyped DEF EvidenceInv
<1> USE <1>0 DEF EvidenceType, SweepsSound, Evi!EvidenceKept, Safe
<1>1. ASSUME NEW r \in Runs, NEW written \in BOOLEAN, Evi!FinalizeRun(r, written)
      PROVE SweepsSound' /\ Evi!EvidenceKept'
  BY <1>1 DEF Evi!FinalizeRun, Sweeps
<1>2. ASSUME NEW s \in Callers, Evi!StartSweep(s) PROVE SweepsSound' /\ Evi!EvidenceKept'
  BY <1>2 DEF Evi!StartSweep, Evi!Candidates
<1>3. ASSUME NEW s \in Callers, Evi!CommitRow(s) PROVE SweepsSound' /\ Evi!EvidenceKept'
  BY <1>3 DEF Evi!CommitRow, Sweeps
<1>4. ASSUME NEW s \in Callers, Evi!EndSweep(s) \/ Evi!SweeperDies(s)
      PROVE SweepsSound' /\ Evi!EvidenceKept'
  BY <1>4 DEF Evi!EndSweep, Evi!SweeperDies, Evi!Asleep
<1>5. ASSUME NEW s \in Callers, NEW r \in Runs, Evi!ExamineRow(s, r)
      PROVE SweepsSound' /\ Evi!EvidenceKept'
  BY <1>5 DEF Evi!ExamineRow, Sweeps
<1>6. ASSUME NEW s \in Callers, NEW result \in {"complete", "damaged", "refused"},
             Evi!WriteArtifact(s, result)
      PROVE SweepsSound' /\ Evi!EvidenceKept'
  BY <1>6 DEF Evi!WriteArtifact, Evi!Verified, Sweeps
<1>7. QED BY <1>1, <1>2, <1>3, <1>4, <1>5, <1>6 DEF Evi!Next

\* The evidence of a finished run is complete somewhere, and a migrated run is no
\* longer inline, for any number of runs, sweepers and faults
\* (evidence_backfill.py:81-342, job_worker.py:683-732).
THEOREM EvidenceStaysKept == Spec => []EvidenceKept
<1>1. Init => EvidenceInv BY EvidenceStarts DEF Init
<1>2. EvidenceInv /\ [Next]_vars => EvidenceInv'
  <2>1. EvidenceInv /\ UNCHANGED evidenceState => EvidenceInv'
    BY DEF evidenceState, EvidenceInv, EvidenceType, SweepsSound, Safe, Evi!EvidenceKept
  <2>2. QED BY <2>1, EvidenceStep DEF Next, vars, evidenceState
<1>3. EvidenceInv => EvidenceKept BY DEF EvidenceInv, EvidenceKept
<1>4. QED BY <1>1, <1>2, <1>3, PTL DEF Spec
----
(* The manifests of reports (ReportManifests).                              *)

Hashes == [Rpt!Files -> Rpt!Texts \union {"missing", "none"}]
Verdicts == {"none", "invalid", "blocked", "too_large", "stale", "sensitive", "ready"}
ReportSteps == {"none", "resume", "read", "sizes", "first", "second", "write", "mark", "sent"}

\* What one call has under way.
Reports == [kind: {"none", "build", "check", "mark"}, step: ReportSteps,
            file: Rpt!Files, looked: {"no", "undelivered", "delivered", "failed"},
            reportable: BOOLEAN, status: Verdicts, hash: Hashes]

Manifests == [status: Verdicts \union {"sent"}, delivered: BOOLEAN, reportable: BOOLEAN,
              hash: Hashes]

ReportType ==
    /\ text \in [Rpt!Files -> Rpt!Texts \union {"missing"}]
    /\ manifest \in Manifests
    /\ call \in [Callers -> Reports]

\* Texts that were searched, or too large for it, with their hashes.
Searched(hash) == \A f \in Rpt!Files : hash[f] \in {"clean", "other", "large"}

\* What a call will write is a text, and ready is its verdict on searched texts only.
CallSound(x) ==
    /\ x.step = "resume" => x.hash["resume"] \in Rpt!Texts
    /\ x.step \in {"resume", "read", "sizes"} => x.file = "resume"
    /\ x.step \in {"sizes", "first", "second", "write"} => x.looked # "no"
    /\ x.step = "second" => x.hash[x.file] \in Rpt!Texts
    /\ x.step \in {"first", "second"} /\ x.file = "report" => x.hash["resume"] \in Rpt!Texts
    /\ x.step = "write" /\ x.status = "ready" => Searched(x.hash)

\* The verdict ready is of texts that were searched, in a call as in the manifest.
ReadyIsSearched ==
    /\ manifest.status = "ready" => Searched(manifest.hash)
    /\ \A c \in Callers : CallSound(call[c])

ReportInv == ReportType /\ ReadyIsSearched

\* The manifest invariant holds when the program starts, with nothing written.
LEMMA ReportsStart == Rpt!Init => ReportInv
BY DEF Rpt!Init, ReportInv, ReportType, ReadyIsSearched, Hashes, Verdicts, ReportSteps, Reports,
       Manifests, Rpt!Files, Rpt!Texts, Rpt!Absent, Rpt!Idle, Rpt!NoHash, CallSound

\* What a call of the reporters or of the sender does to the invariant: its own entry
\* changes, and the manifest only to what the call holds.
LEMMA ReportFrame ==
    ASSUME ReportInv, NEW c \in Callers, NEW x \in Reports,
           call' = [call EXCEPT ![c] = x],
           text' \in [Rpt!Files -> Rpt!Texts \union {"missing"}],
           manifest' \in Manifests,
           manifest'.status = "ready" => Searched(manifest'.hash),
           CallSound(x)
    PROVE  ReportInv'
BY DEF ReportInv, ReportType, ReadyIsSearched, Searched

\* Every step of the reporters and of the sender keeps the invariant.
LEMMA ReportStep == ReportInv /\ Rpt!Next => ReportInv'
<1> SUFFICES ASSUME ReportInv, Rpt!Next PROVE ReportInv'
  OBVIOUS
<1>0. ReportType /\ ReadyIsSearched BY DEF ReportInv
<1> USE <1>0 DEF ReportType
<1>i. Rpt!Idle \in Reports /\ Rpt!Idle.step = "none"
  BY DEF Rpt!Files, Rpt!Idle, Rpt!NoHash, Reports, ReportSteps, Verdicts, Hashes
<1>c. ASSUME NEW c \in Callers PROVE call[c] \in Reports BY <1>c
<1>1. ASSUME NEW c \in Callers, NEW content \in Rpt!Texts, NEW reportable \in BOOLEAN,
             Rpt!StartReport(c, content, reportable)
      PROVE ReportInv'
  <2> DEFINE x == [Rpt!Idle EXCEPT !.kind = "build", !.step = "resume",
                                   !.reportable = reportable, !.hash["resume"] = content]
  <2>1. x \in Reports /\ x.step = "resume" /\ x.hash["resume"] = content /\ x.file = "resume"
    BY DEF Rpt!Idle, Rpt!NoHash, Reports, ReportSteps, Verdicts, Hashes, Rpt!Files
  <2>2. call' = [call EXCEPT ![c] = x] /\ manifest' = manifest BY <1>1 DEF Rpt!StartReport
  <2>3. text' \in [Rpt!Files -> Rpt!Texts \union {"missing"}] BY <1>1 DEF Rpt!StartReport, Rpt!Files
  <2> HIDE DEF x
  <2>4. QED BY <2>1, <2>2, <2>3, ReportFrame DEF ReadyIsSearched, CallSound
<1>2. ASSUME NEW c \in Callers, Rpt!WriteResume(c) PROVE ReportInv'
  <2> DEFINE x == [call[c] EXCEPT !.step = "read", !.hash = Rpt!NoHash]
  <2>1. Rpt!NoHash \in Hashes BY DEF Rpt!NoHash, Hashes
  <2>2. x \in Reports /\ x.step = "read" /\ x.file = "resume"
    BY <1>c, <1>2, <2>1 DEF Rpt!WriteResume, Reports, ReportSteps, ReadyIsSearched, CallSound
  <2>3. call' = [call EXCEPT ![c] = x] /\ manifest' = manifest BY <1>2 DEF Rpt!WriteResume
  <2>4. text' \in [Rpt!Files -> Rpt!Texts \union {"missing"}]
    BY <1>2 DEF Rpt!WriteResume, ReadyIsSearched, CallSound
  <2> HIDE DEF x
  <2>5. QED BY <2>2, <2>3, <2>4, ReportFrame DEF ReadyIsSearched, CallSound
<1>3. ASSUME NEW c \in Callers, Rpt!ReadExisting(c) PROVE ReportInv'
  <2> DEFINE x == [call[c] EXCEPT !.step = "sizes", !.looked = Rpt!Look]
  <2>1. x \in Reports /\ x.step = "sizes" /\ x.looked # "no"
    BY <1>c DEF Reports, ReportSteps, Rpt!Look
  <2>4. x.file = "resume" BY <1>c, <1>3 DEF Rpt!ReadExisting, Reports, ReadyIsSearched, CallSound
  <2>2. call' = [call EXCEPT ![c] = x] /\ UNCHANGED <<text, manifest>> BY <1>3 DEF Rpt!ReadExisting
  <2> HIDE DEF x
  <2>3. QED BY <2>1, <2>2, <2>4, ReportFrame DEF ReadyIsSearched, CallSound
<1>14. ASSUME NEW c \in Callers, Rpt!ReadFails(c) PROVE ReportInv'
  <2> DEFINE x == [call[c] EXCEPT !.step = "sizes", !.looked = "failed"]
  <2>1. x \in Reports /\ x.step = "sizes" /\ x.looked # "no" BY <1>c DEF Reports, ReportSteps
  <2>4. x.file = "resume" BY <1>c, <1>14 DEF Rpt!ReadFails, Reports, ReadyIsSearched, CallSound
  <2>2. call' = [call EXCEPT ![c] = x] /\ UNCHANGED <<text, manifest>> BY <1>14 DEF Rpt!ReadFails
  <2> HIDE DEF x
  <2>3. QED BY <2>1, <2>2, <2>4, ReportFrame DEF ReadyIsSearched, CallSound
<1>4. ASSUME NEW c \in Callers, Rpt!StartCheck(c) PROVE ReportInv'
  <2> DEFINE x == [Rpt!Idle EXCEPT !.kind = "check", !.step = "sizes",
                                   !.looked = Rpt!Look, !.reportable = manifest.reportable]
  <2>1. x \in Reports /\ x.step = "sizes" /\ x.looked # "no" /\ x.file = "resume"
    BY DEF Rpt!Look, Rpt!Files, Rpt!Idle, Rpt!NoHash, Reports, ReportSteps, Verdicts, Hashes, Manifests
  <2>2. call' = [call EXCEPT ![c] = x] /\ UNCHANGED <<text, manifest>> BY <1>4 DEF Rpt!StartCheck
  <2> HIDE DEF x
  <2>3. QED BY <2>1, <2>2, ReportFrame DEF ReadyIsSearched, CallSound
<1>5. ASSUME NEW c \in Callers, Rpt!CheckSizes(c) PROVE ReportInv'
  <2> DEFINE status == Rpt!SizeVerdict(c)
             x == [call[c] EXCEPT !.status = status,
                                  !.step = IF status = "none" THEN "first" ELSE "write"]
  <2>1. status \in Verdicts /\ status # "ready" BY DEF Rpt!SizeVerdict, Verdicts
  <2> HIDE DEF status
  <2>2. /\ x \in Reports /\ x.step \in {"first", "write"} /\ x.status # "ready"
        /\ x.looked = call[c].looked /\ x.file = call[c].file
    BY <1>c, <2>1 DEF Reports, ReportSteps
  <2>5. call[c].looked # "no" /\ call[c].file = "resume"
    BY <1>5 DEF Rpt!CheckSizes, ReadyIsSearched, CallSound
  <2>3. call' = [call EXCEPT ![c] = x] /\ UNCHANGED <<text, manifest>>
    BY <1>5 DEF Rpt!CheckSizes, status
  <2> HIDE DEF x
  <2>4. QED BY <2>2, <2>3, <2>5, ReportFrame DEF ReadyIsSearched, CallSound
<1>6. ASSUME NEW c \in Callers, Rpt!ReadFirst(c) PROVE ReportInv'
  <2> DEFINE f == call[c].file
             gone == text[f] = "missing"
             x == [call[c] EXCEPT !.hash[f] = text[f],
                                  !.status = IF gone THEN "invalid" ELSE @,
                                  !.step = IF gone THEN "write" ELSE "second"]
  <2>1. call' = [call EXCEPT ![c] = x] /\ UNCHANGED <<text, manifest>> BY <1>6 DEF Rpt!ReadFirst
  <2>2. f \in Rpt!Files /\ call[c].hash \in Hashes BY <1>c DEF Reports
  <2>3. /\ [call[c].hash EXCEPT ![f] = text[f]] \in Hashes
        /\ ~gone => text[f] \in Rpt!Texts
    BY <2>2 DEF Hashes
  <2>4. call[c].step = "first" BY <1>6 DEF Rpt!ReadFirst
  <2>5. x \in Reports BY <1>c, <2>3 DEF Reports, ReportSteps, Verdicts
  <2>6. /\ (x.step = "second" /\ ~gone) \/ (x.step = "write" /\ x.status = "invalid")
        /\ x.file = f /\ x.looked = call[c].looked
    BY <1>c DEF Reports
  <2>11. call[c].looked # "no" BY <2>4 DEF ReadyIsSearched, CallSound
  <2>7. x.hash[f] = text[f] /\ (f = "report" => x.hash["resume"] = call[c].hash["resume"])
    BY <1>c, <2>2 DEF Reports, Hashes, Rpt!Files
  <2>8. f = "report" => call[c].hash["resume"] \in Rpt!Texts BY <2>4 DEF ReadyIsSearched, CallSound
  <2> HIDE DEF x
  <2>9. CallSound(x) BY <2>3, <2>6, <2>7, <2>8, <2>11 DEF CallSound
  <2>10. QED BY <2>1, <2>5, <2>9, ReportFrame DEF ReadyIsSearched
<1>7. ASSUME NEW c \in Callers, Rpt!ReadSecond(c) PROVE ReportInv'
  <2> DEFINE status == Rpt!ReadVerdict(c)
             last == call[c].file = "report" \/ status = "invalid"
             x == [call[c] EXCEPT !.status = status, !.file = "report",
                                  !.step = IF last THEN "write" ELSE "first"]
  <2>1. status \in Verdicts BY DEF Rpt!ReadVerdict, Verdicts
  <2>2. call[c].file \in Rpt!Files /\ call[c].step = "second"
    BY <1>c, <1>7 DEF Reports, Rpt!ReadSecond
  <2>3. call[c].hash[call[c].file] \in Rpt!Texts BY <2>2 DEF ReadyIsSearched, CallSound
  <2>4. call[c].file = "report" => call[c].hash["resume"] \in Rpt!Texts
    BY <2>2 DEF ReadyIsSearched, CallSound
  <2>5. status = "ready" => Searched(call[c].hash)
    BY <2>2, <2>3, <2>4 DEF Rpt!ReadVerdict, Searched, Rpt!Texts, Rpt!Files
  <2>6. call' = [call EXCEPT ![c] = x] /\ UNCHANGED <<text, manifest>> BY <1>7 DEF Rpt!ReadSecond
  <2> HIDE DEF status
  <2>7. /\ x \in Reports /\ x.hash = call[c].hash /\ x.file = "report" /\ x.status = status
        /\ x.step = "write" \/ (x.step = "first" /\ ~last)
        /\ x.looked = call[c].looked
    BY <1>c, <2>1 DEF Reports, ReportSteps, Rpt!Files
  <2>11. call[c].looked # "no" BY <2>2 DEF ReadyIsSearched, CallSound
  <2>8. ~last => call[c].hash["resume"] \in Rpt!Texts BY <2>2, <2>3 DEF Rpt!Files
  <2> HIDE DEF x, last
  <2>9. CallSound(x) BY <2>5, <2>7, <2>8, <2>11 DEF CallSound
  <2>10. QED BY <2>6, <2>7, <2>9, ReportFrame DEF ReadyIsSearched
<1>8. ASSUME NEW c \in Callers, Rpt!WriteManifest(c) PROVE ReportInv'
  <2>1. manifest' = Rpt!Rebuilt(c) /\ call' = [call EXCEPT ![c] = Rpt!Idle] /\ text' = text
    BY <1>8 DEF Rpt!WriteManifest
  <2>2. manifest' \in Manifests
    BY <1>c, <2>1 DEF Rpt!Rebuilt, Manifests, Reports, Rpt!NoHash, Hashes
  <2>3. manifest'.status = "ready" => Searched(manifest'.hash)
    BY <1>8, <2>1 DEF Rpt!Rebuilt, Rpt!WriteManifest, ReadyIsSearched, CallSound
  <2>4. QED BY <1>i, <2>1, <2>2, <2>3, ReportFrame DEF CallSound
<1>9. ASSUME NEW c \in Callers, Rpt!StartMark(c) PROVE ReportInv'
  <2> DEFINE x == [Rpt!Idle EXCEPT !.kind = "mark", !.step = "mark"]
  <2>1. x \in Reports /\ x.step = "mark"
    BY DEF Rpt!Files, Rpt!Idle, Rpt!NoHash, Reports, ReportSteps, Verdicts, Hashes
  <2>2. call' = [call EXCEPT ![c] = x] /\ UNCHANGED <<text, manifest>> BY <1>9 DEF Rpt!StartMark
  <2> HIDE DEF x
  <2>3. QED BY <2>1, <2>2, ReportFrame DEF ReadyIsSearched, CallSound
<1>10. ASSUME NEW c \in Callers, Rpt!MarkReads(c) PROVE ReportInv'
  <2> DEFINE x == [call[c] EXCEPT !.step = "sent", !.hash = manifest.hash,
                                  !.reportable = manifest.reportable]
  <2>1. x \in Reports /\ x.step = "sent" BY <1>c DEF Reports, ReportSteps, Manifests
  <2>2. call' = [call EXCEPT ![c] = x] /\ UNCHANGED <<text, manifest>> BY <1>10 DEF Rpt!MarkReads
  <2> HIDE DEF x
  <2>3. QED BY <2>1, <2>2, ReportFrame DEF ReadyIsSearched, CallSound
<1>11. ASSUME NEW c \in Callers, Rpt!MarkSent(c) PROVE ReportInv'
  <2>1. call' = [call EXCEPT ![c] = Rpt!Idle] /\ text' = text BY <1>11 DEF Rpt!MarkSent
  <2>2. manifest' \in Manifests /\ manifest'.status # "ready"
    BY <1>c, <1>11 DEF Rpt!MarkSent, Manifests, Reports
  <2>3. QED BY <1>i, <2>1, <2>2, ReportFrame DEF CallSound
<1>12. ASSUME NEW c \in Callers, Rpt!CallerDies(c) PROVE ReportInv'
  BY <1>i, <1>12, ReportFrame DEF Rpt!CallerDies, ReadyIsSearched, CallSound
<1>13. ASSUME NEW f \in Rpt!Files, NEW content \in Rpt!Texts \union {"missing"},
              Rpt!EditText(f, content)
       PROVE ReportInv'
  BY <1>13 DEF Rpt!EditText, ReportInv, ReadyIsSearched
<1> QED BY <1>1, <1>2, <1>3, <1>4, <1>5, <1>6, <1>7, <1>8, <1>9, <1>10, <1>11, <1>12, <1>13, <1>14
     DEF Rpt!Next

\* The invariant of the manifests holds of every behaviour of the composition.
LEMMA ReportsSound == Spec => []ReportInv
<1>1. Init => ReportInv BY ReportsStart DEF Init
<1>2. ReportInv /\ [Next]_vars => ReportInv'
  <2>1. ReportInv /\ UNCHANGED reportState => ReportInv'
    BY DEF reportState, ReportInv, ReportType, ReadyIsSearched
  <2>2. QED BY <2>1, ReportStep DEF Next, vars, reportState
<1>3. QED BY <1>1, <1>2, PTL DEF Spec

\* A ready manifest vouches for texts that were searched, and a delivered one is taken
\* back only by a call that read it before or could not read it, for any number of calls
\* (return_loop/pulse_contract.py:77-349).
THEOREM ManifestsStayTruthful == Spec => ManifestsTruthful
<1>1. ReportInv /\ ReportInv' /\ [Next]_vars => [focus = "reports" => Rpt!ManifestStep]_reportState
  <2> SUFFICES ASSUME ReportInv, ReportInv', Rpt!Next
               PROVE  Rpt!ManifestStep
    BY DEF Next, vars, reportState
  <2>1. manifest'.status = "ready" =>
           \A f \in Rpt!Files : manifest'.hash[f] \in {"clean", "other", "large"}
    BY DEF ReportInv, ReadyIsSearched, Searched
  <2>2. ASSUME manifest.delivered, ~manifest'.delivered
        PROVE  \E c \in Callers : /\ call[c].step = "write" /\ call'[c] = Rpt!Idle
                                  /\ call[c].looked \in {"undelivered", "failed"}
    <3>1. manifest' # manifest BY <2>2
    <3>2. PICK c \in Callers : Rpt!WriteManifest(c) \/ Rpt!MarkSent(c)
      BY <3>1 DEF Rpt!Next, Rpt!StartReport, Rpt!WriteResume, Rpt!ReadExisting,
               Rpt!ReadFails, Rpt!StartCheck,
               Rpt!CheckSizes, Rpt!ReadFirst, Rpt!ReadSecond, Rpt!StartMark, Rpt!MarkReads,
               Rpt!CallerDies, Rpt!EditText
    <3>3. CASE Rpt!MarkSent(c) BY <2>2, <3>3 DEF Rpt!MarkSent
    <3>4. CASE Rpt!WriteManifest(c)
      <4>1. call[c].step = "write" /\ call[c].looked # "delivered"
        BY <2>2, <3>4 DEF Rpt!WriteManifest, Rpt!Rebuilt
      <4>3. call[c].looked # "no" BY <4>1 DEF ReportInv, ReadyIsSearched, CallSound
      <4>4. call[c].looked \in {"undelivered", "failed"}
        BY <4>1, <4>3, <3>4 DEF ReportInv, ReportType, Reports
      <4>2. call'[c] = Rpt!Idle BY <3>4 DEF Rpt!WriteManifest, ReportInv, ReportType
      <4> QED BY <4>1, <4>2, <4>4
    <3>5. QED BY <3>2, <3>3, <3>4
  <2>3. QED BY <2>1, <2>2 DEF Rpt!ManifestStep
<1>2. QED BY ReportsSound, <1>1, PTL DEF Spec, ManifestsTruthful
----
(* Notes, memory records and guarded searches (KnowledgeBase).              *)

Notes == [id: Ids, status: {"current", "superseded"}] \union {Kno!Empty, Kno!Malformed}
Rows == [path: Paths, status: {"current", "superseded"}]
Words == Kno!Contents \ {"sensitive"}
Records == [source: Kno!Sources, content: Words]
Memories == [number: Nat, source: Kno!Sources, content: Words, archived: BOOLEAN, updated: BOOLEAN]
Places == {"idle", "write", "upsert", "retire", "retired", "read", "replace", "insert", "update",
           "status", "disposition"}

\* Where one call is, and what it has read.
NoteCalls == [pc: Places, id: Ids \union {"none"}, path: Paths \union {"none"},
              old: Ids \union {"none"}, row: Rows \union {Kno!NoRow}, files: [Paths -> Notes],
              todo: SUBSET Paths, record: Records \union Memories \union {<<>>}, entities: Int, pending: Int, complete: BOOLEAN]

NotesType ==
    /\ vault \in [Paths -> Notes]
    /\ catalog \in [Ids -> Rows \union {Kno!NoRow}]
    /\ rebuilt \in {"none", "healthy", "degraded"}
    /\ memory \subseteq Memories /\ IsFiniteSet(memory)
    /\ disk \subseteq Paths /\ covered \subseteq Paths
    /\ thread \in [Callers -> NoteCalls]
    /\ clash \in BOOLEAN
    /\ steps \in 0..MaxSteps

\* A call that writes notes, from its checks to its last row.
Writing(t) == thread[t].pc \in {"write", "upsert", "retire", "retired"}

\* What a call has read is still true as far as nobody can undo it: files do not go
\* away, and a complete index has been seen.
CallFits(t) ==
    /\ thread[t].pc = "idle" =>
          thread[t].old = "none" /\ \A p \in Paths : thread[t].files[p] = Kno!Empty
    /\ Writing(t) => thread[t].id \in Ids /\ thread[t].path \in Paths
    /\ Writing(t) /\ thread[t].old # "none" =>
          /\ thread[t].old # thread[t].id
          /\ thread[t].row \in Rows /\ vault[thread[t].row.path] # Kno!Empty
    /\ thread[t].pc \in {"retire", "retired"} => thread[t].old # "none"
    /\ thread[t].pc = "upsert" => vault[thread[t].path] # Kno!Empty
    /\ thread[t].pc \in {"read", "replace"} =>
          \A p \in Paths : thread[t].files[p] # Kno!Empty => vault[p] # Kno!Empty
    /\ thread[t].pc = "insert" => thread[t].record \in Records
    /\ thread[t].pc = "update" => thread[t].record \in Memories /\ thread[t].record.updated
    /\ thread[t].pc \in {"status", "disposition"} /\ Kno!Complete => thread[t].complete
    /\ thread[t].pc = "disposition" =>
          /\ thread[t].pending \in Nat \union {-1}
          /\ thread[t].pending = 0 => thread[t].complete

\* A memory record in use, as it was created.
AsCreated(m) == ~m.archived /\ ~m.updated

\* Calls that do not overlap: what each has found of its note and path holds until
\* it is done.
CallApart(t) ==
    /\ thread[t].pc \in {"write", "upsert"} =>
          catalog[thread[t].id] = Kno!NoRow
          /\ \A i \in Ids : catalog[i].path # thread[t].path
    /\ Writing(t) /\ thread[t].old # "none" => catalog[thread[t].old].path = thread[t].row.path
    /\ thread[t].pc = "upsert" =>
          vault[thread[t].path] = Kno!Malformed \/ vault[thread[t].path].id = thread[t].id
    /\ thread[t].pc = "insert" => \A m \in memory : AsCreated(m) => ~Kno!Same(m, thread[t].record)

\* Two calls are not at one note or path, at a rebuild and a note, or both at a memory.
PairApart(t, u) ==
    /\ Writing(t) => thread[u].pc \notin {"read", "replace"}
    /\ Writing(t) /\ Writing(u) =>
          thread[u].id # thread[t].id /\ thread[u].path # thread[t].path
    /\ ~(thread[t].pc = "insert" /\ thread[u].pc = "insert")

Apart == \A t \in Callers : CallApart(t) /\ \A u \in Callers \ {t} : PairApart(t, u)

\* Every row has a file, and no two rows share one.
RowsFiled ==
    /\ \A i \in Ids : catalog[i] # Kno!NoRow => vault[catalog[i].path] # Kno!Empty
    /\ \A i, j \in Ids : catalog[i] # Kno!NoRow /\ catalog[j] # Kno!NoRow
                         /\ catalog[i].path = catalog[j].path => i = j

\* The file of a row is the note of that row, and no two records in use as they were
\* created tell the same.
RowsTrue ==
    /\ \A i \in Ids : catalog[i] # Kno!NoRow /\ vault[catalog[i].path] # Kno!Malformed =>
                         vault[catalog[i].path].id = i
    /\ \A m, n \in memory : AsCreated(m) /\ AsCreated(n) /\ Kno!Same(m, n) => m = n

NotesInv ==
    /\ NotesType
    /\ \A t \in Callers : CallFits(t)
    /\ RowsFiled
    /\ ~clash => RowsTrue /\ Apart
    /\ Kno!SemanticComplete

\* Counting is counting, in this module as in KnowledgeBase.
LEMMA SameCount == \A S : Kno!Cardinality(S) = Cardinality(S)
BY DEF Cardinality, Kno!Cardinality

\* The set of files that differ is empty when the provider counts none of them.
LEMMA NothingPending ==
    ASSUME NEW S \in SUBSET Paths
    PROVE  Kno!Cardinality(S) \in Nat /\ (Kno!Cardinality(S) = 0 => S = {})
<1>1. IsFiniteSet(Paths) BY RecordConstants DEF Kno!KnowledgeConstants, IsFiniteSet, Kno!IsFiniteSet
<1>2. IsFiniteSet(S) BY <1>1, FS_Subset
<1>3. QED BY <1>2, SameCount, FS_CardinalityType, FS_EmptySet

\* The marks of there being no note or row are none.
LEMMA NotNotes ==
    /\ \A n \in Notes : n \in [id: Ids \union {"none", "malformed"}, status: {"current", "superseded", "none"}]
    /\ \A n \in Notes : n.id \in Ids => n # Kno!Empty /\ n # Kno!Malformed
    /\ \A n \in Notes : n.id \notin Ids => n = Kno!Empty \/ n = Kno!Malformed
    /\ \A n \in Rows : n.path \in Paths /\ n # Kno!NoRow
    /\ Kno!NoRow.path \notin Paths /\ Kno!NoRow \notin Rows
    /\ Kno!Empty # Kno!Malformed
BY RecordConstants DEF Kno!KnowledgeConstants, Notes, Rows, Kno!Empty, Kno!Malformed, Kno!NoRow

\* A call that is over, or has not begun.
LEMMA NoCallTyped ==
    /\ Kno!NoCall \in NoteCalls /\ Kno!NoCall.pc = "idle" /\ Kno!NoCall.old = "none"
    /\ \A p \in Paths : Kno!NoCall.files[p] = Kno!Empty
BY DEF Kno!NoCall, NoteCalls, Places, Notes, Rows, Kno!Empty, Kno!NoRow, Kno!Malformed

\* Writing one field of a call keeps its type.
LEMMA NoteFields ==
    ASSUME NEW r \in NoteCalls
    PROVE  /\ \A x \in Places : [r EXCEPT !.pc = x] \in NoteCalls
           /\ \A x \in Ids \union {"none"} : [r EXCEPT !.id = x] \in NoteCalls
           /\ \A x \in Paths \union {"none"} : [r EXCEPT !.path = x] \in NoteCalls
           /\ \A x \in Ids \union {"none"} : [r EXCEPT !.old = x] \in NoteCalls
           /\ \A x \in Rows \union {Kno!NoRow} : [r EXCEPT !.row = x] \in NoteCalls
           /\ \A x \in [Paths -> Notes] : [r EXCEPT !.files = x] \in NoteCalls
           /\ \A x \in SUBSET Paths : [r EXCEPT !.todo = x] \in NoteCalls
           /\ \A x \in Records \union Memories : [r EXCEPT !.record = x] \in NoteCalls
           /\ \A x \in Int : [r EXCEPT !.entities = x] \in NoteCalls
           /\ \A x \in Int : [r EXCEPT !.pending = x] \in NoteCalls
           /\ \A x \in BOOLEAN : [r EXCEPT !.complete = x] \in NoteCalls
<1>1. \A x \in Places : [r EXCEPT !.pc = x] \in NoteCalls  BY DEF NoteCalls
<1>2. \A x \in Ids \union {"none"} : [r EXCEPT !.id = x] \in NoteCalls  BY DEF NoteCalls
<1>3. \A x \in Paths \union {"none"} : [r EXCEPT !.path = x] \in NoteCalls  BY DEF NoteCalls
<1>4. \A x \in Ids \union {"none"} : [r EXCEPT !.old = x] \in NoteCalls  BY DEF NoteCalls
<1>5. \A x \in Rows \union {Kno!NoRow} : [r EXCEPT !.row = x] \in NoteCalls  BY DEF NoteCalls
<1>6. \A x \in [Paths -> Notes] : [r EXCEPT !.files = x] \in NoteCalls  BY DEF NoteCalls
<1>7. \A x \in Records \union Memories : [r EXCEPT !.record = x] \in NoteCalls  BY DEF NoteCalls
<1>8. \A x \in Int : [r EXCEPT !.entities = x] \in NoteCalls  BY DEF NoteCalls
<1>9. \A x \in Int : [r EXCEPT !.pending = x] \in NoteCalls  BY DEF NoteCalls
<1>10. \A x \in BOOLEAN : [r EXCEPT !.complete = x] \in NoteCalls  BY DEF NoteCalls
<1>11. \A x \in SUBSET Paths : [r EXCEPT !.todo = x] \in NoteCalls  BY DEF NoteCalls
<1> QED  BY <1>1, <1>2, <1>3, <1>4, <1>5, <1>6, <1>7, <1>8, <1>9, <1>10, <1>11

\* The invariant of the notes holds when the program starts: nothing is kept yet.
LEMMA NotesStart == Kno!Init => NotesInv
<1> SUFFICES ASSUME Kno!Init PROVE NotesInv
  OBVIOUS
<1>1. NotesType
  <2>1. vault \in [Paths -> Notes] /\ catalog \in [Ids -> Rows \union {Kno!NoRow}]
    BY DEF Kno!Init, Notes
  <2>2. thread \in [Callers -> NoteCalls] BY NoCallTyped DEF Kno!Init
  <2>3. disk \subseteq Paths /\ covered \subseteq Paths BY DEF Kno!Init
  <2>4. steps \in 0..MaxSteps BY RecordConstants DEF Kno!Init, Kno!KnowledgeConstants
  <2>5. memory \subseteq Memories /\ IsFiniteSet(memory) BY FS_EmptySet DEF Kno!Init
  <2>6. QED BY <2>1, <2>2, <2>3, <2>4, <2>5 DEF Kno!Init, NotesType
<1>2. \A t \in Callers : CallFits(t) /\ thread[t].pc = "idle"
  BY NoCallTyped DEF Kno!Init, CallFits, Writing
<1>3. RowsFiled /\ RowsTrue /\ Kno!SemanticComplete
  BY DEF Kno!Init, RowsFiled, RowsTrue, Kno!SemanticComplete
<1>4. Apart BY <1>2 DEF Apart, CallApart, PairApart, Writing
<1>5. QED BY <1>1, <1>2, <1>3, <1>4 DEF NotesInv


\* A call that goes on to another place changes nothing else in what it holds.
LEMMA GotoIs ==
    ASSUME NotesType, NEW t \in Callers, NEW pc \in Places, Kno!Goto(t, pc)
    PROVE  /\ thread' \in [Callers -> NoteCalls]
           /\ thread'[t].pc = pc
           /\ thread'[t].id = thread[t].id /\ thread'[t].path = thread[t].path
           /\ thread'[t].old = thread[t].old /\ thread'[t].row = thread[t].row
           /\ \A u \in Callers \ {t} : thread'[u] = thread[u]
<1>1. [thread[t] EXCEPT !.pc = pc] \in NoteCalls BY NoteFields DEF NotesType
<1>2. thread' = [thread EXCEPT ![t] = [thread[t] EXCEPT !.pc = pc]] BY DEF Kno!Goto
<1>3. thread' \in [Callers -> NoteCalls] /\ \A u \in Callers \ {t} : thread'[u] = thread[u]
  BY <1>1, <1>2 DEF NotesType
<1>4. thread'[t] = [thread[t] EXCEPT !.pc = pc] /\ thread[t] \in NoteCalls BY <1>2 DEF NotesType
<1>5. QED BY <1>3, <1>4 DEF NoteCalls

\* A call that returns holds nothing.
LEMMA ReturnIs ==
    ASSUME NotesType, NEW t \in Callers, Kno!Return(t)
    PROVE  /\ thread' \in [Callers -> NoteCalls]
           /\ thread'[t].pc = "idle" /\ thread'[t].old = "none"
           /\ \A p \in Paths : thread'[t].files[p] = Kno!Empty
           /\ \A u \in Callers \ {t} : thread'[u] = thread[u]
BY NoCallTyped DEF NotesType, Kno!Return

\* A call starts from rest, and is counted.
LEMMA CallStarts ==
    ASSUME NotesType, NEW t \in Callers, Kno!Call(t)
    PROVE  thread[t].pc = "idle" /\ steps' \in 0..MaxSteps
BY RecordConstants DEF Kno!Call, Kno!Step, Kno!At, NotesType, Kno!KnowledgeConstants

\* The checks a new note passes: there is no row for it, and none has its path.
LEMMA ChecksPass ==
    ASSUME NotesType, NEW i \in Ids, NEW p \in Paths
    PROVE  Kno!SaveChecks(i, p) <=>
              catalog[i] = Kno!NoRow /\ \A j \in Ids : catalog[j].path # p
BY NotNotes DEF NotesType, Kno!SaveChecks, Kno!Catalogued, Kno!ByPath

\* A save or a supersede begins after its checks, or does nothing.
LEMMA StartWriting ==
    ASSUME NotesInv, NEW t \in Callers, Kno!Save(t) \/ Kno!Supersede(t)
    PROVE  NotesInv'
<1>0. NotesType /\ (\A u \in Callers : CallFits(u)) /\ RowsFiled /\ Kno!SemanticComplete
  BY DEF NotesInv
<1>1. /\ UNCHANGED <<vault, catalog, rebuilt, memory, disk, covered, answer>>
      /\ steps' \in 0..MaxSteps
      /\ thread[t].pc = "idle"
  <2>1. Kno!Call(t) /\ UNCHANGED <<vault, catalog, rebuilt, memory, disk, covered, answer>>
    BY DEF Kno!Save, Kno!Supersede
  <2>2. QED BY <1>0, <2>1, CallStarts
<1>2. \/ UNCHANGED <<thread, clash>>
      \/ \E i \in Ids, p \in Paths, o \in Ids \union {"none"}, r \in Rows \union {Kno!NoRow},
            x \in NoteCalls :
            /\ Kno!SaveChecks(i, p)
            /\ o # "none" => o # i /\ r = catalog[o] /\ r \in Rows
            /\ x.pc = "write" /\ x.id = i /\ x.path = p /\ x.old = o /\ x.row = r
            /\ thread' = [thread EXCEPT ![t] = x]
            /\ clash' = (clash \/ Kno!Overlaps(t, i, p))
  <2>0. thread[t] \in NoteCalls BY <1>0 DEF NotesType
  <2>1. ASSUME Kno!Save(t), NEW i \in Ids, NEW p \in Paths, Kno!SaveChecks(i, p),
               thread' = [thread EXCEPT ![t].pc = "write", ![t].id = i, ![t].path = p],
               clash' = (clash \/ Kno!Overlaps(t, i, p))
        PROVE  <1>2!2
    <3> DEFINE x == [thread[t] EXCEPT !.pc = "write", !.id = i, !.path = p]
    <3>1. [thread[t] EXCEPT !.pc = "write"] \in NoteCalls BY <2>0, NoteFields DEF Places
    <3>2. [thread[t] EXCEPT !.pc = "write", !.id = i] \in NoteCalls BY <3>1, NoteFields, Zenon
    <3>3. x \in NoteCalls BY <3>2, NoteFields, Zenon
    <3>4. /\ x.pc = "write" /\ x.id = i /\ x.path = p /\ x.old = "none" /\ x.row = thread[t].row
          /\ thread[t].row \in Rows \union {Kno!NoRow}
      BY <1>0, <1>1, <2>0 DEF NoteCalls, CallFits
    <3>5. thread' = [thread EXCEPT ![t] = x] BY <2>1
    <3> HIDE DEF x
    <3>6. QED BY <2>1, <3>3, <3>4, <3>5
  <2>2. ASSUME NEW i \in Ids, NEW p \in Paths, NEW o \in Kno!Catalogued,
               i # o, Kno!SaveChecks(i, p),
               thread' = [thread EXCEPT ![t].pc = "write", ![t].id = i, ![t].path = p,
                                        ![t].old = o, ![t].row = catalog[o]],
               clash' = (clash \/ Kno!Overlaps(t, i, p))
        PROVE  <1>2!2
    <3> DEFINE r == catalog[o]
               x == [thread[t] EXCEPT !.pc = "write", !.id = i, !.path = p, !.old = o, !.row = r]
    <3>0. o \in Ids /\ o # "none" /\ r \in Rows
      BY <1>0, RecordConstants DEF Kno!Catalogued, NotesType, Kno!KnowledgeConstants
    <3> HIDE DEF r
    <3>1. [thread[t] EXCEPT !.pc = "write"] \in NoteCalls BY <2>0, NoteFields DEF Places
    <3>2. [thread[t] EXCEPT !.pc = "write", !.id = i] \in NoteCalls BY <3>1, NoteFields, Zenon
    <3>3. [thread[t] EXCEPT !.pc = "write", !.id = i, !.path = p] \in NoteCalls
      BY <3>2, NoteFields, Zenon
    <3>4. [thread[t] EXCEPT !.pc = "write", !.id = i, !.path = p, !.old = o] \in NoteCalls
      BY <3>0, <3>3, NoteFields, Zenon
    <3>5. x \in NoteCalls BY <3>0, <3>4, NoteFields, Zenon
    <3>6. x.pc = "write" /\ x.id = i /\ x.path = p /\ x.old = o /\ x.row = r BY <2>0 DEF NoteCalls
    <3>7. thread' = [thread EXCEPT ![t] = x] /\ r = catalog[o] BY <2>2 DEF r
    <3> HIDE DEF x
    <3>8. QED BY <2>2, <3>0, <3>5, <3>6, <3>7
  <2>3. CASE Kno!Save(t) BY <2>1, <2>3 DEF Kno!Save
  <2>4. CASE Kno!Supersede(t) BY <2>2, <2>4 DEF Kno!Supersede
  <2>5. QED BY <2>3, <2>4
<1>3. CASE UNCHANGED <<thread, clash>>
  <2>1. NotesType' /\ (\A u \in Callers : CallFits(u)') /\ RowsFiled' /\ Kno!SemanticComplete'
    BY <1>0, <1>1, <1>3 DEF NotesType, CallFits, Writing, Kno!Complete, RowsFiled, Kno!SemanticComplete
  <2>2. RowsTrue' = RowsTrue /\ Apart' = Apart /\ clash' = clash
    BY <1>1, <1>3 DEF RowsTrue, Apart, CallApart, PairApart, Writing
  <2>3. QED BY <2>1, <2>2 DEF NotesInv
<1>4. CASE ~UNCHANGED <<thread, clash>>
  <2>1. PICK i \in Ids, p \in Paths, o \in Ids \union {"none"}, r \in Rows \union {Kno!NoRow},
             x \in NoteCalls :
            /\ Kno!SaveChecks(i, p)
            /\ o # "none" => o # i /\ r = catalog[o] /\ r \in Rows
            /\ x.pc = "write" /\ x.id = i /\ x.path = p /\ x.old = o /\ x.row = r
            /\ thread' = [thread EXCEPT ![t] = x]
            /\ clash' = (clash \/ Kno!Overlaps(t, i, p))
    BY <1>2, <1>4
  <2>3. x.pc = "write" /\ x.id = i /\ x.path = p /\ x.old = o /\ x.row = r BY <2>1
  <2>5. /\ thread' \in [Callers -> NoteCalls]
        /\ thread'[t] = x /\ \A u \in Callers \ {t} : thread'[u] = thread[u]
    BY <1>0, <2>1 DEF NotesType
  <2>6. NotesType' BY <1>0, <1>1, <2>1, <2>5 DEF NotesType
  <2>7. \A u \in Callers : CallFits(u)'
    <3>1. CallFits(t)'
      <4>1. o # "none" => vault[r.path] # Kno!Empty BY <1>0, <2>1, NotNotes DEF RowsFiled
      <4>2. QED BY <1>1, <2>1, <2>3, <2>5, <4>1 DEF CallFits, Writing
    <3>2. ASSUME NEW u \in Callers \ {t} PROVE CallFits(u)'
      BY <1>0, <1>1, <2>5 DEF CallFits, Writing, Kno!Complete
    <3>3. QED BY <3>1, <3>2
  <2>8. RowsFiled' /\ Kno!SemanticComplete' BY <1>0, <1>1 DEF RowsFiled, Kno!SemanticComplete
  <2>9. ASSUME ~clash' PROVE RowsTrue' /\ Apart'
    <3>1. ~clash /\ ~Kno!Overlaps(t, i, p) /\ RowsTrue /\ Apart
      BY <1>0, <2>1, <2>9 DEF NotesInv, NotesType
    <3>2. CallApart(t)' BY <1>0, <1>1, <2>1, <2>3, <2>5, ChecksPass DEF CallApart, Writing
    <3>3. ASSUME NEW u \in Callers \ {t} PROVE CallApart(u)' /\ PairApart(u, t)' /\ PairApart(t, u)'
      <4>1. CallApart(u)' BY <1>1, <2>5, <3>1 DEF Apart, CallApart, Writing
      <4>2. thread[u].path # p /\ thread[u].id # i /\ thread[u].pc \notin {"read", "replace"}
        BY <3>1 DEF Kno!Overlaps
      <4>3. QED BY <2>3, <2>5, <4>1, <4>2 DEF PairApart, Writing
    <3>4. ASSUME NEW u \in Callers \ {t}, NEW v \in Callers \ {t, u} PROVE PairApart(u, v)'
      BY <2>5, <3>1 DEF Apart, PairApart, Writing
    <3>5. QED BY <1>1, <3>1, <3>2, <3>3, <3>4 DEF RowsTrue, Apart
  <2>10. QED BY <2>6, <2>7, <2>8, <2>9 DEF NotesInv
<1>5. QED BY <1>3, <1>4


\* The file of a new note is written where no row has its file.
LEMMA WritesFile ==
    ASSUME NotesInv, NEW t \in Callers, Kno!VaultWrite(t)
    PROVE  NotesInv'
<1>0. NotesType /\ (\A u \in Callers : CallFits(u)) /\ RowsFiled /\ Kno!SemanticComplete
  BY DEF NotesInv
<1>1. /\ UNCHANGED <<catalog, rebuilt, memory, disk, covered, answer, clash, steps>>
      /\ thread[t].pc = "write"
      /\ vault' = [vault EXCEPT ![thread[t].path] = [id |-> thread[t].id, status |-> "current"]]
      /\ Kno!Goto(t, "upsert")
  BY DEF Kno!VaultWrite, Kno!At
<1>2. thread[t].id \in Ids /\ thread[t].path \in Paths BY <1>0, <1>1 DEF CallFits, Writing
<1>3. /\ thread' \in [Callers -> NoteCalls] /\ thread'[t].pc = "upsert"
      /\ thread'[t].id = thread[t].id /\ thread'[t].path = thread[t].path
      /\ thread'[t].old = thread[t].old /\ thread'[t].row = thread[t].row
      /\ \A u \in Callers \ {t} : thread'[u] = thread[u]
  BY <1>0, <1>1, GotoIs DEF Places
<1>4. /\ vault' \in [Paths -> Notes]
      /\ vault'[thread[t].path].id = thread[t].id /\ vault'[thread[t].path] # Kno!Empty
      /\ \A p \in Paths : vault[p] # Kno!Empty => vault'[p] # Kno!Empty
      /\ \A p \in Paths \ {thread[t].path} : vault'[p] = vault[p]
  <2>1. [id |-> thread[t].id, status |-> "current"] \in Notes BY <1>2 DEF Notes
  <2>2. [id |-> thread[t].id, status |-> "current"] # Kno!Empty
    BY <1>2, RecordConstants DEF Kno!Empty, Kno!KnowledgeConstants
  <2>3. QED BY <1>0, <1>1, <1>2, <2>1, <2>2 DEF NotesType
<1>5. NotesType' BY <1>0, <1>1, <1>3, <1>4 DEF NotesType
<1>6. ASSUME NEW u \in Callers PROVE CallFits(u)'
  <2>1. CASE u = t BY <1>0, <1>1, <1>2, <1>3, <1>4, <2>1, NotNotes DEF CallFits, Writing
  <2>2. CASE u # t
    <3>1. thread'[u] = thread[u] /\ CallFits(u) /\ thread[u] \in NoteCalls
      BY <1>0, <1>3, <2>2 DEF NotesType
    <3>2. QED BY <1>1, <1>4, <3>1, NotNotes DEF CallFits, Writing, Kno!Complete
  <2>3. QED BY <2>1, <2>2
<1>7. RowsFiled' /\ Kno!SemanticComplete'
  BY <1>0, <1>1, <1>4, NotNotes DEF RowsFiled, Kno!SemanticComplete, NotesType
<1>8. ASSUME ~clash' PROVE RowsTrue' /\ Apart'
  <2>1. RowsTrue /\ Apart BY <1>1, <1>8 DEF NotesInv
  <2>2. \A i \in Ids : catalog[i].path # thread[t].path BY <1>1, <2>1 DEF Apart, CallApart
  <2>3. RowsTrue' BY <1>0, <1>1, <1>4, <2>1, <2>2, NotNotes DEF RowsTrue, NotesType
  <2>4. CallApart(t)' BY <1>1, <1>3, <1>4, <2>1 DEF Apart, CallApart, Writing
  <2>5. ASSUME NEW u \in Callers \ {t} PROVE CallApart(u)'
    <3>1. thread'[u] = thread[u] /\ CallApart(u) /\ PairApart(t, u) /\ CallFits(u)
      BY <1>0, <1>3, <2>1 DEF Apart
    <3>2. thread[u].pc = "upsert" => thread[u].path \in Paths \ {thread[t].path}
      BY <1>1, <3>1 DEF PairApart, CallFits, Writing
    <3>3. QED BY <1>1, <1>4, <3>1, <3>2 DEF CallApart, Writing
  <2>6. ASSUME NEW u \in Callers, NEW v \in Callers \ {u} PROVE PairApart(u, v)'
    <3>1. PairApart(u, v) /\ PairApart(v, u) BY <2>1 DEF Apart
    <3>2. QED BY <1>1, <1>3, <3>1 DEF PairApart, Writing
  <2>7. QED BY <2>3, <2>4, <2>5, <2>6 DEF Apart
<1>9. QED BY <1>5, <1>6, <1>7, <1>8 DEF NotesInv

\* What a row is replaced by, when no other row has its path.
LEMMA PathFree ==
    ASSUME NotesType, NEW p \in Paths, NEW i
    PROVE  Kno!ByPath(p) \subseteq {i} <=> \A j \in Ids : catalog[j].path = p => j = i
BY NotNotes DEF NotesType, Kno!ByPath, Kno!Catalogued

\* The row of a new note is written, unless its path is taken.
LEMMA WritesRow ==
    ASSUME NotesInv, NEW t \in Callers, Kno!Upsert(t)
    PROVE  NotesInv'
<1>0. NotesType /\ (\A u \in Callers : CallFits(u)) /\ RowsFiled /\ Kno!SemanticComplete
  BY DEF NotesInv
<1> DEFINE i == thread[t].id
           p == thread[t].path
           row1 == [path |-> p, status |-> "current"]
<1>1. /\ UNCHANGED <<vault, memory, disk, covered, answer, clash, steps>>
      /\ thread[t].pc = "upsert"
  BY DEF Kno!Upsert, Kno!At
<1>2. i \in Ids /\ p \in Paths /\ vault[p] # Kno!Empty BY <1>0, <1>1 DEF CallFits, Writing
<1>3. /\ thread' \in [Callers -> NoteCalls] /\ thread'[t].pc \in {"idle", "retire"}
      /\ thread'[t].pc = "idle" =>
            thread'[t].old = "none" /\ \A q \in Paths : thread'[t].files[q] = Kno!Empty
      /\ thread'[t].pc = "retire" =>
            /\ thread'[t].old # "none" /\ thread'[t].id = i /\ thread'[t].path = p
            /\ thread'[t].old = thread[t].old /\ thread'[t].row = thread[t].row
      /\ \A u \in Callers \ {t} : thread'[u] = thread[u]
  <2>1. CASE Kno!Return(t) BY <1>0, <2>1, ReturnIs
  <2>2. CASE Kno!Goto(t, "retire") /\ thread[t].old # "none" BY <1>0, <2>2, GotoIs DEF Places
  <2>3. QED BY <2>1, <2>2 DEF Kno!Upsert
<1>4. \/ UNCHANGED <<catalog, rebuilt>>
      \/ /\ catalog' = [catalog EXCEPT ![i] = row1] /\ rebuilt' = "none"
         /\ \A j \in Ids : catalog[j].path = p => j = i
  BY <1>0, <1>2, PathFree DEF Kno!Upsert
<1>5. /\ catalog' \in [Ids -> Rows \union {Kno!NoRow}] /\ rebuilt' \in {"none", "healthy", "degraded"}
      /\ catalog' = catalog \/ (catalog'[i].path = p /\ catalog'[i] \in Rows
                                /\ \A j \in Ids : catalog[j].path = p => j = i)
      /\ \A j \in Ids \ {i} : catalog'[j] = catalog[j]
  <2>1. row1 \in Rows /\ row1.path = p BY <1>2 DEF Rows
  <2> HIDE DEF row1
  <2>2. QED BY <1>0, <1>2, <1>4, <2>1 DEF NotesType
<1> HIDE DEF i, p, row1
<1>6. NotesType' BY <1>0, <1>1, <1>3, <1>5 DEF NotesType
<1>7. ASSUME NEW u \in Callers PROVE CallFits(u)'
  <2>1. CASE u = t
    <3>1. CallFits(t) BY <1>0
    <3>2. QED BY <1>1, <1>2, <1>3, <2>1, <3>1 DEF CallFits, Writing, i, p
  <2>2. CASE u # t
    <3>1. thread'[u] = thread[u] /\ CallFits(u) BY <1>0, <1>3, <2>2 DEF NotesType
    <3>2. QED BY <1>1, <3>1 DEF CallFits, Writing, Kno!Complete
  <2>3. QED BY <2>1, <2>2
<1>8. RowsFiled' /\ Kno!SemanticComplete'
  <2>1. RowsFiled' BY <1>0, <1>1, <1>2, <1>5, NotNotes DEF RowsFiled, NotesType
  <2>2. QED BY <1>0, <1>1, <2>1 DEF Kno!SemanticComplete
<1>9. ASSUME ~clash' PROVE RowsTrue' /\ Apart'
  <2>1. RowsTrue /\ Apart BY <1>1, <1>9 DEF NotesInv
  <2>2. RowsTrue'
    <3>1. vault[p] = Kno!Malformed \/ vault[p].id = i BY <1>1, <2>1 DEF Apart, CallApart, i, p
    <3>2. QED BY <1>0, <1>1, <1>2, <1>5, <2>1, <3>1, NotNotes DEF RowsTrue, NotesType
  <2>3. CallApart(t)'
    <3>1. thread'[t].pc = "retire" => thread'[t].old # i
      BY <1>0, <1>1, <1>3 DEF CallFits, Writing, i
    <3>2. QED BY <1>1, <1>3, <1>5, <2>1, <3>1 DEF Apart, CallApart, Writing, NotesType, NoteCalls
  <2>4. ASSUME NEW u \in Callers \ {t} PROVE CallApart(u)'
    <3>1. thread'[u] = thread[u] /\ CallApart(u) /\ PairApart(t, u) /\ CallFits(u) /\ thread[u] \in NoteCalls
      BY <1>0, <1>3, <2>1 DEF Apart, NotesType
    <3>2. Writing(u) => thread[u].id # i /\ thread[u].path # p
      BY <1>1, <3>1 DEF PairApart, Writing, i, p
    <3>3. Writing(u) /\ thread[u].old # "none" => thread[u].old # i
      <4>1. catalog[i] = Kno!NoRow BY <1>1, <2>1 DEF Apart, CallApart, i
      <4>2. QED BY <3>1, <4>1, NotNotes DEF CallApart, CallFits
    <3>4. thread[u].pc \in {"write", "upsert"} =>
            catalog'[thread[u].id] = Kno!NoRow /\ \A j \in Ids : catalog'[j].path # thread[u].path
      BY <1>2, <1>5, <3>1, <3>2 DEF CallApart, CallFits, Writing
    <3>5. Writing(u) /\ thread[u].old # "none" => catalog'[thread[u].old].path = thread[u].row.path
      BY <1>5, <3>1, <3>3 DEF CallApart, NoteCalls
    <3>6. QED BY <1>1, <3>1, <3>4, <3>5 DEF CallApart, Writing
  <2>5. ASSUME NEW u \in Callers, NEW v \in Callers \ {u} PROVE PairApart(u, v)'
    <3>1. PairApart(u, v) /\ PairApart(v, u) BY <2>1 DEF Apart
    <3>2. QED BY <1>1, <1>3, <3>1 DEF PairApart, Writing, i, p
  <2>6. QED BY <2>2, <2>3, <2>4, <2>5 DEF Apart
<1>10. QED BY <1>6, <1>7, <1>8, <1>9 DEF NotesInv


\* The file of a superseded note is written again, as the note it was.
LEMMA RetiresFile ==
    ASSUME NotesInv, NEW t \in Callers, Kno!Retire(t)
    PROVE  NotesInv'
<1>0. NotesType /\ (\A u \in Callers : CallFits(u)) /\ RowsFiled /\ Kno!SemanticComplete
  BY DEF NotesInv
<1> DEFINE p == thread[t].row.path
           o == thread[t].old
<1>1. /\ UNCHANGED <<catalog, rebuilt, memory, disk, covered, answer, clash, steps>>
      /\ thread[t].pc = "retire"
      /\ vault' = [vault EXCEPT ![p] = [id |-> o, status |-> "superseded"]]
      /\ Kno!Goto(t, "retired")
  BY DEF Kno!Retire, Kno!At
<1>2. o \in Ids /\ p \in Paths BY <1>0, <1>1 DEF CallFits, Writing, NotesType, NoteCalls, Rows
<1>3. /\ thread' \in [Callers -> NoteCalls] /\ thread'[t].pc = "retired"
      /\ thread'[t].id = thread[t].id /\ thread'[t].path = thread[t].path
      /\ thread'[t].old = thread[t].old /\ thread'[t].row = thread[t].row
      /\ \A u \in Callers \ {t} : thread'[u] = thread[u]
  BY <1>0, <1>1, GotoIs DEF Places
<1>4. /\ vault' \in [Paths -> Notes]
      /\ vault'[p].id = o /\ vault'[p] # Kno!Empty
      /\ \A q \in Paths : vault[q] # Kno!Empty => vault'[q] # Kno!Empty
      /\ \A q \in Paths \ {p} : vault'[q] = vault[q]
  <2>1. [id |-> o, status |-> "superseded"] \in Notes BY <1>2 DEF Notes
  <2>2. [id |-> o, status |-> "superseded"] # Kno!Empty
    BY <1>2, RecordConstants DEF Kno!Empty, Kno!KnowledgeConstants
  <2>3. QED BY <1>0, <1>1, <1>2, <2>1, <2>2 DEF NotesType
<1>5. NotesType' BY <1>0, <1>1, <1>3, <1>4 DEF NotesType
<1>6. ASSUME NEW u \in Callers PROVE CallFits(u)'
  <2>1. CASE u = t
    <3>1. CallFits(t) BY <1>0
    <3>2. QED BY <1>1, <1>2, <1>3, <1>4, <2>1, <3>1 DEF CallFits, Writing
  <2>2. CASE u # t
    <3>1. thread'[u] = thread[u] /\ CallFits(u) /\ thread[u] \in NoteCalls
      BY <1>0, <1>3, <2>2 DEF NotesType
    <3>2. QED BY <1>1, <1>4, <3>1, NotNotes DEF CallFits, Writing, Kno!Complete
  <2>3. QED BY <2>1, <2>2
<1>7. RowsFiled' /\ Kno!SemanticComplete'
  BY <1>0, <1>1, <1>4, NotNotes DEF RowsFiled, Kno!SemanticComplete, NotesType
<1>8. ASSUME ~clash' PROVE RowsTrue' /\ Apart'
  <2>1. RowsTrue /\ Apart BY <1>1, <1>8 DEF NotesInv
  <2>2. catalog[o].path = p /\ catalog[o] # Kno!NoRow
    <3>1. CallApart(t) /\ CallFits(t) BY <1>0, <2>1 DEF Apart
    <3>2. QED BY <1>1, <1>2, <3>1, NotNotes DEF CallApart, CallFits, Writing
  <2>3. RowsTrue'
    <3>1. \A j \in Ids : catalog[j] # Kno!NoRow /\ catalog[j].path = p => j = o
      BY <1>0, <1>2, <2>2 DEF RowsFiled
    <3>2. QED BY <1>0, <1>1, <1>4, <2>1, <3>1, NotNotes DEF RowsTrue, NotesType
  <2>4. CallApart(t)' BY <1>1, <1>3, <1>4, <2>1 DEF Apart, CallApart, Writing
  <2>5. ASSUME NEW u \in Callers \ {t} PROVE CallApart(u)'
    <3>1. thread'[u] = thread[u] /\ CallApart(u) /\ CallFits(u) BY <1>0, <1>3, <2>1 DEF Apart
    <3>2. thread[u].pc = "upsert" => thread[u].path \in Paths \ {p}
      BY <1>2, <2>2, <3>1 DEF CallApart, CallFits, Writing
    <3>3. QED BY <1>1, <1>4, <3>1, <3>2 DEF CallApart, Writing
  <2>6. ASSUME NEW u \in Callers, NEW v \in Callers \ {u} PROVE PairApart(u, v)'
    <3>1. PairApart(u, v) /\ PairApart(v, u) BY <2>1 DEF Apart
    <3>2. QED BY <1>1, <1>3, <3>1 DEF PairApart, Writing
  <2>7. QED BY <2>3, <2>4, <2>5, <2>6 DEF Apart
<1>9. QED BY <1>5, <1>6, <1>7, <1>8 DEF NotesInv

\* The row of a superseded note keeps its path.
LEMMA RetiresRow ==
    ASSUME NotesInv, NEW t \in Callers, Kno!RetireRow(t)
    PROVE  NotesInv'
<1>0. NotesType /\ (\A u \in Callers : CallFits(u)) /\ RowsFiled /\ Kno!SemanticComplete
  BY DEF NotesInv
<1> DEFINE p == thread[t].row.path
           o == thread[t].old
           row1 == [thread[t].row EXCEPT !.status = "superseded"]
<1>1. /\ UNCHANGED <<vault, memory, disk, covered, answer, clash, steps>>
      /\ thread[t].pc = "retired" /\ Kno!Return(t)
  BY DEF Kno!RetireRow, Kno!At
<1>2. o \in Ids /\ p \in Paths /\ thread[t].row \in Rows /\ vault[p] # Kno!Empty
  BY <1>0, <1>1 DEF CallFits, Writing, NotesType, NoteCalls, Rows
<1>3. /\ thread' \in [Callers -> NoteCalls] /\ thread'[t].pc = "idle" /\ thread'[t].old = "none"
      /\ \A q \in Paths : thread'[t].files[q] = Kno!Empty
      /\ \A u \in Callers \ {t} : thread'[u] = thread[u]
  BY <1>0, <1>1, ReturnIs
<1>4. \/ UNCHANGED <<catalog, rebuilt>>
      \/ /\ catalog' = [catalog EXCEPT ![o] = row1] /\ rebuilt' = "none"
         /\ \A j \in Ids : catalog[j].path = p => j = o
  BY <1>0, <1>2, PathFree DEF Kno!RetireRow
<1>5. /\ catalog' \in [Ids -> Rows \union {Kno!NoRow}] /\ rebuilt' \in {"none", "healthy", "degraded"}
      /\ catalog' = catalog \/ (catalog'[o].path = p /\ catalog'[o] \in Rows
                                /\ \A j \in Ids : catalog[j].path = p => j = o)
      /\ \A j \in Ids \ {o} : catalog'[j] = catalog[j]
  <2>1. row1 \in Rows /\ row1.path = p BY <1>2 DEF Rows
  <2> HIDE DEF row1
  <2>2. QED BY <1>0, <1>2, <1>4, <2>1 DEF NotesType
<1> HIDE DEF o, p, row1
<1>6. NotesType' BY <1>0, <1>1, <1>3, <1>5 DEF NotesType
<1>7. ASSUME NEW u \in Callers PROVE CallFits(u)'
  <2>1. CASE u = t BY <1>3, <2>1 DEF CallFits, Writing
  <2>2. CASE u # t
    <3>1. thread'[u] = thread[u] /\ CallFits(u) BY <1>0, <1>3, <2>2 DEF NotesType
    <3>2. QED BY <1>1, <3>1 DEF CallFits, Writing, Kno!Complete
  <2>3. QED BY <2>1, <2>2
<1>8. RowsFiled' /\ Kno!SemanticComplete'
  <2>1. RowsFiled' BY <1>0, <1>1, <1>2, <1>5, NotNotes DEF RowsFiled, NotesType
  <2>2. QED BY <1>0, <1>1, <2>1 DEF Kno!SemanticComplete
<1>9. ASSUME ~clash' PROVE RowsTrue' /\ Apart'
  <2>1. RowsTrue /\ Apart BY <1>1, <1>9 DEF NotesInv
  <2>2. catalog[o].path = p /\ catalog[o] # Kno!NoRow
    <3>1. CallApart(t) /\ CallFits(t) BY <1>0, <2>1 DEF Apart
    <3>2. QED BY <1>1, <1>2, <3>1, NotNotes DEF CallApart, CallFits, Writing, o, p
  <2>3. \A j \in Ids : catalog'[j].path = catalog[j].path
                       /\ (catalog'[j] = Kno!NoRow <=> catalog[j] = Kno!NoRow)
    BY <1>2, <1>5, <2>2, NotNotes
  <2>4. RowsTrue' BY <1>0, <1>1, <2>1, <2>3 DEF RowsTrue
  <2>5. CallApart(t)' BY <1>3 DEF CallApart, Writing
  <2>6. ASSUME NEW u \in Callers \ {t} PROVE CallApart(u)'
    <3>1. thread'[u] = thread[u] /\ CallApart(u) /\ CallFits(u) /\ thread[u] \in NoteCalls
      BY <1>0, <1>3, <2>1 DEF Apart, NotesType
    <3>2. thread[u].pc \in {"write", "upsert"} =>
            catalog'[thread[u].id] = Kno!NoRow /\ \A j \in Ids : catalog'[j].path # thread[u].path
      BY <2>3, <3>1 DEF CallApart, CallFits, Writing
    <3>3. Writing(u) /\ thread[u].old # "none" => catalog'[thread[u].old].path = thread[u].row.path
      BY <2>3, <3>1 DEF CallApart, NoteCalls
    <3>4. QED BY <1>1, <3>1, <3>2, <3>3 DEF CallApart, Writing
  <2>7. ASSUME NEW u \in Callers, NEW v \in Callers \ {u} PROVE PairApart(u, v)'
    <3>1. PairApart(u, v) /\ PairApart(v, u) BY <2>1 DEF Apart
    <3>2. QED BY <1>3, <3>1 DEF PairApart, Writing
  <2>8. QED BY <2>4, <2>5, <2>6, <2>7 DEF Apart
<1>10. QED BY <1>6, <1>7, <1>8, <1>9 DEF NotesInv

\* A rebuild lists the files, and has read none yet.
LEMMA StartsRebuild ==
    ASSUME NotesInv, NEW t \in Callers, Kno!Rebuild(t)
    PROVE  NotesInv'
<1>0. NotesType /\ (\A u \in Callers : CallFits(u)) /\ RowsFiled /\ Kno!SemanticComplete
  BY DEF NotesInv
<1> DEFINE files == {p \in Paths : vault[p] # Kno!Empty}
<1>1. /\ UNCHANGED <<vault, catalog, rebuilt, memory, disk, covered, answer>>
      /\ thread[t].pc = "idle" /\ steps' \in 0..MaxSteps
      /\ thread' = [thread EXCEPT ![t].pc = "read", ![t].todo = files]
      /\ clash' = (clash \/ \E u \in Callers \ {t} : Writing(u))
  BY <1>0, CallStarts DEF Kno!Rebuild, Writing
<1> DEFINE x == [thread[t] EXCEPT !.pc = "read", !.todo = files]
<1>2. x \in NoteCalls
  <2>1. [thread[t] EXCEPT !.pc = "read"] \in NoteCalls BY <1>0, NoteFields DEF NotesType, Places
  <2>2. files \in SUBSET Paths
    OBVIOUS
  <2> HIDE DEF files
  <2>3. QED BY <2>1, <2>2, NoteFields, Zenon
<1>3. /\ x.pc = "read" /\ x.files = thread[t].files
      /\ \A p \in Paths : x.files[p] = Kno!Empty
  BY <1>0, <1>1 DEF NotesType, NoteCalls, CallFits
<1>4. thread' = [thread EXCEPT ![t] = x] BY <1>1
<1> HIDE DEF x
<1>5. /\ thread' \in [Callers -> NoteCalls]
      /\ thread'[t] = x /\ \A u \in Callers \ {t} : thread'[u] = thread[u]
  BY <1>0, <1>2, <1>4 DEF NotesType
<1>6. NotesType' BY <1>0, <1>1, <1>5 DEF NotesType
<1>7. ASSUME NEW u \in Callers PROVE CallFits(u)'
  <2>1. CASE u = t BY <1>1, <1>3, <1>5, <2>1 DEF CallFits, Writing
  <2>2. CASE u # t
    <3>1. thread'[u] = thread[u] /\ CallFits(u) BY <1>0, <1>5, <2>2
    <3>2. QED BY <1>1, <3>1 DEF CallFits, Writing, Kno!Complete
  <2>3. QED BY <2>1, <2>2
<1>8. RowsFiled' /\ Kno!SemanticComplete' BY <1>0, <1>1 DEF RowsFiled, Kno!SemanticComplete
<1>9. ASSUME ~clash' PROVE RowsTrue' /\ Apart'
  <2>1. RowsTrue /\ Apart /\ \A u \in Callers \ {t} : ~Writing(u)
    BY <1>0, <1>1, <1>9 DEF NotesInv, NotesType
  <2>2. ASSUME NEW u \in Callers PROVE CallApart(u)'
    BY <1>1, <1>3, <1>5, <2>1 DEF Apart, CallApart, Writing
  <2>3. ASSUME NEW u \in Callers, NEW v \in Callers \ {u} PROVE PairApart(u, v)'
    <3>1. PairApart(u, v) /\ PairApart(v, u) BY <2>1 DEF Apart
    <3>2. QED BY <1>1, <1>3, <1>5, <2>1, <3>1 DEF PairApart, Writing
  <2>4. QED BY <1>1, <2>1, <2>2, <2>3 DEF RowsTrue, Apart
<1>10. QED BY <1>6, <1>7, <1>8, <1>9 DEF NotesInv


\* A call that only returns, reads or looks at the index leaves the notes as they are.
LEMMA QuietTurn ==
    ASSUME NotesInv, NEW t \in Callers,
           thread' \in [Callers -> NoteCalls],
           \A u \in Callers \ {t} : thread'[u] = thread[u],
           \/ thread'[t].pc \in {"idle", "status", "disposition", "update"}
           \/ thread[t].pc = "read" /\ thread'[t].pc \in {"read", "replace"},
           CallFits(t)', steps' \in 0..MaxSteps, Kno!SemanticComplete',
           UNCHANGED <<vault, catalog, rebuilt, memory, disk, covered, clash>>
    PROVE  NotesInv'
<1>0. NotesType /\ (\A u \in Callers : CallFits(u)) /\ RowsFiled BY DEF NotesInv
<1>1. NotesType' /\ RowsFiled' BY <1>0 DEF NotesType, RowsFiled
<1>2. ASSUME NEW u \in Callers \ {t} PROVE CallFits(u)' BY <1>0 DEF CallFits, Writing, Kno!Complete
<1>3. ASSUME ~clash' PROVE RowsTrue' /\ Apart'
  <2>1. RowsTrue /\ Apart BY <1>3 DEF NotesInv
  <2>2. ASSUME NEW u \in Callers PROVE CallApart(u)'
    <3>1. CASE u = t BY <3>1 DEF CallApart, Writing
    <3>2. CASE u # t
      <4>1. thread'[u] = thread[u] /\ CallApart(u) BY <2>1, <3>2 DEF Apart
      <4>2. QED BY <4>1 DEF CallApart, Writing
    <3>3. QED BY <3>1, <3>2
  <2>3. ASSUME NEW u \in Callers, NEW v \in Callers \ {u} PROVE PairApart(u, v)'
    <3>1. PairApart(u, v) /\ PairApart(v, u) BY <2>1 DEF Apart
    <3>2. CASE u = t
      <4>1. thread'[v] = thread[v] /\ ~(thread'[t].pc = "insert") /\ ~Writing(t)'
        BY <3>2 DEF Writing
      <4>2. QED BY <3>1, <3>2, <4>1 DEF PairApart, Writing
    <3>3. CASE v = t
      <4>1. /\ thread'[u] = thread[u] /\ thread'[t].pc # "insert" /\ ~Writing(t)'
            /\ thread'[t].pc \in {"read", "replace"} => thread[t].pc = "read"
        BY <3>3 DEF Writing
      <4>2. QED BY <3>1, <3>3, <4>1 DEF PairApart, Writing
    <3>4. CASE u # t /\ v # t BY <3>1, <3>4 DEF PairApart, Writing
    <3>5. QED BY <3>2, <3>3, <3>4
  <2>4. QED BY <2>1, <2>2, <2>3 DEF RowsTrue, Apart
<1>4. QED BY <1>1, <1>2, <1>3 DEF NotesInv

\* A rebuild reads one file more; what it has read is there to stay.
LEMMA ReadsFile ==
    ASSUME NotesInv, NEW t \in Callers, Kno!ReadFile(t)
    PROVE  NotesInv'
<1>0. NotesType /\ CallFits(t) /\ Kno!SemanticComplete /\ thread[t] \in NoteCalls
  BY DEF NotesInv, NotesType
<1>1. /\ UNCHANGED <<vault, catalog, rebuilt, memory, disk, covered, answer, clash, steps>>
      /\ thread[t].pc = "read" /\ steps' \in 0..MaxSteps /\ Kno!SemanticComplete'
  BY <1>0 DEF Kno!ReadFile, Kno!At, NotesType, Kno!SemanticComplete
<1>2. \E x \in NoteCalls :
         /\ thread' = [thread EXCEPT ![t] = x] /\ x.pc \in {"read", "replace"}
         /\ \A p \in Paths : x.files[p] # Kno!Empty => vault[p] # Kno!Empty
  <2>1. CASE thread[t].todo = {}
    <3> DEFINE x == [thread[t] EXCEPT !.pc = "replace"]
    <3>1. x \in NoteCalls BY <1>0, NoteFields DEF Places
    <3>2. x.pc = "replace" /\ x.files = thread[t].files BY <1>0 DEF NoteCalls
    <3>3. thread' = [thread EXCEPT ![t] = x] BY <2>1 DEF Kno!ReadFile, Kno!Goto
    <3> HIDE DEF x
    <3>4. QED BY <1>0, <1>1, <3>1, <3>2, <3>3 DEF CallFits
  <2>2. CASE thread[t].todo # {}
    <3>1. PICK p \in thread[t].todo :
             thread' = [thread EXCEPT ![t].todo = @ \ {p}, ![t].files[p] = vault[p]]
      BY <2>2 DEF Kno!ReadFile
    <3> DEFINE todo == thread[t].todo \ {p}
               files == [thread[t].files EXCEPT ![p] = vault[p]]
               x == [thread[t] EXCEPT !.todo = todo, !.files = files]
    <3>2. /\ p \in Paths /\ todo \in SUBSET Paths /\ files \in [Paths -> Notes]
          /\ \A q \in Paths : files[q] # Kno!Empty => vault[q] # Kno!Empty
      BY <1>0, <1>1 DEF NoteCalls, NotesType, CallFits
    <3>3. thread' = [thread EXCEPT ![t] = x] BY <1>0, <3>1 DEF NoteCalls
    <3> HIDE DEF todo, files
    <3>4. [thread[t] EXCEPT !.todo = todo] \in NoteCalls BY <1>0, <3>2, NoteFields, Zenon
    <3>5. x \in NoteCalls BY <3>2, <3>4, NoteFields, Zenon
    <3>6. x.pc = "read" /\ x.files = files BY <1>0, <1>1 DEF NoteCalls
    <3> HIDE DEF x
    <3>7. QED BY <3>2, <3>3, <3>5, <3>6
  <2>3. QED BY <2>1, <2>2
<1>3. PICK x \in NoteCalls :
         /\ thread' = [thread EXCEPT ![t] = x] /\ x.pc \in {"read", "replace"}
         /\ \A p \in Paths : x.files[p] # Kno!Empty => vault[p] # Kno!Empty
  BY <1>2
<1>4. /\ thread' \in [Callers -> NoteCalls] /\ thread'[t] = x
      /\ \A u \in Callers \ {t} : thread'[u] = thread[u]
  BY <1>0, <1>3 DEF NotesType
<1>5. CallFits(t)' BY <1>1, <1>3, <1>4 DEF CallFits, Writing
<1>6. QED BY <1>1, <1>3, <1>4, <1>5, QuietTurn

\* A call that dies takes nothing with it.
LEMMA CallDies ==
    ASSUME NotesInv, NEW t \in Callers, Kno!Die(t)
    PROVE  NotesInv'
<1>1. NotesType /\ Kno!SemanticComplete BY DEF NotesInv
<1>2. Kno!Return(t) /\ UNCHANGED <<vault, catalog, rebuilt, memory, disk, covered, answer, clash>>
  BY DEF Kno!Die
<1>3. steps' \in 0..MaxSteps
  BY <1>1, RecordConstants DEF Kno!Die, Kno!Step, NotesType, Kno!KnowledgeConstants
<1>4. CallFits(t)' BY <1>1, <1>2, ReturnIs DEF CallFits, Writing
<1>5. QED BY <1>1, <1>2, <1>3, <1>4, ReturnIs, QuietTurn DEF Kno!SemanticComplete

\* A rebuild replaces the rows by one for each note it has read.
LEMMA Replaces ==
    ASSUME NotesInv, NEW t \in Callers, Kno!ReplaceProject(t)
    PROVE  NotesInv'
<1>0. NotesType /\ (\A u \in Callers : CallFits(u)) /\ RowsFiled /\ Kno!SemanticComplete
  BY DEF NotesInv
<1> DEFINE files == thread[t].files
           read(i) == {p \in Paths : files[p].id = i}
           file(i) == CHOOSE q \in read(i) : TRUE
<1>1. /\ UNCHANGED <<vault, memory, disk, covered, answer, steps>>
      /\ thread[t].pc = "replace" /\ Kno!Return(t)
      /\ clash' = (clash \/ files # vault)
  BY DEF Kno!ReplaceProject, Kno!At
<1>2. files \in [Paths -> Notes] /\ \A p \in Paths : files[p] # Kno!Empty => vault[p] # Kno!Empty
  BY <1>0, <1>1 DEF CallFits, NotesType, NoteCalls
<1>3. /\ thread' \in [Callers -> NoteCalls] /\ thread'[t].pc = "idle" /\ thread'[t].old = "none"
      /\ \A q \in Paths : thread'[t].files[q] = Kno!Empty
      /\ \A u \in Callers \ {t} : thread'[u] = thread[u]
  BY <1>0, <1>1, ReturnIs
<1>4. \/ UNCHANGED <<catalog, rebuilt>>
      \/ /\ catalog' = [i \in Ids |-> IF read(i) = {} THEN Kno!NoRow
                             ELSE [path |-> file(i), status |-> files[file(i)].status]]
         /\ rebuilt' \in {"healthy", "degraded"}
  BY DEF Kno!ReplaceProject
<1>5. /\ catalog' \in [Ids -> Rows \union {Kno!NoRow}] /\ rebuilt' \in {"none", "healthy", "degraded"}
      /\ \/ catalog' = catalog
         \/ \A i \in Ids : catalog'[i] # Kno!NoRow =>
               catalog'[i].path \in Paths /\ files[catalog'[i].path].id = i
  <2>1. CASE UNCHANGED <<catalog, rebuilt>> BY <1>0, <2>1 DEF NotesType
  <2>2. CASE ~UNCHANGED <<catalog, rebuilt>>
    <3>1. \A i \in Ids : read(i) # {} => file(i) \in Paths /\ files[file(i)].id = i
      OBVIOUS
    <3>2. \A i \in Ids : read(i) # {} =>
             [path |-> file(i), status |-> files[file(i)].status] \in Rows
      <4>1. \A q \in Paths : files[q].id \in Ids => files[q].status \in {"current", "superseded"}
        BY <1>2, RecordConstants DEF Notes, Kno!Empty, Kno!Malformed, Kno!KnowledgeConstants
      <4> HIDE DEF read, file, files
      <4>2. QED BY <3>1, <4>1 DEF Rows
    <3> HIDE DEF read, file, files
    <3>3. \A i \in Ids : [path |-> file(i), status |-> files[file(i)].status].path = file(i)
      OBVIOUS
    <3>4. QED BY <1>4, <2>2, <3>1, <3>2, <3>3
  <2>3. QED BY <2>1, <2>2
<1> HIDE DEF files
<1>6. NotesType' BY <1>0, <1>1, <1>3, <1>5 DEF NotesType
<1>7. ASSUME NEW u \in Callers PROVE CallFits(u)'
  <2>1. CASE u = t BY <1>3, <2>1 DEF CallFits, Writing
  <2>2. CASE u # t
    <3>1. thread'[u] = thread[u] /\ CallFits(u) BY <1>0, <1>3, <2>2 DEF NotesType
    <3>2. QED BY <1>1, <3>1 DEF CallFits, Writing, Kno!Complete
  <2>3. QED BY <2>1, <2>2
<1>8. RowsFiled' /\ Kno!SemanticComplete'
  <2>1. \A p \in Paths : files[p].id \in Ids => files[p] # Kno!Empty BY <1>2, NotNotes
  <2>2. RowsFiled' BY <1>0, <1>1, <1>2, <1>5, <2>1 DEF RowsFiled
  <2>3. QED BY <1>0, <1>1, <2>2 DEF Kno!SemanticComplete
<1>9. ASSUME ~clash' PROVE RowsTrue' /\ Apart'
  <2>1. RowsTrue /\ Apart /\ files = vault BY <1>0, <1>1, <1>9 DEF NotesInv, NotesType
  <2>2. RowsTrue' BY <1>0, <1>1, <1>5, <2>1 DEF RowsTrue, NotesType
  <2>3. \A u \in Callers \ {t} : ~Writing(u) BY <1>1, <2>1 DEF Apart, PairApart
  <2>4. ASSUME NEW u \in Callers PROVE CallApart(u)'
    <3>1. CASE u = t BY <1>3, <3>1 DEF CallApart, Writing
    <3>2. CASE u # t
      <4>1. thread'[u] = thread[u] /\ CallApart(u) /\ ~Writing(u)
        BY <1>3, <2>1, <2>3, <3>2 DEF Apart
      <4>2. QED BY <1>1, <4>1 DEF CallApart, Writing
    <3>3. QED BY <3>1, <3>2
  <2>5. ASSUME NEW u \in Callers, NEW v \in Callers \ {u} PROVE PairApart(u, v)'
    <3>1. PairApart(u, v) /\ PairApart(v, u) BY <2>1 DEF Apart
    <3>2. QED BY <1>3, <3>1 DEF PairApart, Writing
  <2>6. QED BY <2>2, <2>4, <2>5 DEF Apart
<1>10. QED BY <1>6, <1>7, <1>8, <1>9 DEF NotesInv

\* A note damaged by hand is not read as another one.
LEMMA UserDamages == ASSUME NotesInv, Kno!UserEdits PROVE NotesInv'
<1>0. NotesType /\ (\A u \in Callers : CallFits(u)) /\ RowsFiled /\ Kno!SemanticComplete
  BY DEF NotesInv
<1>1. UNCHANGED <<catalog, rebuilt, memory, disk, covered, answer, thread, clash>>
  BY DEF Kno!UserEdits
<1>2. steps' \in 0..MaxSteps
  BY <1>0, RecordConstants DEF Kno!UserEdits, Kno!Step, NotesType, Kno!KnowledgeConstants
<1>3. PICK p \in Paths : vault' = [vault EXCEPT ![p] = Kno!Malformed] BY DEF Kno!UserEdits
<1>4. /\ vault' \in [Paths -> Notes] /\ vault'[p] = Kno!Malformed
      /\ Kno!Malformed # Kno!Empty
      /\ \A q \in Paths \ {p} : vault'[q] = vault[q]
  <2>1. Kno!Malformed \in Notes BY DEF Notes
  <2>2. QED BY <1>0, <1>3, <2>1, NotNotes DEF NotesType
<1>5. NotesType' BY <1>0, <1>1, <1>2, <1>4 DEF NotesType
<1>6. ASSUME NEW u \in Callers PROVE CallFits(u)'
  <2>1. thread'[u] = thread[u] /\ CallFits(u) /\ thread[u] \in NoteCalls BY <1>0, <1>1 DEF NotesType
  <2>2. \A q \in Paths : vault[q] # Kno!Empty => vault'[q] # Kno!Empty BY <1>4
  <2>3. QED BY <1>1, <2>1, <2>2, NotNotes DEF CallFits, Writing, Kno!Complete
<1>7. RowsFiled' /\ Kno!SemanticComplete'
  BY <1>0, <1>1, <1>4, NotNotes DEF RowsFiled, Kno!SemanticComplete, NotesType
<1>8. ASSUME ~clash' PROVE RowsTrue' /\ Apart'
  <2>1. RowsTrue /\ Apart BY <1>1, <1>8 DEF NotesInv
  <2>2. RowsTrue' BY <1>0, <1>1, <1>4, <2>1, NotNotes DEF RowsTrue, NotesType
  <2>3. ASSUME NEW u \in Callers PROVE CallApart(u)'
    <3>1. CallApart(u) /\ CallFits(u) BY <1>0, <2>1 DEF Apart
    <3>2. QED BY <1>1, <1>4, <3>1 DEF CallApart, CallFits, Writing
  <2>4. QED BY <1>1, <2>1, <2>2, <2>3 DEF Apart, PairApart, Writing
<1>9. QED BY <1>5, <1>6, <1>7, <1>8 DEF NotesInv


\* A record is kept only if no record of any repository in use tells the same.
LEMMA Remembers ==
    ASSUME NotesInv, NEW t \in Callers, Kno!Remember(t)
    PROVE  NotesInv'
<1>0. NotesType /\ (\A u \in Callers : CallFits(u)) /\ RowsFiled /\ Kno!SemanticComplete
  BY DEF NotesInv
<1>1. /\ UNCHANGED <<vault, catalog, rebuilt, memory, disk, covered, answer>>
      /\ thread[t].pc = "idle" /\ steps' \in 0..MaxSteps
  BY <1>0, CallStarts DEF Kno!Remember
<1>2. CASE UNCHANGED <<thread, clash>>
  <2>1. CallFits(t)' BY <1>0, <1>1, <1>2 DEF CallFits, Writing, Kno!Complete
  <2>2. thread' \in [Callers -> NoteCalls] /\ thread'[t].pc = "idle" /\ clash' = clash
        /\ \A u \in Callers \ {t} : thread'[u] = thread[u]
    BY <1>0, <1>1, <1>2 DEF NotesType
  <2>3. QED BY <1>0, <1>1, <2>1, <2>2, QuietTurn DEF Kno!SemanticComplete
<1>3. CASE ~UNCHANGED <<thread, clash>>
  <2>1. PICK r \in Records :
           /\ Kno!FindDuplicate(r) = {}
           /\ thread' = [thread EXCEPT ![t].pc = "insert", ![t].record = r]
           /\ clash' = (clash \/ \E u \in Callers \ {t} : thread[u].pc = "insert")
    BY <1>3 DEF Kno!Remember, Kno!At, Records, Kno!Drafts, Kno!DetectSensitivity, Words
  <2> DEFINE x == [thread[t] EXCEPT !.pc = "insert", !.record = r]
  <2>2. x \in NoteCalls
    <3>1. [thread[t] EXCEPT !.pc = "insert"] \in NoteCalls BY <1>0, NoteFields DEF NotesType, Places
    <3>2. QED BY <3>1, NoteFields, Zenon
  <2>3. x.pc = "insert" /\ x.record = r BY <1>0 DEF NotesType, NoteCalls
  <2>4. thread' = [thread EXCEPT ![t] = x] BY <2>1
  <2> HIDE DEF x
  <2>5. /\ thread' \in [Callers -> NoteCalls]
        /\ thread'[t] = x /\ \A u \in Callers \ {t} : thread'[u] = thread[u]
    BY <1>0, <2>2, <2>4 DEF NotesType
  <2>6. NotesType' BY <1>0, <1>1, <2>1, <2>5 DEF NotesType
  <2>7. ASSUME NEW u \in Callers PROVE CallFits(u)'
    <3>1. CASE u = t BY <2>3, <2>5, <3>1 DEF CallFits, Writing
    <3>2. CASE u # t
      <4>1. thread'[u] = thread[u] /\ CallFits(u) BY <1>0, <2>5, <3>2
      <4>2. QED BY <1>1, <4>1 DEF CallFits, Writing, Kno!Complete
    <3>3. QED BY <3>1, <3>2
  <2>8. RowsFiled' /\ Kno!SemanticComplete' BY <1>0, <1>1 DEF RowsFiled, Kno!SemanticComplete
  <2>9. ASSUME ~clash' PROVE RowsTrue' /\ Apart'
    <3>1. RowsTrue /\ Apart /\ \A u \in Callers \ {t} : thread[u].pc # "insert"
      BY <1>0, <2>1, <2>9 DEF NotesInv, NotesType
    <3>2. \A m \in memory : AsCreated(m) => ~Kno!Same(m, r) BY <2>1 DEF Kno!FindDuplicate, AsCreated
    <3>3. ASSUME NEW u \in Callers PROVE CallApart(u)'
      <4>1. CASE u = t BY <1>1, <2>3, <2>5, <3>2, <4>1 DEF CallApart, Writing
      <4>2. CASE u # t
        <5>1. thread'[u] = thread[u] /\ CallApart(u) BY <2>5, <3>1, <4>2 DEF Apart
        <5>2. QED BY <1>1, <5>1 DEF CallApart, Writing
      <4>3. QED BY <4>1, <4>2
    <3>4. ASSUME NEW u \in Callers, NEW v \in Callers \ {u} PROVE PairApart(u, v)'
      <4>1. PairApart(u, v) /\ PairApart(v, u) BY <3>1 DEF Apart
      <4>2. QED BY <1>1, <2>3, <2>5, <3>1, <4>1 DEF PairApart, Writing
    <3>5. QED BY <1>1, <3>1, <3>3, <3>4 DEF RowsTrue, Apart
  <2>10. QED BY <2>6, <2>7, <2>8, <2>9 DEF NotesInv
<1>4. QED BY <1>2, <1>3

\* The record is inserted.
LEMMA InsertsRecord ==
    ASSUME NotesInv, NEW t \in Callers, Kno!InsertRecord(t)
    PROVE  NotesInv'
<1>0. NotesType /\ (\A u \in Callers : CallFits(u)) /\ RowsFiled /\ Kno!SemanticComplete
  BY DEF NotesInv
<1> DEFINE n == Kno!Cardinality(memory)
           m1 == Kno!Record(n, thread[t].record)
<1>1. /\ UNCHANGED <<vault, catalog, rebuilt, disk, covered, answer, clash, steps>>
      /\ thread[t].pc = "insert" /\ Kno!Return(t)
      /\ memory' = memory \cup {m1}
  BY DEF Kno!InsertRecord, Kno!At
<1>2. /\ thread' \in [Callers -> NoteCalls] /\ thread'[t].pc = "idle" /\ thread'[t].old = "none"
      /\ \A q \in Paths : thread'[t].files[q] = Kno!Empty
      /\ \A u \in Callers \ {t} : thread'[u] = thread[u]
  BY <1>0, <1>1, ReturnIs
<1>3. /\ m1 \in Memories /\ m1.source = thread[t].record.source
      /\ m1.content = thread[t].record.content
  <2>1. n \in Nat BY <1>0, SameCount, FS_CardinalityType DEF NotesType
  <2> HIDE DEF n
  <2>2. QED BY <1>0, <1>1, <2>1 DEF CallFits, Records, Memories, Kno!Record
<1> HIDE DEF m1
<1>4. NotesType'
  <2>1. memory' \subseteq Memories /\ IsFiniteSet(memory')
    BY <1>0, <1>1, <1>3, FS_AddElement DEF NotesType
  <2>2. QED BY <1>0, <1>1, <1>2, <2>1 DEF NotesType
<1>5. ASSUME NEW u \in Callers PROVE CallFits(u)'
  <2>1. CASE u = t BY <1>2, <2>1 DEF CallFits, Writing
  <2>2. CASE u # t
    <3>1. thread'[u] = thread[u] /\ CallFits(u) BY <1>0, <1>2, <2>2
    <3>2. QED BY <1>1, <3>1 DEF CallFits, Writing, Kno!Complete
  <2>3. QED BY <2>1, <2>2
<1>6. RowsFiled' /\ Kno!SemanticComplete' BY <1>0, <1>1 DEF RowsFiled, Kno!SemanticComplete
<1>7. ASSUME ~clash' PROVE RowsTrue' /\ Apart'
  <2>1. RowsTrue /\ Apart BY <1>1, <1>7 DEF NotesInv
  <2>2. \A m \in memory : AsCreated(m) => ~Kno!Same(m, m1) /\ ~Kno!Same(m1, m)
    <3>1. CallApart(t) BY <2>1 DEF Apart
    <3>2. QED BY <1>1, <1>3, <3>1 DEF CallApart, Kno!Same
  <2>3. RowsTrue' BY <1>1, <2>1, <2>2 DEF RowsTrue
  <2>4. \A u \in Callers \ {t} : thread[u].pc # "insert" BY <1>1, <2>1 DEF Apart, PairApart
  <2>5. ASSUME NEW u \in Callers PROVE CallApart(u)'
    <3>1. CASE u = t BY <1>2, <3>1 DEF CallApart, Writing
    <3>2. CASE u # t
      <4>1. thread'[u] = thread[u] /\ CallApart(u) /\ thread[u].pc # "insert"
        BY <1>2, <2>1, <2>4, <3>2 DEF Apart
      <4>2. QED BY <1>1, <4>1 DEF CallApart, Writing
    <3>3. QED BY <3>1, <3>2
  <2>6. ASSUME NEW u \in Callers, NEW v \in Callers \ {u} PROVE PairApart(u, v)'
    <3>1. PairApart(u, v) /\ PairApart(v, u) BY <2>1 DEF Apart
    <3>2. QED BY <1>2, <3>1 DEF PairApart, Writing
  <2>7. QED BY <2>3, <2>5, <2>6 DEF Apart
<1>8. QED BY <1>4, <1>5, <1>6, <1>7 DEF NotesInv

\* A record to be updated is read.
LEMMA StartsUpdate ==
    ASSUME NotesInv, NEW t \in Callers, Kno!Update(t)
    PROVE  NotesInv'
<1>0. NotesType /\ Kno!SemanticComplete /\ thread[t] \in NoteCalls BY DEF NotesInv, NotesType
<1>1. /\ UNCHANGED <<vault, catalog, rebuilt, memory, disk, covered, answer, clash>>
      /\ thread[t].pc = "idle" /\ steps' \in 0..MaxSteps
  BY <1>0, CallStarts DEF Kno!Update
<1>2. PICK m \in memory, c \in {w \in Kno!Contents : ~Kno!DetectSensitivity(w)} :
         thread' = [thread EXCEPT ![t].pc = "update",
                      ![t].record = [m EXCEPT !.content = c, !.updated = TRUE]]
  BY DEF Kno!Update
<1> DEFINE r == [m EXCEPT !.content = c, !.updated = TRUE]
           x == [thread[t] EXCEPT !.pc = "update", !.record = r]
<1>3. r \in Memories /\ r.updated BY <1>0 DEF NotesType, Memories, Words, Kno!DetectSensitivity
<1>4. thread' = [thread EXCEPT ![t] = x] BY <1>2
<1> HIDE DEF r
<1>5. x \in NoteCalls
  <2>1. [thread[t] EXCEPT !.pc = "update"] \in NoteCalls BY <1>0, NoteFields DEF Places
  <2>2. r \in Records \union Memories BY <1>3
  <2>3. QED BY <2>1, <2>2, NoteFields, Zenon
<1>6. x.pc = "update" /\ x.record = r BY <1>0 DEF NoteCalls
<1> HIDE DEF x
<1>7. /\ thread' \in [Callers -> NoteCalls] /\ thread'[t] = x
      /\ \A u \in Callers \ {t} : thread'[u] = thread[u]
  BY <1>0, <1>4, <1>5 DEF NotesType
<1>8. CallFits(t)' BY <1>3, <1>6, <1>7 DEF CallFits, Writing
<1>9. QED BY <1>0, <1>1, <1>6, <1>7, <1>8, QuietTurn DEF Kno!SemanticComplete

\* A record is archived or written with other words: none is in use as created that
\* was not before.
LEMMA RecordsTurn ==
    ASSUME NotesInv, NEW t \in Callers, Kno!UpdateRecord(t) \/ Kno!Archive(t)
    PROVE  NotesInv'
<1>0. NotesType /\ (\A u \in Callers : CallFits(u)) /\ RowsFiled /\ Kno!SemanticComplete
  BY DEF NotesInv
<1>1. UNCHANGED <<vault, catalog, rebuilt, disk, covered, answer, clash>>
  BY DEF Kno!UpdateRecord, Kno!Archive
<1>2. /\ steps' \in 0..MaxSteps /\ thread' \in [Callers -> NoteCalls]
      /\ \A u \in Callers \ {t} : thread'[u] = thread[u]
      /\ \/ thread'[t] = thread[t]
         \/ /\ thread'[t].pc = "idle" /\ thread'[t].old = "none"
            /\ \A p \in Paths : thread'[t].files[p] = Kno!Empty
  <2>1. CASE Kno!UpdateRecord(t) BY <1>0, <2>1, ReturnIs DEF Kno!UpdateRecord, NotesType
  <2>2. CASE Kno!Archive(t) BY <1>0, <2>2, CallStarts DEF Kno!Archive, NotesType
  <2>3. QED BY <2>1, <2>2
<1>3. /\ memory' \subseteq Memories /\ IsFiniteSet(memory')
      /\ \A m \in memory' : AsCreated(m) => m \in memory
  <2>1. CASE Kno!UpdateRecord(t)
    <3> DEFINE r == thread[t].record
               others == {m \in memory : m.number # r.number}
    <3>1. r \in Memories /\ r.updated /\ memory' = others \cup {r}
      BY <1>0, <2>1 DEF Kno!UpdateRecord, Kno!At, CallFits
    <3>2. IsFiniteSet(others) /\ others \subseteq memory BY <1>0, FS_Subset DEF NotesType
    <3> HIDE DEF r, others
    <3>3. IsFiniteSet(others \cup {r}) BY <3>2, FS_AddElement
    <3>4. QED BY <1>0, <3>1, <3>2, <3>3 DEF NotesType, AsCreated
  <2>2. CASE Kno!Archive(t)
    <3>1. PICK m \in memory : memory' = (memory \ {m}) \cup {[m EXCEPT !.archived = TRUE]}
      BY <2>2 DEF Kno!Archive
    <3> DEFINE r == [m EXCEPT !.archived = TRUE]
               others == memory \ {m}
    <3>2. r \in Memories /\ r.archived BY <1>0 DEF NotesType, Memories
    <3>3. IsFiniteSet(others) /\ others \subseteq memory BY <1>0, FS_Subset DEF NotesType
    <3>4. memory' = others \cup {r} BY <3>1
    <3> HIDE DEF r, others
    <3>5. IsFiniteSet(others \cup {r}) BY <3>3, FS_AddElement
    <3>6. QED BY <1>0, <3>2, <3>3, <3>4, <3>5 DEF NotesType, AsCreated
  <2>3. QED BY <2>1, <2>2
<1>4. NotesType' BY <1>0, <1>1, <1>2, <1>3 DEF NotesType
<1>5. ASSUME NEW u \in Callers PROVE CallFits(u)'
  <2>1. CASE thread'[u] = thread[u]
    <3>1. CallFits(u) BY <1>0
    <3>2. QED BY <1>1, <2>1, <3>1 DEF CallFits, Writing, Kno!Complete
  <2>2. CASE thread'[u] # thread[u] BY <1>2, <2>2 DEF CallFits, Writing
  <2>3. QED BY <2>1, <2>2
<1>6. RowsFiled' /\ Kno!SemanticComplete' BY <1>0, <1>1 DEF RowsFiled, Kno!SemanticComplete
<1>7. ASSUME ~clash' PROVE RowsTrue' /\ Apart'
  <2>1. RowsTrue /\ Apart BY <1>1, <1>7 DEF NotesInv
  <2>2. RowsTrue' BY <1>1, <1>3, <2>1 DEF RowsTrue
  <2>3. ASSUME NEW u \in Callers PROVE CallApart(u)'
    <3>1. CallApart(u) BY <2>1 DEF Apart
    <3>2. CASE thread'[u] = thread[u] BY <1>1, <1>3, <3>1, <3>2 DEF CallApart, Writing
    <3>3. CASE thread'[u] # thread[u] BY <1>2, <3>3 DEF CallApart, Writing
    <3>4. QED BY <3>2, <3>3
  <2>4. ASSUME NEW u \in Callers, NEW v \in Callers \ {u} PROVE PairApart(u, v)'
    <3>1. PairApart(u, v) BY <2>1 DEF Apart
    <3>2. /\ thread'[u] = thread[u] \/ thread'[u].pc = "idle"
          /\ thread'[v] = thread[v] \/ thread'[v].pc = "idle"
      BY <1>2
    <3>3. QED BY <3>1, <3>2 DEF PairApart, Writing
  <2>5. QED BY <2>2, <2>3, <2>4 DEF Apart
<1>8. QED BY <1>4, <1>5, <1>6, <1>7 DEF NotesInv

\* The guard asks for the entities of the index, and notes whether it is complete.
LEMMA GuardAsks ==
    ASSUME NotesInv, NEW t \in Callers, Kno!GuardInfo(t)
    PROVE  NotesInv'
<1>0. NotesType /\ Kno!SemanticComplete BY DEF NotesInv
<1>1. /\ UNCHANGED <<vault, catalog, rebuilt, memory, disk, covered, answer, clash>>
      /\ thread[t].pc = "idle" /\ steps' \in 0..MaxSteps
  BY <1>0, CallStarts DEF Kno!GuardInfo
<1>2. PICK n \in Kno!Seen(Kno!Cardinality(covered)) :
         thread' = [thread EXCEPT ![t].pc = "status", ![t].entities = n, ![t].complete = Kno!Complete]
  BY DEF Kno!GuardInfo
<1>3. n \in Int /\ Kno!Complete \in BOOLEAN
  <2>1. covered \in SUBSET Paths BY <1>0 DEF NotesType
  <2>2. QED BY <2>1, NothingPending DEF Kno!Seen, Kno!Complete
<1> DEFINE c == Kno!Complete
           x == [thread[t] EXCEPT !.pc = "status", !.entities = n, !.complete = c]
<1>4. thread' = [thread EXCEPT ![t] = x] BY <1>2
<1> HIDE DEF c
<1>5. x \in NoteCalls
  <2>1. [thread[t] EXCEPT !.pc = "status"] \in NoteCalls BY <1>0, NoteFields DEF NotesType, Places
  <2>2. [thread[t] EXCEPT !.pc = "status", !.entities = n] \in NoteCalls
    BY <1>3, <2>1, NoteFields, Zenon
  <2>3. c \in BOOLEAN BY <1>3 DEF c
  <2>4. QED BY <2>2, <2>3, NoteFields, Zenon
<1>6. x.pc = "status" /\ x.complete = c /\ x.old = thread[t].old BY <1>0 DEF NotesType, NoteCalls
<1> HIDE DEF x
<1>7. /\ thread' \in [Callers -> NoteCalls] /\ thread'[t] = x
      /\ \A u \in Callers \ {t} : thread'[u] = thread[u]
  BY <1>0, <1>4, <1>5 DEF NotesType
<1>8. Kno!Complete' = c BY <1>1 DEF Kno!Complete, c
<1>9. CallFits(t)' BY <1>6, <1>7, <1>8 DEF CallFits, Writing
<1>10. QED BY <1>0, <1>1, <1>6, <1>7, <1>9, QuietTurn DEF Kno!SemanticComplete

\* The guard asks for what is pending: when nothing is, the index is complete now.
LEMMA GuardAsksAgain ==
    ASSUME NotesInv, NEW t \in Callers, Kno!GuardStatus(t)
    PROVE  NotesInv'
<1>0. NotesType /\ CallFits(t) /\ Kno!SemanticComplete BY DEF NotesInv
<1> DEFINE differ == (disk \ covered) \cup (covered \ disk)
<1>1. /\ UNCHANGED <<vault, catalog, rebuilt, memory, disk, covered, answer, clash, steps>>
      /\ thread[t].pc = "status"
  BY DEF Kno!GuardStatus, Kno!At
<1>2. PICK n \in Kno!Seen(Kno!Cardinality(differ)) :
         thread' = [thread EXCEPT ![t].pc = "disposition", ![t].pending = n]
  BY DEF Kno!GuardStatus
<1>3. n \in Nat \union {-1} /\ (n = 0 => differ = {})
  <2>1. differ \in SUBSET Paths BY <1>0 DEF NotesType
  <2> HIDE DEF differ
  <2>2. QED BY <2>1, NothingPending DEF Kno!Seen
<1> DEFINE x == [thread[t] EXCEPT !.pc = "disposition", !.pending = n]
<1>4. thread' = [thread EXCEPT ![t] = x] BY <1>2
<1>5. x \in NoteCalls
  <2>1. [thread[t] EXCEPT !.pc = "disposition"] \in NoteCalls
    BY <1>0, NoteFields DEF NotesType, Places
  <2>2. n \in Int BY <1>3
  <2>3. QED BY <2>1, <2>2, NoteFields, Zenon
<1>6. x.pc = "disposition" /\ x.pending = n /\ x.complete = thread[t].complete
  BY <1>0 DEF NotesType, NoteCalls
<1> HIDE DEF x
<1>7. /\ thread' \in [Callers -> NoteCalls] /\ thread'[t] = x
      /\ \A u \in Callers \ {t} : thread'[u] = thread[u]
  BY <1>0, <1>4, <1>5 DEF NotesType
<1>8. (Kno!Complete => thread[t].complete) /\ (n = 0 => Kno!Complete) /\ Kno!Complete' = Kno!Complete
  BY <1>0, <1>1, <1>3 DEF CallFits, Kno!Complete
<1>9. CallFits(t)' BY <1>3, <1>6, <1>7, <1>8 DEF CallFits, Writing
<1>10. QED BY <1>0, <1>1, <1>6, <1>7, <1>9, QuietTurn DEF Kno!SemanticComplete, NotesType

\* The guard lets a semantic search through only after it counted nothing pending.
LEMMA GuardAnswers ==
    ASSUME NotesInv, NEW t \in Callers, Kno!GuardSearch(t)
    PROVE  NotesInv'
<1>0. NotesType /\ CallFits(t) BY DEF NotesInv
<1> DEFINE health == Kno!Disposition(Kno!Cardinality(disk), thread[t].entities, thread[t].pending)
<1>1. /\ UNCHANGED <<vault, catalog, rebuilt, memory, disk, covered, clash, steps>>
      /\ thread[t].pc = "disposition" /\ Kno!Return(t)
  BY DEF Kno!GuardSearch, Kno!At
<1>2. PICK kind \in IF health = "healthy" THEN {"semantic", "literal"} ELSE {"literal"} :
         answer' = [kind |-> kind, complete |-> thread[t].complete]
  BY DEF Kno!GuardSearch
<1>3. thread[t].pending \in Nat \union {-1} /\ (thread[t].pending = 0 => thread[t].complete)
  BY <1>0, <1>1 DEF CallFits
<1>4. health = "healthy" => thread[t].pending = 0 BY <1>3 DEF Kno!Disposition
<1> HIDE DEF health
<1>5. Kno!SemanticComplete' BY <1>2, <1>3, <1>4 DEF Kno!SemanticComplete
<1>6. CallFits(t)' BY <1>0, <1>1, ReturnIs DEF CallFits, Writing
<1>7. QED BY <1>0, <1>1, <1>5, <1>6, ReturnIs, QuietTurn DEF NotesType

\* A file comes or goes, or the provider catches up: the calls of the guard see it if
\* the index is complete then.
LEMMA IndexChanges ==
    ASSUME NotesInv, Kno!FilesChange \/ Kno!ProviderIndexes
    PROVE  NotesInv'
<1>0. NotesType /\ (\A u \in Callers : CallFits(u)) /\ RowsFiled /\ Kno!SemanticComplete
  BY DEF NotesInv
<1>1. /\ UNCHANGED <<vault, catalog, rebuilt, memory, answer, clash>>
      /\ Kno!Witness /\ Kno!Step
  BY DEF Kno!FilesChange, Kno!ProviderIndexes
<1>2. disk' \subseteq Paths /\ covered' \subseteq Paths
  BY <1>0 DEF Kno!FilesChange, Kno!ProviderIndexes, NotesType
<1>3. steps' \in 0..MaxSteps
  BY <1>0, <1>1, RecordConstants DEF Kno!Step, NotesType, Kno!KnowledgeConstants
<1> DEFINE full(u) == thread[u].complete
                      \/ (thread[u].pc \in {"status", "disposition"} /\ disk' \subseteq covered')
<1>4. ASSUME NEW u \in Callers
      PROVE  /\ thread'[u] \in NoteCalls
             /\ thread'[u].pc = thread[u].pc /\ thread'[u].id = thread[u].id
             /\ thread'[u].path = thread[u].path /\ thread'[u].old = thread[u].old
             /\ thread'[u].row = thread[u].row /\ thread'[u].files = thread[u].files
             /\ thread'[u].record = thread[u].record /\ thread'[u].pending = thread[u].pending
             /\ thread'[u].complete = full(u)
  <2>1. thread'[u] = [thread[u] EXCEPT !.complete = full(u)] BY <1>1 DEF Kno!Witness
  <2>2. full(u) \in BOOLEAN BY <1>0 DEF NotesType, NoteCalls
  <2> HIDE DEF full
  <2>3. thread[u] \in NoteCalls BY <1>0 DEF NotesType
  <2>4. thread'[u] \in NoteCalls BY <2>1, <2>2, <2>3, NoteFields
  <2>5. QED BY <2>1, <2>3, <2>4 DEF NoteCalls
<1>5. thread' \in [Callers -> NoteCalls]
  <2>1. \E f : thread' = [u \in Callers |-> f[u]]
    <3>1. thread' = [u \in Callers |-> thread'[u]] BY <1>1 DEF Kno!Witness
    <3>2. QED BY <3>1
  <2>2. QED BY <1>4, <2>1
<1>6. NotesType' BY <1>0, <1>1, <1>2, <1>3, <1>5 DEF NotesType
<1>7. ASSUME NEW u \in Callers PROVE CallFits(u)'
  <2>1. CallFits(u) BY <1>0
  <2>2. /\ vault' = vault
        /\ thread'[u].pc = thread[u].pc /\ thread'[u].id = thread[u].id
        /\ thread'[u].path = thread[u].path /\ thread'[u].old = thread[u].old
        /\ thread'[u].row = thread[u].row /\ thread'[u].files = thread[u].files
        /\ thread'[u].record = thread[u].record /\ thread'[u].pending = thread[u].pending
    BY <1>1, <1>4
  <2>3. thread[u].complete => thread'[u].complete BY <1>4
  <2>4. thread[u].pc \in {"status", "disposition"} /\ Kno!Complete' => thread'[u].complete
    BY <1>4 DEF Kno!Complete
  <2> HIDE DEF full
  <2>5. QED BY <2>1, <2>2, <2>3, <2>4 DEF CallFits, Writing
<1>8. RowsFiled' /\ Kno!SemanticComplete' BY <1>0, <1>1 DEF RowsFiled, Kno!SemanticComplete
<1>9. ASSUME ~clash' PROVE RowsTrue' /\ Apart'
  <2>1. RowsTrue /\ Apart BY <1>1, <1>9 DEF NotesInv
  <2>2. ASSUME NEW u \in Callers PROVE CallApart(u)'
    <3>1. CallApart(u) BY <2>1 DEF Apart
    <3>2. QED BY <1>1, <1>4, <3>1 DEF CallApart, Writing
  <2>3. ASSUME NEW u \in Callers, NEW v \in Callers \ {u} PROVE PairApart(u, v)'
    <3>1. PairApart(u, v) BY <2>1 DEF Apart
    <3>2. QED BY <1>4, <3>1 DEF PairApart, Writing
  <2>4. QED BY <1>1, <2>1, <2>2, <2>3 DEF RowsTrue, Apart
<1>10. QED BY <1>6, <1>7, <1>8, <1>9 DEF NotesInv

\* Every step of the notes, of the records and of the guard keeps the invariant.
LEMMA NotesStep == NotesInv /\ Kno!Next => NotesInv'
BY UserDamages, IndexChanges, StartWriting, WritesFile, WritesRow, RetiresFile, RetiresRow,
   StartsRebuild, ReadsFile, Replaces, StartsUpdate, RecordsTurn, Remembers, InsertsRecord, GuardAsks, GuardAsksAgain, GuardAnswers,
   CallDies DEF Kno!Next

\* Catalog and vault agree, no two memory records in use as created tell the same, and
\* semantic answers come from a complete index only, for any number of calls, notes,
\* paths and steps (knowledge/service.py:31-148, memory/store.py:52-178,
\* memory_guard/guard.py:76-166).
THEOREM NotesStaySound == Spec => []NotesSound
<1>1. Init => NotesInv BY NotesStart DEF Init
<1>2. NotesInv /\ [Next]_vars => NotesInv'
  <2>1. NotesInv /\ UNCHANGED knowledgeState => NotesInv'
    BY DEF knowledgeState, NotesInv, NotesType, CallFits, Writing, RowsFiled, RowsTrue, Apart,
           CallApart, PairApart, Kno!SemanticComplete, Kno!Complete, AsCreated
  <2>2. QED BY <2>1, NotesStep DEF Next, vars, knowledgeState
<1>3. NotesInv => NotesSound
  <2> SUFFICES ASSUME NotesInv PROVE Kno!NotesSound /\ Kno!SemanticComplete BY DEF NotesSound
  <2>0. NotesType /\ RowsFiled /\ Kno!SemanticComplete BY DEF NotesInv
  <2>1. Kno!TypeOK BY <2>0 DEF Kno!TypeOK, NotesType, Notes, Rows, Memories, Words
  <2>2. \A i \in Kno!Catalogued : vault[catalog[i].path] # Kno!Empty
    BY <2>0 DEF RowsFiled, Kno!Catalogued
  <2>3. \A i, j \in Kno!Catalogued : catalog[i].path = catalog[j].path => i = j
    BY <2>0 DEF RowsFiled, Kno!Catalogued
  <2>4. ASSUME ~clash
        PROVE  /\ \A i \in Kno!Catalogued : vault[catalog[i].path] # Kno!Malformed =>
                                      vault[catalog[i].path].id = i
               /\ \A m, n \in {r \in memory : ~r.archived /\ ~r.updated} :
                     Kno!Same(m, n) => m = n
    BY <2>4 DEF NotesInv, RowsTrue, Kno!Catalogued, AsCreated
  <2>5. QED BY <2>0, <2>1, <2>2, <2>3, <2>4 DEF Kno!NotesSound
<1>4. QED BY <1>1, <1>2, <1>3, PTL DEF Spec
----
(* Sources, their versions and packets (ResearchLibrary).                   *)

Progress == {"new", "parsing", "done", "fail", "cancel"}
Documents == [content: SourceTexts, intact: BOOLEAN, run: Progress, full: BOOLEAN]
Versions == [status: Res!Ingestion, document: 0..MaxDocuments, supersedes: SourceTexts \union {0}]
Libraries == [current: SourceTexts \union {0}, versions: [SourceTexts -> Versions],
              packets: [Keys -> Drafts \union {Res!NoDraft}],
              claims: SUBSET Keys, evidence: SUBSET Keys]
Desks == {"idle", "existing", "current", "insert", "upload", "parse", "map", "failed", "rebuild",
          "reconcile", "reconciled", "preserve", "context", "export_versions",
          "export_packets", "export_claims", "export_manifest"}

Passages == [content: SourceTexts, document: 0..MaxDocuments]

\* Where a session is, and what it has read.
Visits == [pc: Desks, content: SourceTexts \union {0}, seen: SourceTexts \union {0},
           document: 0..MaxDocuments, status: Res!Ingestion, todo: SUBSET SourceTexts,
           passages: SUBSET Passages, key: Keys \union {0}, draft: Drafts \union {Res!NoDraft}, rebuild: BOOLEAN,
           body: Libraries]

LibraryType ==
    /\ archive \in [SourceTexts -> {"absent", "ok", "corrupt"}]
    /\ library \in Libraries
    /\ index \in Seq(Documents) /\ Len(index) <= MaxDocuments
    /\ session \in [Callers -> Visits]
    /\ context \in [passages: SUBSET Passages,
                    claims: SUBSET Keys]
    /\ dump \in [body: Libraries, manifest: Libraries]
    /\ copy \in Libraries
    /\ uses \in 0..MaxUses

\* d is a document uploaded from the archived object of version c.
Holds(d, c) == d \in 1..Len(index) /\ Res!UploadOf(d, c)

StoredNow == Res!Stored(library)

\* What a session has found of the version, the document or the packet it works on.
VisitFits(s) ==
    /\ session[s].todo \subseteq StoredNow
    /\ session[s].pc \in {"existing", "current", "insert"} =>
          session[s].content \in SourceTexts /\ archive[session[s].content] # "absent"
    /\ session[s].pc = "insert" => session[s].seen \in StoredNow \union {0}
    /\ session[s].pc \in {"upload", "parse", "map", "failed", "reconcile", "reconciled"} =>
          session[s].content \in StoredNow
    /\ session[s].pc \in {"parse", "map"} => Holds(session[s].document, session[s].content)
    /\ session[s].pc = "parse" => index[session[s].document].run = "new"
    /\ session[s].pc \in {"reconcile", "reconciled"} =>
          library.versions[session[s].content].document # 0
    /\ session[s].pc = "reconciled" => session[s].status \in {"indexed", "failed", "retry", "parsing"}
    /\ session[s].pc = "reconciled" /\ session[s].status = "indexed" =>
          \E d \in 1..Len(index) : Holds(d, session[s].content) /\ Res!Parsed(d)
    /\ session[s].pc = "context" => \A p \in session[s].passages : Holds(p.document, p.content)
    /\ session[s].pc = "preserve" => session[s].key \in Keys /\ session[s].draft \in Drafts
    /\ session[s].pc = "export_claims" =>
          \A k \in Keys : session[s].body.packets[k] \in {Res!NoDraft, library.packets[k]}

\* Two uploads are of two documents.
ParsesApart ==
    \A s \in Callers : \A u \in Callers \ {s} :
       session[s].pc = "parse" /\ session[u].pc = "parse" =>
          session[s].document # session[u].document

\* Each version in the overlay is archived, mapped to its own bytes, and supersedes
\* an older one.
VersionsFit ==
    \A c \in StoredNow :
       /\ archive[c] # "absent"
       /\ library.versions[c].status \in {"parsing", "indexed", "retry"} =>
             library.versions[c].document # 0
       /\ library.versions[c].document # 0 => Holds(library.versions[c].document, c)
       /\ library.versions[c].status = "indexed" =>
             \E d \in 1..Len(index) : Holds(d, c) /\ Res!Parsed(d)
       /\ library.versions[c].supersedes \in StoredNow \union {0}
       /\ library.versions[c].supersedes # c
       /\ library.versions[c].supersedes # 0 =>
             library.versions[library.versions[c].supersedes].supersedes # c

\* Each packet came with its claims, and with evidence if it cites a version.
PacketsFit ==
    /\ library.current \in StoredNow \union {0}
    /\ library.claims = Res!Packets(library)
    /\ library.evidence = {k \in Res!Packets(library) : library.packets[k].cites # 0}

ContextFits ==
    /\ \A k \in context.claims : k \in library.claims /\ library.packets[k].reviewed
    /\ \A p \in context.passages : Holds(p.document, p.content)

\* An export has every claim of its packets, and maybe claims of later ones.
DumpFits ==
    /\ \A k \in Keys : dump.body.packets[k] \in {Res!NoDraft, library.packets[k]}
    /\ Res!Packets(dump.body) \subseteq dump.body.claims
    /\ dump.body.claims \subseteq library.claims
    /\ dump.body.evidence = {k \in dump.body.claims : library.packets[k].cites # 0}

CopyFits ==
    /\ \A k \in copy.evidence : copy.packets[k].cites \in Res!Stored(copy)
    /\ copy.claims = Res!Packets(copy)
    /\ copy.evidence = {k \in Res!Packets(copy) : copy.packets[k].cites # 0}
    /\ \A k \in Res!Packets(copy) : copy.packets[k] = library.packets[k]

LibraryInv ==
    /\ LibraryType
    /\ \A s \in Callers : VisitFits(s)
    /\ ParsesApart /\ VersionsFit /\ PacketsFit /\ ContextFits /\ DumpFits /\ CopyFits

\* What no step takes back: versions, their mappings and their bytes, packets and
\* claims, documents and what became of them.
Grows ==
    /\ \A c \in SourceTexts :
          /\ archive[c] # "absent" => archive'[c] # "absent"
          /\ archive[c] = "corrupt" => archive'[c] = "corrupt"
    /\ StoredNow \subseteq StoredNow'
    /\ \A c \in StoredNow :
          library.versions[c].document # 0 => library'.versions[c].document # 0
    /\ \A k \in Keys : library.packets[k] # Res!NoDraft => library'.packets[k] = library.packets[k]
    /\ library.claims \subseteq library'.claims
    /\ Len(index') >= Len(index)
    /\ \A d \in 1..Len(index) :
          /\ index'[d].content = index[d].content /\ index'[d].intact = index[d].intact
          /\ Res!Parsed(d) => Res!Parsed(d)'

\* Writing one field of a session keeps its type.
LEMMA VisitFields ==
    ASSUME NEW r \in Visits
    PROVE  /\ \A x \in Desks : [r EXCEPT !.pc = x] \in Visits
           /\ \A x \in SourceTexts \union {0} : [r EXCEPT !.content = x] \in Visits
           /\ \A x \in SourceTexts \union {0} : [r EXCEPT !.seen = x] \in Visits
           /\ \A x \in 0..MaxDocuments : [r EXCEPT !.document = x] \in Visits
           /\ \A x \in Res!Ingestion : [r EXCEPT !.status = x] \in Visits
           /\ \A x \in SUBSET SourceTexts : [r EXCEPT !.todo = x] \in Visits
           /\ \A x \in SUBSET Passages : [r EXCEPT !.passages = x] \in Visits
           /\ \A x \in Keys \union {0} : [r EXCEPT !.key = x] \in Visits
           /\ \A x \in Drafts \union {Res!NoDraft} : [r EXCEPT !.draft = x] \in Visits
           /\ \A x \in BOOLEAN : [r EXCEPT !.rebuild = x] \in Visits
           /\ \A x \in Libraries : [r EXCEPT !.body = x] \in Visits
<1>1. \A x \in Desks : [r EXCEPT !.pc = x] \in Visits  BY DEF Visits
<1>2. \A x \in SourceTexts \union {0} : [r EXCEPT !.content = x] \in Visits  BY DEF Visits
<1>3. \A x \in SourceTexts \union {0} : [r EXCEPT !.seen = x] \in Visits  BY DEF Visits
<1>4. \A x \in 0..MaxDocuments : [r EXCEPT !.document = x] \in Visits  BY DEF Visits
<1>5. \A x \in Res!Ingestion : [r EXCEPT !.status = x] \in Visits  BY DEF Visits
<1>6. \A x \in SUBSET SourceTexts : [r EXCEPT !.todo = x] \in Visits  BY DEF Visits
<1>7. \A x \in Keys \union {0} : [r EXCEPT !.key = x] \in Visits  BY DEF Visits
<1>8. \A x \in Drafts \union {Res!NoDraft} : [r EXCEPT !.draft = x] \in Visits  BY DEF Visits
<1>9. \A x \in BOOLEAN : [r EXCEPT !.rebuild = x] \in Visits  BY DEF Visits
<1>10. \A x \in Libraries : [r EXCEPT !.body = x] \in Visits  BY DEF Visits
<1>11. \A x \in SUBSET Passages : [r EXCEPT !.passages = x] \in Visits  BY DEF Visits
<1> QED  BY <1>1, <1>2, <1>3, <1>4, <1>5, <1>6, <1>7, <1>8, <1>9, <1>10, <1>11

\* An overlay in which nothing is stored.
LEMMA EmptyTyped ==
    /\ Res!EmptyLibrary \in Libraries
    /\ Res!Stored(Res!EmptyLibrary) = {} /\ Res!Packets(Res!EmptyLibrary) = {}
    /\ Res!EmptyLibrary.current = 0 /\ Res!EmptyLibrary.claims = {} /\ Res!EmptyLibrary.evidence = {}
    /\ \A k \in Keys : Res!EmptyLibrary.packets[k] = Res!NoDraft
BY RecordConstants DEF Res!EmptyLibrary, Libraries, Versions, Res!Ingestion, Res!NoVersion, Res!Stored,
       Res!Packets, Res!LibraryConstants

\* A session that is over, or has not begun.
LEMMA IdleTyped ==
    Res!IdleSession \in Visits /\ Res!IdleSession.pc = "idle" /\ Res!IdleSession.todo = {}
<1> DEFINE e == Res!EmptyLibrary
<1>1. e \in Libraries BY EmptyTyped
<1>2. Res!IdleSession = [pc |-> "idle", content |-> 0, seen |-> 0, document |-> 0, status |-> "none",
                         todo |-> {}, passages |-> {}, key |-> 0, draft |-> Res!NoDraft, rebuild |-> FALSE,
                         body |-> e]
  BY DEF Res!IdleSession
<1> HIDE DEF e
<1>3. 0 \in 0..MaxDocuments BY RecordConstants DEF Res!LibraryConstants
<1>4. QED BY <1>1, <1>2, <1>3 DEF Visits, Desks, Res!Ingestion

\* The invariant of the library holds when the program starts: nothing is stored.
LEMMA LibraryStarts == Res!Init => LibraryInv
<1> SUFFICES ASSUME Res!Init PROVE LibraryInv
  OBVIOUS
<1> DEFINE e == Res!EmptyLibrary
<1>1. /\ e \in Libraries /\ Res!Stored(e) = {} /\ Res!Packets(e) = {}
      /\ e.current = 0 /\ e.claims = {} /\ e.evidence = {}
      /\ \A k \in Keys : e.packets[k] = Res!NoDraft
  BY EmptyTyped
<1>2. /\ archive = [c \in SourceTexts |-> "absent"] /\ library = e /\ index = <<>>
      /\ session = [s \in Callers |-> Res!IdleSession]
      /\ context = [passages |-> {}, claims |-> {}]
      /\ dump = [body |-> e, manifest |-> e] /\ copy = e /\ uses = 0
  BY DEF Res!Init, Res!NoContext
<1> HIDE DEF e
<1>3. LibraryType
  <2>1. index \in Seq(Documents) /\ Len(index) <= MaxDocuments
    BY <1>2, RecordConstants DEF Res!LibraryConstants
  <2>2. uses \in 0..MaxUses BY <1>2, RecordConstants DEF Res!LibraryConstants
  <2>3. session \in [Callers -> Visits] BY <1>2, IdleTyped
  <2>4. QED BY <1>1, <1>2, <2>1, <2>2, <2>3 DEF LibraryType
<1>4. \A s \in Callers : session[s].pc = "idle" /\ session[s].todo = {} BY <1>2, IdleTyped
<1>5. (\A s \in Callers : VisitFits(s)) /\ ParsesApart BY <1>4 DEF VisitFits, ParsesApart
<1>6. VersionsFit /\ PacketsFit BY <1>1, <1>2 DEF VersionsFit, PacketsFit, StoredNow
<1>7. ContextFits /\ DumpFits /\ CopyFits BY <1>1, <1>2 DEF ContextFits, DumpFits, CopyFits
<1>8. QED BY <1>3, <1>5, <1>6, <1>7 DEF LibraryInv

\* A document uploaded from a version's object stays one, as the library grows.
LEMMA HoldsKept ==
    ASSUME LibraryType, LibraryType', Grows, NEW d, NEW c, Holds(d, c)
    PROVE  /\ Holds(d, c)' /\ d \in 1..Len(index) /\ d \in 1..Len(index')
           /\ Res!Parsed(d) => Res!Parsed(d)'
<1>1. /\ index \in Seq(Documents) /\ Len(index) \in Nat /\ Len(index') \in Nat
      /\ d \in 1..Len(index) /\ index[d].content = c
  BY DEF LibraryType, Holds, Res!UploadOf
<1>2. index[d] \in Documents BY <1>1
<1>3. c \in SourceTexts BY <1>1, <1>2 DEF Documents
<1>4. d \in 1..Len(index') /\ Res!UploadOf(d, c)'
  <2>1. d \in 1..Len(index') BY <1>1 DEF Grows
  <2>2. index'[d].content = index[d].content /\ index'[d].intact = index[d].intact BY <1>1 DEF Grows
  <2>3. archive[c] = "corrupt" => archive'[c] = "corrupt" BY <1>3 DEF Grows
  <2>4. index[d].content = c /\ (index[d].intact \/ archive[c] = "corrupt")
    BY DEF Holds, Res!UploadOf
  <2>5. index'[d].content = c /\ (index'[d].intact \/ archive'[c] = "corrupt")
    BY <2>2, <2>3, <2>4, Zenon
  <2>6. QED BY <2>1, <2>5 DEF Res!UploadOf
<1>5. QED BY <1>1, <1>4 DEF Grows, Holds

\* A session no step has touched still holds what it has found, as the library grows.
LEMMA OthersFit ==
    ASSUME LibraryInv, LibraryType', Grows, NEW u \in Callers, session'[u] = session[u],
           session[u].pc = "parse" => index'[session[u].document].run = "new"
    PROVE  VisitFits(u)'
<1>1. VisitFits(u) /\ LibraryType BY DEF LibraryInv
<1>2. session[u] \in Visits /\ Len(index) \in Nat /\ Len(index') \in Nat BY <1>1 DEF LibraryType
<1>3. StoredNow \subseteq StoredNow' BY DEF Grows
<1>4. \A d, c : Holds(d, c) =>
         Holds(d, c)' /\ d \in 1..Len(index') /\ (Res!Parsed(d) => Res!Parsed(d)')
  BY <1>1, HoldsKept
<1>5. session'[u].todo \subseteq StoredNow' BY <1>1, <1>3 DEF VisitFits
<1>6. session'[u].pc \in {"existing", "current", "insert"} =>
          session'[u].content \in SourceTexts /\ archive'[session'[u].content] # "absent"
  BY <1>1 DEF VisitFits, Grows
<1>7. session'[u].pc = "insert" => session'[u].seen \in StoredNow' \union {0}
  BY <1>1, <1>3 DEF VisitFits
<1>8. session'[u].pc \in {"upload", "parse", "map", "failed", "reconcile", "reconciled"} =>
          session'[u].content \in StoredNow'
  BY <1>1, <1>3 DEF VisitFits
<1>9. session'[u].pc \in {"parse", "map"} => Holds(session[u].document, session[u].content)'
  BY <1>1, <1>4 DEF VisitFits
<1>10. session'[u].pc = "parse" => index'[session'[u].document].run = "new"
  OBVIOUS
<1>11. session'[u].pc \in {"reconcile", "reconciled"} =>
          library'.versions[session'[u].content].document # 0
  BY <1>1 DEF VisitFits, Grows
<1>12. session'[u].pc = "reconciled" /\ session'[u].status = "indexed" =>
          \E d \in 1..Len(index') : Holds(d, session[u].content)' /\ Res!Parsed(d)'
  BY <1>1, <1>4 DEF VisitFits
<1>13. session'[u].pc = "context" =>
          \A p \in session[u].passages : Holds(p.document, p.content)'
  BY <1>1, <1>4 DEF VisitFits
<1>14. session'[u].pc = "export_claims" =>
          \A k \in Keys : session'[u].body.packets[k] \in {Res!NoDraft, library'.packets[k]}
  BY <1>1 DEF VisitFits, Grows
<1>15. QED BY <1>1, <1>5, <1>6, <1>7, <1>8, <1>9, <1>10, <1>11, <1>12, <1>13, <1>14 DEF VisitFits

\* Versions and packets stay fit where the overlay is left alone.
LEMMA OverlayKept ==
    ASSUME LibraryInv, LibraryType', Grows, library' = library
    PROVE  VersionsFit' /\ PacketsFit' /\ StoredNow' = StoredNow
<1>0. /\ LibraryType /\ VersionsFit /\ PacketsFit /\ StoredNow \subseteq SourceTexts
      /\ Len(index) \in Nat /\ Len(index') \in Nat
  BY DEF LibraryInv, LibraryType, StoredNow, Res!Stored
<1>1. StoredNow' = StoredNow BY DEF StoredNow
<1>2. \A d, c : Holds(d, c) => Holds(d, c)' BY <1>0, HoldsKept
<1>3. \A d, c : Holds(d, c) /\ Res!Parsed(d) => Holds(d, c)' /\ Res!Parsed(d)' BY <1>0, HoldsKept
<1>4. \A d, c : Holds(d, c)' => d \in 1..Len(index') BY DEF Holds
<1>5. VersionsFit'
  <2> SUFFICES ASSUME NEW c \in StoredNow
      PROVE  /\ archive'[c] # "absent"
             /\ library.versions[c].status \in {"parsing", "indexed", "retry"} =>
                   library.versions[c].document # 0
             /\ library.versions[c].document # 0 => Holds(library.versions[c].document, c)'
             /\ library.versions[c].status = "indexed" =>
                   \E d \in 1..Len(index') : Holds(d, c)' /\ Res!Parsed(d)'
             /\ library.versions[c].supersedes \in StoredNow \union {0}
             /\ library.versions[c].supersedes # c
             /\ library.versions[c].supersedes # 0 =>
                   library.versions[library.versions[c].supersedes].supersedes # c
    BY <1>1, Zenon DEF VersionsFit
  <2>1. archive'[c] # "absent" BY <1>0 DEF VersionsFit, Grows
  <2>2. library.versions[c].document # 0 => Holds(library.versions[c].document, c)'
    <3>1. library.versions[c].document # 0 => Holds(library.versions[c].document, c)
      BY <1>0 DEF VersionsFit
    <3>2. QED BY <1>2, <3>1
  <2>3. library.versions[c].status = "indexed" =>
           \E d \in 1..Len(index') : Holds(d, c)' /\ Res!Parsed(d)'
    BY <1>0, <1>3, <1>4 DEF VersionsFit
  <2>4. QED BY <1>0, <2>1, <2>2, <2>3 DEF VersionsFit
<1>6. PacketsFit' BY <1>0, <1>1 DEF PacketsFit
<1>7. QED BY <1>1, <1>5, <1>6

\* What was answered, exported and restored stays true as the library grows.
LEMMA OutputsFit ==
    ASSUME LibraryInv, LibraryType', Grows, PacketsFit'
    PROVE  /\ context' = context => ContextFits'
           /\ dump' = dump => DumpFits'
           /\ copy' = copy => CopyFits'
<1>1. LibraryType /\ PacketsFit /\ ContextFits /\ DumpFits /\ CopyFits BY DEF LibraryInv
<1>2. \A k \in library.claims : library'.packets[k] = library.packets[k]
  BY <1>1 DEF PacketsFit, Grows, Res!Packets
<1>3. \A d, c : Holds(d, c) => Holds(d, c)' BY <1>1, HoldsKept
<1>4. context' = context => ContextFits' BY <1>1, <1>2, <1>3 DEF ContextFits, Grows
<1>5. dump' = dump => DumpFits' BY <1>1, <1>2 DEF DumpFits, Grows, LibraryType, Libraries
<1>6. copy' = copy => CopyFits' BY <1>1 DEF CopyFits, Grows, Res!Packets
<1>7. QED BY <1>4, <1>5, <1>6

\* One session moves on, the library grows, and the invariant holds if it holds of what
\* the session has touched.
LEMMA VisitMoves ==
    ASSUME LibraryInv, NEW s \in Callers, LibraryType', Grows,
           \A u \in Callers \ {s} : session'[u] = session[u],
           \A u \in Callers \ {s} : session[u].pc = "parse" =>
              /\ index'[session[u].document].run = "new"
              /\ session'[s].pc = "parse" => session'[s].document # session[u].document,
           VisitFits(s)', VersionsFit', PacketsFit', ContextFits', DumpFits', CopyFits'
    PROVE  LibraryInv'
<1>1. \A u \in Callers : VisitFits(u)'
  <2>1. ASSUME NEW u \in Callers, u # s PROVE VisitFits(u)' BY <2>1, OthersFit
  <2>2. QED BY <2>1
<1>2. ParsesApart' BY DEF LibraryInv, ParsesApart
<1>3. QED BY <1>1, <1>2 DEF LibraryInv


\* A session moves on and touches nothing but its own entry.
LEMMA VisitTurns ==
    ASSUME LibraryInv, NEW s \in Callers, NEW x \in Visits,
           session' = [session EXCEPT ![s] = x], x.pc # "parse", uses' \in 0..MaxUses,
           UNCHANGED <<archive, library, index, context, dump, copy>>, VisitFits(s)'
    PROVE  LibraryInv'
<1>0. /\ LibraryType /\ VersionsFit /\ PacketsFit /\ ContextFits /\ DumpFits /\ CopyFits
      /\ \A u \in Callers : VisitFits(u)
  BY DEF LibraryInv
<1>1. session' \in [Callers -> Visits] /\ session'[s] = x
      /\ \A u \in Callers \ {s} : session'[u] = session[u]
  BY <1>0 DEF LibraryType
<1>2. LibraryType' BY <1>0, <1>1 DEF LibraryType
<1>3. StoredNow' = StoredNow BY DEF StoredNow
<1>4. Grows BY <1>0, <1>3 DEF Grows, LibraryType, Res!Parsed
<1>5. VersionsFit' /\ PacketsFit' /\ ContextFits' /\ DumpFits' /\ CopyFits'
  BY <1>0, <1>2, <1>3, <1>4, OverlayKept, OutputsFit
<1>6. \A u \in Callers \ {s} : session[u].pc = "parse" => index'[session[u].document].run = "new"
  BY <1>0 DEF VisitFits
<1>7. QED BY <1>1, <1>2, <1>4, <1>5, <1>6, VisitMoves

\* A session that leaves, where nothing else is touched, has nothing to hold to.
LEMMA VisitEnds ==
    ASSUME LibraryInv, NEW s \in Callers, Res!Leave(s), uses' \in 0..MaxUses,
           UNCHANGED <<archive, library, index, context, dump, copy>>
    PROVE  LibraryInv'
<1>1. session' = [session EXCEPT ![s] = Res!IdleSession] BY DEF Res!Leave
<1>2. session'[s] = Res!IdleSession BY <1>1 DEF LibraryInv, LibraryType
<1>3. VisitFits(s)' BY <1>2, IdleTyped DEF VisitFits
<1>4. QED BY <1>1, <1>3, IdleTyped, VisitTurns

\* A session that goes on with what it has, where nothing else is touched.
LEMMA VisitGoes ==
    ASSUME LibraryInv, NEW s \in Callers, NEW pc \in Desks, Res!Goto(s, pc), uses' \in 0..MaxUses,
           pc \in {"current", "rebuild", "failed"},
           pc = "current" => session[s].pc = "existing",
           pc = "failed" => session[s].pc \in {"upload", "parse"},
           UNCHANGED <<archive, library, index, context, dump, copy>>
    PROVE  LibraryInv'
<1> DEFINE x == [session[s] EXCEPT !.pc = pc]
<1>1. session' = [session EXCEPT ![s] = x] BY DEF Res!Goto
<1>2. session[s] \in Visits /\ VisitFits(s) /\ session \in [Callers -> Visits]
  BY DEF LibraryInv, LibraryType
<1>3. x \in Visits BY <1>2, VisitFields
<1>4. x.pc = pc /\ x.content = session[s].content /\ x.todo = session[s].todo BY <1>2 DEF Visits
<1> HIDE DEF x
<1>5. session'[s] = x BY <1>1, <1>2
<1>6. VisitFits(s)'
  <2>1. StoredNow' = StoredNow BY DEF StoredNow
  <2>2. QED BY <1>2, <1>4, <1>5, <2>1 DEF VisitFits
<1>7. QED BY <1>1, <1>3, <1>4, <1>6, VisitTurns

\* A use that is counted.
LEMMA UseCounts == LibraryInv /\ Res!Use => uses' \in 0..MaxUses
BY RecordConstants DEF LibraryInv, LibraryType, Res!Use, Res!LibraryConstants

\* The first steps of an import: the bytes are archived, the overlay is looked at.
LEMMA Imports ==
    ASSUME LibraryInv, NEW s \in Callers,
           Res!PutStream(s) \/ Res!FindExisting(s) \/ Res!ReadCurrent(s)
    PROVE  LibraryInv'
<1>0. /\ LibraryType /\ VersionsFit /\ PacketsFit /\ ContextFits /\ DumpFits /\ CopyFits
      /\ (\A u \in Callers : VisitFits(u)) /\ session[s] \in Visits
  BY DEF LibraryInv, LibraryType
<1>1. ASSUME Res!PutStream(s) PROVE LibraryInv'
  <2>1. /\ uses' \in 0..MaxUses /\ session[s].pc = "idle"
        /\ UNCHANGED <<library, index, context, dump, copy>>
    BY <1>1, UseCounts DEF Res!PutStream, Res!Call, Res!At
  <2>2. CASE UNCHANGED <<archive, session>>
    <3>1. session' = [session EXCEPT ![s] = session[s]] BY <1>0, <2>2 DEF LibraryType
    <3>2. VisitFits(s)' BY <1>0, <2>1, <2>2 DEF VisitFits, StoredNow
    <3>3. QED BY <1>0, <2>1, <2>2, <3>1, <3>2, VisitTurns
  <2>3. CASE ~UNCHANGED <<archive, session>>
    <3>1. PICK c \in SourceTexts :
             /\ archive[c] # "corrupt" /\ archive' = [archive EXCEPT ![c] = "ok"]
             /\ session' = [session EXCEPT ![s].pc = "existing", ![s].content = c]
      BY <1>1, <2>3 DEF Res!PutStream
    <3> DEFINE x == [session[s] EXCEPT !.pc = "existing", !.content = c]
    <3>2. x \in Visits
      <4>1. [session[s] EXCEPT !.pc = "existing"] \in Visits BY <1>0, VisitFields DEF Desks
      <4>2. QED BY <4>1, VisitFields, Zenon
    <3>3. x.pc = "existing" /\ x.content = c /\ x.todo = session[s].todo BY <1>0 DEF Visits
    <3>4. session' = [session EXCEPT ![s] = x] BY <3>1
    <3> HIDE DEF x
    <3>5. /\ session' \in [Callers -> Visits] /\ session'[s] = x
          /\ \A u \in Callers \ {s} : session'[u] = session[u]
      BY <1>0, <3>2, <3>4 DEF LibraryType
    <3>6. /\ archive' \in [SourceTexts -> {"absent", "ok", "corrupt"}] /\ archive'[c] # "absent"
          /\ \A b \in SourceTexts : /\ archive[b] # "absent" => archive'[b] # "absent"
                                    /\ archive[b] = "corrupt" => archive'[b] = "corrupt"
      BY <1>0, <3>1 DEF LibraryType
    <3>7. LibraryType' /\ StoredNow' = StoredNow
      BY <1>0, <2>1, <3>5, <3>6 DEF LibraryType, StoredNow
    <3>8. Grows BY <1>0, <2>1, <3>6, <3>7 DEF Grows, LibraryType, Res!Parsed
    <3>9. VersionsFit' /\ PacketsFit' /\ ContextFits' /\ DumpFits' /\ CopyFits'
      BY <2>1, <3>7, <3>8, OverlayKept, OutputsFit
    <3>10. VisitFits(s)' BY <1>0, <3>3, <3>5, <3>6, <3>7 DEF VisitFits
    <3>11. \A u \in Callers \ {s} : session[u].pc = "parse" => index'[session[u].document].run = "new"
      BY <1>0, <2>1 DEF VisitFits
    <3>12. QED BY <3>3, <3>5, <3>7, <3>8, <3>9, <3>10, <3>11, VisitMoves
  <2>4. QED BY <2>2, <2>3
<1>2. ASSUME Res!FindExisting(s) PROVE LibraryInv' BY <1>0, <1>2, VisitEnds, VisitGoes
     DEF Res!FindExisting, Res!At, LibraryType, Desks
<1>3. ASSUME Res!ReadCurrent(s) PROVE LibraryInv'
  <2>1. /\ session[s].pc = "current"
        /\ session' = [session EXCEPT ![s].pc = "insert", ![s].seen = library.current]
        /\ UNCHANGED <<archive, library, index, context, dump, copy, uses>>
    BY <1>3 DEF Res!ReadCurrent, Res!At
  <2> DEFINE seen == library.current
             x == [session[s] EXCEPT !.pc = "insert", !.seen = seen]
  <2>2. x \in Visits
    <3>1. [session[s] EXCEPT !.pc = "insert"] \in Visits BY <1>0, VisitFields DEF Desks
    <3>2. seen \in SourceTexts \union {0} BY <1>0 DEF LibraryType, Libraries
    <3> HIDE DEF seen
    <3>3. QED BY <3>1, <3>2, VisitFields, Zenon
  <2>3. x.pc = "insert" /\ x.seen = seen /\ x.content = session[s].content /\ x.todo = session[s].todo
    BY <1>0 DEF Visits
  <2>4. session' = [session EXCEPT ![s] = x] BY <2>1
  <2> HIDE DEF x
  <2>5. session'[s] = x BY <1>0, <2>4 DEF LibraryType
  <2>6. VisitFits(s)'
    <3>1. StoredNow' = StoredNow /\ seen \in StoredNow \union {0}
      BY <1>0, <2>1 DEF StoredNow, PacketsFit
    <3>2. QED BY <1>0, <2>1, <2>3, <2>5, <3>1 DEF VisitFits
  <2>7. QED BY <1>0, <2>1, <2>2, <2>3, <2>4, <2>6, VisitTurns DEF LibraryType
<1>4. QED BY <1>1, <1>2, <1>3


\* One version is written: a new one supersedes what is stored, an old one keeps what
\* it supersedes, and its mapping is to its own bytes.
LEMMA VersionWrites ==
    ASSUME LibraryInv, NEW s \in Callers, NEW c \in SourceTexts, NEW v \in Versions,
           library' \in Libraries, library'.versions[c] = v,
           \A b \in SourceTexts \ {c} : library'.versions[b] = library.versions[b],
           library'.packets = library.packets, library'.claims = library.claims,
           library'.evidence = library.evidence,
           library'.current \in StoredNow \union {0, c},
           archive[c] # "absent", v.status # "none",
           v.status \in {"parsing", "indexed", "retry"} => v.document # 0,
           v.document # 0 => Holds(v.document, c),
           v.status = "indexed" => \E d \in 1..Len(index) : Holds(d, c) /\ Res!Parsed(d),
           c \in StoredNow => /\ v.supersedes = library.versions[c].supersedes
                              /\ library.versions[c].document # 0 => v.document # 0,
           c \notin StoredNow => v.supersedes \in StoredNow \union {0},
           session' \in [Callers -> Visits], session'[s].pc # "parse",
           \A u \in Callers \ {s} : session'[u] = session[u],
           UNCHANGED <<archive, index, context, dump, copy>>, uses' \in 0..MaxUses,
           StoredNow' = StoredNow \union {c} => VisitFits(s)'
    PROVE  LibraryInv'
<1>0. /\ LibraryType /\ VersionsFit /\ PacketsFit /\ \A u \in Callers : VisitFits(u)
      /\ StoredNow \subseteq SourceTexts
  BY DEF LibraryInv, StoredNow, Res!Stored
<1>1. StoredNow' = StoredNow \union {c} BY DEF StoredNow, Res!Stored
<1>2. LibraryType' BY <1>0 DEF LibraryType
<1>3. Grows BY <1>0, <1>1 DEF Grows, LibraryType, Res!Parsed
<1>4. \A d, b : (Holds(d, b)' <=> Holds(d, b)) /\ (Res!Parsed(d)' <=> Res!Parsed(d))
  BY DEF Holds, Res!UploadOf, Res!Parsed
<1>5. VersionsFit'
  <2> SUFFICES ASSUME NEW b \in StoredNow \union {c}
      PROVE  /\ archive'[b] # "absent"
             /\ library'.versions[b].status \in {"parsing", "indexed", "retry"} =>
                   library'.versions[b].document # 0
             /\ library'.versions[b].document # 0 => Holds(library.versions[b].document, b)'
             /\ library'.versions[b].status = "indexed" =>
                   \E d \in 1..Len(index') : Holds(d, b)' /\ Res!Parsed(d)'
             /\ library'.versions[b].supersedes \in StoredNow \union {0, c}
             /\ library'.versions[b].supersedes # b
             /\ library'.versions[b].supersedes # 0 =>
                   library'.versions[library'.versions[b].supersedes].supersedes # b
    BY <1>1 DEF VersionsFit
  <2>0. 0 \notin SourceTexts BY RecordConstants DEF Res!LibraryConstants
  <2>1. \A a \in StoredNow : library'.versions[a].supersedes = library.versions[a].supersedes
    BY <1>0
  <2>2. \A a \in StoredNow : library.versions[a].supersedes \in StoredNow \union {0}
    BY <1>0 DEF VersionsFit
  <2>3. CASE b \in StoredNow
    <3>1. /\ library'.versions[b].supersedes \in StoredNow \union {0}
          /\ library'.versions[b].supersedes # b
          /\ library'.versions[b].supersedes # 0 =>
                library'.versions[library'.versions[b].supersedes].supersedes # b
      BY <1>0, <2>1, <2>2, <2>3 DEF VersionsFit
    <3>2. CASE b = c BY <1>4, <3>1, <3>2
    <3>3. CASE b # c BY <1>0, <1>4, <2>3, <3>1, <3>3 DEF VersionsFit
    <3>4. QED BY <3>2, <3>3
  <2>4. CASE b \notin StoredNow
    <3>1. b = c /\ v.supersedes \in StoredNow \union {0} BY <2>4
    <3>2. v.supersedes # 0 => library'.versions[v.supersedes].supersedes # c
      BY <2>0, <2>1, <2>2, <2>4, <3>1
    <3>3. v.supersedes # c BY <2>0, <2>4, <3>1
    <3>4. QED BY <1>4, <3>1, <3>2, <3>3
  <2>5. QED BY <2>3, <2>4
<1>6. PacketsFit'
  <2>1. Res!Packets(library)' = Res!Packets(library) BY DEF Res!Packets
  <2>2. QED BY <1>0, <1>1, <2>1 DEF PacketsFit
<1>7. \A u \in Callers \ {s} : session[u].pc = "parse" => index'[session[u].document].run = "new"
  BY <1>0 DEF VisitFits
<1>8. QED BY <1>1, <1>2, <1>3, <1>5, <1>6, <1>7, OutputsFit, VisitMoves

\* A version is inserted, or found inserted meanwhile and put back to stored.
LEMMA Inserts ==
    ASSUME LibraryInv, NEW s \in Callers, Res!InsertVersion(s)
    PROVE  LibraryInv'
<1>0. /\ LibraryType /\ VersionsFit /\ PacketsFit /\ VisitFits(s) /\ session[s] \in Visits
      /\ StoredNow \subseteq SourceTexts
  BY DEF LibraryInv, LibraryType, StoredNow, Res!Stored
<1> DEFINE c == session[s].content
           seen == session[s].seen
           up == IF seen # 0 THEN seen ELSE library.current
           v1 == [library.versions[c] EXCEPT !.status = "stored"]
           v2 == [status |-> "stored", document |-> 0, supersedes |-> up]
           v == IF c \in StoredNow THEN v1 ELSE v2
<1>1. /\ session[s].pc = "insert" /\ UNCHANGED <<archive, index, context, dump, copy, uses>>
      /\ library' = Res!AddSourceVersion(c, seen)
      /\ Res!Goto(s, "upload") \/ Res!Leave(s)
  BY DEF Res!InsertVersion, Res!At
<1>2. c \in SourceTexts /\ archive[c] # "absent" /\ seen \in StoredNow \union {0}
  BY <1>0, <1>1 DEF VisitFits
<1>3. v1 \in Versions /\ v2 \in Versions
  <2>0. 0 \in 0..MaxDocuments BY RecordConstants DEF Res!LibraryConstants
  <2>1. up \in SourceTexts \union {0}
    <3>1. library.current \in SourceTexts \union {0} /\ seen \in SourceTexts \union {0}
      BY <1>0, <1>2 DEF PacketsFit
    <3>2. QED BY <3>1
  <2> HIDE DEF up
  <2>2. library.versions[c] \in Versions BY <1>0, <1>2 DEF LibraryType, Libraries
  <2>3. v1 \in Versions BY <2>2 DEF Versions, Res!Ingestion
  <2>4. v2 \in Versions BY <2>0, <2>1 DEF Versions, Res!Ingestion
  <2>5. QED BY <2>3, <2>4
<1>4. /\ v.status = "stored" /\ (v.document # 0 => Holds(v.document, c))
      /\ c \in StoredNow => /\ v.supersedes = library.versions[c].supersedes
                            /\ library.versions[c].document # 0 => v.document # 0
      /\ c \notin StoredNow => v.supersedes \in StoredNow \union {0}
  <2>1. CASE c \in StoredNow
    <3>1. library.versions[c] \in Versions BY <1>0, <1>2 DEF LibraryType, Libraries
    <3>2. v = v1 BY <2>1
    <3>3. v1.status = "stored" /\ v1.document = library.versions[c].document
          /\ v1.supersedes = library.versions[c].supersedes
      BY <3>1 DEF Versions
    <3>4. QED BY <1>0, <2>1, <3>2, <3>3 DEF VersionsFit
  <2>2. CASE c \notin StoredNow BY <1>0, <1>2, <2>2 DEF PacketsFit
  <2>3. QED BY <2>1, <2>2
<1>5. /\ library' \in Libraries /\ library'.versions[c] = v
      /\ \A b \in SourceTexts \ {c} : library'.versions[b] = library.versions[b]
      /\ library'.packets = library.packets /\ library'.claims = library.claims
      /\ library'.evidence = library.evidence /\ library'.current \in StoredNow \union {0, c}
  <2>1. CASE c \in StoredNow
    <3>1. library' = [library EXCEPT !.versions[c] = v1]
      BY <1>1, <2>1 DEF Res!AddSourceVersion, StoredNow
    <3> HIDE DEF v1
    <3>2. QED BY <1>0, <1>2, <1>3, <2>1, <3>1 DEF LibraryType, Libraries, PacketsFit
  <2>2. CASE c \notin StoredNow
    <3>1. library' = [library EXCEPT !.current = c, !.versions[c] = v2]
      BY <1>1, <2>2 DEF Res!AddSourceVersion, StoredNow
    <3> HIDE DEF v2
    <3>2. QED BY <1>0, <1>2, <1>3, <2>2, <3>1 DEF LibraryType, Libraries
  <2>3. QED BY <2>1, <2>2
<1> HIDE DEF v, v1, v2, up
<1>6. /\ session' \in [Callers -> Visits] /\ session'[s].pc \in {"upload", "idle"}
      /\ session'[s].pc = "upload" => session'[s].content = c
      /\ session'[s].todo \subseteq session[s].todo
      /\ \A u \in Callers \ {s} : session'[u] = session[u]
  <2>1. CASE Res!Leave(s) BY <1>0, <2>1, IdleTyped DEF Res!Leave, LibraryType
  <2>2. CASE Res!Goto(s, "upload")
    <3> DEFINE x == [session[s] EXCEPT !.pc = "upload"]
    <3>1. x \in Visits BY <1>0, VisitFields DEF Desks
    <3>2. x.pc = "upload" /\ x.content = c /\ x.todo = session[s].todo BY <1>0 DEF Visits
    <3>3. session' = [session EXCEPT ![s] = x] BY <2>2 DEF Res!Goto
    <3> HIDE DEF x
    <3>4. QED BY <1>0, <3>1, <3>2, <3>3 DEF LibraryType
  <2>3. QED BY <1>1, <2>1, <2>2
<1>7. ASSUME StoredNow' = StoredNow \union {c} PROVE VisitFits(s)' BY <1>0, <1>6, <1>7 DEF VisitFits
<1>8. uses' \in 0..MaxUses /\ v \in Versions /\ session'[s].pc # "parse"
      /\ v.status \notin {"none", "parsing", "indexed", "retry"}
  BY <1>0, <1>1, <1>3, <1>4, <1>6 DEF LibraryType, v
<1> HIDE DEF c, seen
<1>9. QED BY <1>1, <1>2, <1>4, <1>5, <1>6, <1>7, <1>8, VersionWrites

\* A later step of an import or rebuild writes the status, and maybe the document.
LEMMA VersionUpdates ==
    ASSUME LibraryInv, NEW s \in Callers,
           Res!UpdateMapping(s) \/ Res!MarkFailed(s) \/ Res!ReconcileWrite(s)
    PROVE  LibraryInv'
<1>0. /\ LibraryType /\ VersionsFit /\ PacketsFit /\ VisitFits(s) /\ session[s] \in Visits
      /\ StoredNow \subseteq SourceTexts
  BY DEF LibraryInv, LibraryType, StoredNow, Res!Stored
<1> DEFINE c == session[s].content
           old == library.versions[c]
<1>1. /\ session[s].pc \in {"map", "failed", "reconciled"}
      /\ UNCHANGED <<archive, index, context, dump, copy, uses>>
  BY DEF Res!UpdateMapping, Res!MarkFailed, Res!ReconcileWrite, Res!At
<1>2. c \in StoredNow /\ c \in SourceTexts /\ archive[c] # "absent" /\ old \in Versions
  BY <1>0, <1>1 DEF VisitFits, VersionsFit, LibraryType, Libraries
<1>3. \E v \in Versions :
         /\ library' = [library EXCEPT !.versions[c] = v]
         /\ v.supersedes = old.supersedes /\ (old.document # 0 => v.document # 0)
         /\ v.status # "none" /\ (v.status \in {"parsing", "indexed", "retry"} => v.document # 0)
         /\ v.document # 0 => Holds(v.document, c)
         /\ v.status = "indexed" => \E d \in 1..Len(index) : Holds(d, c) /\ Res!Parsed(d)
         /\ session'[s].pc = "reconcile" => v.document # 0
  <2>1. CASE Res!UpdateMapping(s)
    <3> DEFINE d == session[s].document
               v == [old EXCEPT !.document = d, !.status = "parsing"]
    <3>1. library' = [library EXCEPT !.versions[c] = v]
      BY <1>0, <1>2, <2>1 DEF Res!UpdateMapping, LibraryType, Libraries
    <3>2. d \in 0..MaxDocuments /\ Holds(d, c) /\ d # 0
      BY <1>0, <2>1 DEF VisitFits, Res!UpdateMapping, Res!At, Holds, Visits
    <3> HIDE DEF d
    <3>3. v \in Versions /\ v.supersedes = old.supersedes /\ v.document = d /\ v.status = "parsing"
      BY <1>2, <3>2 DEF Versions, Res!Ingestion
    <3> HIDE DEF v
    <3>4. QED BY <3>1, <3>2, <3>3
  <2>2. CASE Res!MarkFailed(s)
    <3> DEFINE v == [old EXCEPT !.status = "failed"]
    <3>1. library' = [library EXCEPT !.versions[c] = v] /\ session'[s].pc = "idle"
      BY <1>0, <1>2, <2>2, IdleTyped DEF Res!MarkFailed, LibraryType, Libraries, Res!Leave
    <3>2. v \in Versions /\ v.supersedes = old.supersedes /\ v.document = old.document
          /\ v.status = "failed"
      BY <1>2 DEF Versions, Res!Ingestion
    <3> HIDE DEF v
    <3>3. QED BY <1>0, <1>2, <3>1, <3>2 DEF VersionsFit
  <2>3. CASE Res!ReconcileWrite(s)
    <3> DEFINE status == session[s].status
               v == [old EXCEPT !.status = status]
    <3>1. library' = [library EXCEPT !.versions[c] = v] /\ session[s].pc = "reconciled"
      BY <1>0, <1>2, <2>3 DEF Res!ReconcileWrite, LibraryType, Libraries, Res!At
    <3>2. status \in {"indexed", "failed", "retry", "parsing"} BY <1>0, <3>1 DEF VisitFits
    <3> HIDE DEF status
    <3>3. v \in Versions /\ v.supersedes = old.supersedes /\ v.document = old.document
          /\ v.status = status
      BY <1>2, <3>2 DEF Versions, Res!Ingestion
    <3> HIDE DEF v
    <3>4. old.document # 0 BY <1>0, <3>1 DEF VisitFits
    <3>5. status = "indexed" => \E d \in 1..Len(index) : Holds(d, c) /\ Res!Parsed(d)
      BY <1>0, <3>1 DEF VisitFits, status
    <3>6. old.document # 0 => Holds(old.document, c) BY <1>0, <1>2 DEF VersionsFit
    <3>7. QED BY <3>1, <3>2, <3>3, <3>4, <3>5, <3>6
  <2>4. QED BY <2>1, <2>2, <2>3
<1>4. PICK v \in Versions :
         /\ library' = [library EXCEPT !.versions[c] = v]
         /\ v.supersedes = old.supersedes /\ (old.document # 0 => v.document # 0)
         /\ v.status # "none" /\ (v.status \in {"parsing", "indexed", "retry"} => v.document # 0)
         /\ v.document # 0 => Holds(v.document, c)
         /\ v.status = "indexed" => \E d \in 1..Len(index) : Holds(d, c) /\ Res!Parsed(d)
         /\ session'[s].pc = "reconcile" => v.document # 0
  BY <1>3
<1>5. /\ library' \in Libraries /\ library'.versions[c] = v
      /\ \A b \in SourceTexts \ {c} : library'.versions[b] = library.versions[b]
      /\ library'.packets = library.packets /\ library'.claims = library.claims
      /\ library'.evidence = library.evidence /\ library'.current \in StoredNow \union {0, c}
  BY <1>0, <1>2, <1>4 DEF LibraryType, Libraries, PacketsFit
<1>6. /\ session' \in [Callers -> Visits] /\ session'[s].pc \in {"reconcile", "rebuild", "idle"}
      /\ session'[s].pc = "reconcile" => session'[s].content = c
      /\ session'[s].todo \subseteq session[s].todo
      /\ \A u \in Callers \ {s} : session'[u] = session[u]
  <2>1. CASE Res!Leave(s) BY <1>0, <2>1, IdleTyped DEF Res!Leave, LibraryType
  <2>2. ASSUME NEW pc \in {"reconcile", "rebuild"}, Res!Goto(s, pc)
        PROVE  /\ session' \in [Callers -> Visits]
               /\ session'[s].pc \in {"reconcile", "rebuild", "idle"}
               /\ session'[s].pc = "reconcile" => session'[s].content = c
               /\ session'[s].todo \subseteq session[s].todo
               /\ \A u \in Callers \ {s} : session'[u] = session[u]
    <3> DEFINE x == [session[s] EXCEPT !.pc = pc]
    <3>1. x \in Visits BY <1>0, VisitFields DEF Desks
    <3>2. x.pc = pc /\ x.content = c /\ x.todo = session[s].todo BY <1>0 DEF Visits
    <3>3. session' = [session EXCEPT ![s] = x] BY <2>2 DEF Res!Goto
    <3> HIDE DEF x
    <3>4. QED BY <1>0, <3>1, <3>2, <3>3 DEF LibraryType
  <2>3. QED BY <2>1, <2>2 DEF Res!UpdateMapping, Res!MarkFailed, Res!ReconcileWrite
<1>7. ASSUME StoredNow' = StoredNow \union {c} PROVE VisitFits(s)'
  BY <1>0, <1>2, <1>4, <1>5, <1>6, <1>7 DEF VisitFits
<1>8. uses' \in 0..MaxUses /\ session'[s].pc # "parse" BY <1>0, <1>1, <1>6 DEF LibraryType
<1>9. v.supersedes = library.versions[c].supersedes
      /\ (library.versions[c].document # 0 => v.document # 0)
  BY <1>4
<1> HIDE DEF c, old
<1>10. QED BY <1>1, <1>2, <1>4, <1>5, <1>6, <1>7, <1>8, <1>9, VersionWrites


\* A rebuild starts, takes up the next version, and looks its document up.
LEMMA Rebuilds ==
    ASSUME LibraryInv, NEW s \in Callers,
           Res!RebuildIndex(s) \/ Res!RebuildNext(s) \/ Res!ReconcileRead(s)
    PROVE  LibraryInv'
<1>0. /\ LibraryType /\ VersionsFit /\ VisitFits(s)
      /\ session[s] \in Visits /\ StoredNow \subseteq SourceTexts
  BY DEF LibraryInv, LibraryType, StoredNow, Res!Stored
<1>1. UNCHANGED <<archive, library, index, context, dump, copy>> /\ StoredNow' = StoredNow
      /\ uses' \in 0..MaxUses
  BY <1>0, UseCounts DEF Res!RebuildIndex, Res!RebuildNext, Res!ReconcileRead, Res!Call, StoredNow,
     LibraryType
<1>2. ASSUME Res!RebuildIndex(s) PROVE LibraryInv'
  <2> DEFINE todo == StoredNow
             x == [session[s] EXCEPT !.pc = "rebuild", !.rebuild = TRUE, !.todo = todo]
  <2>1. session' = [session EXCEPT ![s] = x] BY <1>2 DEF Res!RebuildIndex, StoredNow
  <2>2. [session[s] EXCEPT !.pc = "rebuild"] \in Visits BY <1>0, VisitFields DEF Desks
  <2>3. [session[s] EXCEPT !.pc = "rebuild", !.rebuild = TRUE] \in Visits
    BY <2>2, VisitFields, Zenon
  <2> HIDE DEF todo
  <2>4. x \in Visits BY <1>0, <2>3, VisitFields, Zenon DEF todo
  <2>5. x.pc = "rebuild" /\ x.todo = todo BY <1>0 DEF Visits
  <2> HIDE DEF x
  <2>6. session'[s] = x BY <1>0, <2>1 DEF LibraryType
  <2>7. VisitFits(s)' BY <1>1, <2>5, <2>6 DEF VisitFits, todo
  <2>8. QED BY <1>1, <2>1, <2>4, <2>5, <2>7, VisitTurns
<1>3. ASSUME Res!RebuildNext(s) PROVE LibraryInv'
  <2>1. CASE session[s].todo = {} BY <1>1, <1>3, <2>1, VisitEnds DEF Res!RebuildNext
  <2>2. CASE session[s].todo # {}
    <3>1. PICK c \in session[s].todo :
             session' = [session EXCEPT ![s].todo = @ \ {c}, ![s].content = c,
                           ![s].pc = IF Res!VerifyArchive(c) THEN "upload" ELSE "rebuild"]
      BY <1>3, <2>2 DEF Res!RebuildNext
    <3> DEFINE todo == session[s].todo \ {c}
               pc == IF Res!VerifyArchive(c) THEN "upload" ELSE "rebuild"
               x == [session[s] EXCEPT !.todo = todo, !.content = c, !.pc = pc]
    <3>2. c \in StoredNow /\ todo \subseteq StoredNow /\ pc \in {"upload", "rebuild"}
      BY <1>0 DEF VisitFits
    <3>3. session' = [session EXCEPT ![s] = x] BY <3>1
    <3> HIDE DEF todo, pc
    <3>4. todo \in SUBSET SourceTexts /\ c \in SourceTexts \union {0} /\ pc \in Desks
      BY <1>0, <3>2 DEF Desks
    <3>5. [session[s] EXCEPT !.todo = todo] \in Visits BY <1>0, <3>4, VisitFields, Zenon
    <3>6. [session[s] EXCEPT !.todo = todo, !.content = c] \in Visits
      BY <3>4, <3>5, VisitFields, Zenon
    <3>7. x \in Visits BY <3>4, <3>6, VisitFields, Zenon
    <3>8. x.pc = pc /\ x.todo = todo /\ x.content = c BY <1>0 DEF Visits
    <3> HIDE DEF x
    <3>9. session'[s] = x BY <1>0, <3>3 DEF LibraryType
    <3>10. VisitFits(s)' BY <1>1, <3>2, <3>8, <3>9 DEF VisitFits
    <3>11. QED BY <1>1, <3>2, <3>3, <3>7, <3>8, <3>10, VisitTurns
  <2>3. QED BY <2>1, <2>2
<1>4. ASSUME Res!ReconcileRead(s) PROVE LibraryInv'
  <2> DEFINE c == session[s].content
             d == library.versions[c].document
  <2>1. session[s].pc = "reconcile" /\ c \in StoredNow /\ d # 0 /\ Holds(d, c)
    BY <1>0, <1>4 DEF Res!ReconcileRead, Res!At, VisitFits, VersionsFit
  <2>2. CASE d \in Res!ListDocuments
    <3> DEFINE status == Res!ReconciledStatus(index[d].run, index[d].full)
               x == [session[s] EXCEPT !.pc = "reconciled", !.document = d, !.status = status]
    <3>1. session' = [session EXCEPT ![s] = x] BY <1>4, <2>2 DEF Res!ReconcileRead
    <3>2. d \in 0..MaxDocuments /\ d \in 1..Len(index) /\ index[d] \in Documents
      <4>1. d \in 1..Len(index) /\ index \in Seq(Documents) /\ Len(index) \in Nat
        BY <1>0, <2>1 DEF Holds, LibraryType
      <4>2. MaxDocuments \in Nat /\ Len(index) <= MaxDocuments
        BY <1>0, RecordConstants DEF LibraryType, Res!LibraryConstants
      <4> HIDE DEF d
      <4>3. QED BY <4>1, <4>2
    <3>3. /\ status \in {"indexed", "failed", "retry", "parsing"} /\ status \in Res!Ingestion
          /\ status = "indexed" => Res!Parsed(d)
      <4> HIDE DEF d
      <4>1. index[d].full \in BOOLEAN BY <3>2 DEF Documents
      <4>2. QED BY <4>1 DEF Res!ReconciledStatus, Res!Parsed, Res!Ingestion
    <3> HIDE DEF d, status
    <3>4. [session[s] EXCEPT !.pc = "reconciled"] \in Visits BY <1>0, VisitFields DEF Desks
    <3>5. [session[s] EXCEPT !.pc = "reconciled", !.document = d] \in Visits
      BY <3>2, <3>4, VisitFields, Zenon
    <3>6. x \in Visits BY <3>3, <3>5, VisitFields, Zenon
    <3>7. x.pc = "reconciled" /\ x.status = status /\ x.content = c /\ x.todo = session[s].todo
      BY <1>0 DEF Visits
    <3> HIDE DEF x
    <3>8. session'[s] = x BY <1>0, <3>1 DEF LibraryType
    <3>9. VisitFits(s)'
      <4>1. x.status = "indexed" => \E e \in 1..Len(index) : Holds(e, c) /\ Res!Parsed(e)
        BY <2>1, <3>2, <3>3, <3>7
      <4>2. library.versions[x.content].document # 0 BY <2>1, <3>7 DEF d
      <4>3. PICK k : k = c
        OBVIOUS
      <4>4. \A e : (Holds(e, k)' <=> Holds(e, k)) /\ (Res!Parsed(e)' <=> Res!Parsed(e))
        BY <1>1 DEF Holds, Res!UploadOf, Res!Parsed
      <4>5. session'[s].content = k /\ session'[s].pc = "reconciled" /\ session'[s].status = x.status
        BY <3>7, <3>8, <4>3
      <4>6. session'[s].todo \subseteq StoredNow' /\ k \in StoredNow'
        BY <1>0, <1>1, <2>1, <3>7, <3>8, <4>3 DEF VisitFits, StoredNow
      <4>7. library'.versions[k].document # 0 BY <1>1, <2>1, <4>3 DEF d
      <4>8. session'[s].status = "indexed" =>
               \E e \in 1..Len(index') : Holds(e, k)' /\ Res!Parsed(e)'
        BY <1>1, <4>1, <4>3, <4>4, <4>5
      <4>9. session'[s].status \in {"indexed", "failed", "retry", "parsing"} BY <3>3, <3>7, <4>5
      <4> HIDE DEF c
      <4>10. QED BY <4>5, <4>6, <4>7, <4>8, <4>9 DEF VisitFits
    <3>10. QED BY <1>1, <3>1, <3>6, <3>7, <3>9, VisitTurns
  <2>3. CASE d \notin Res!ListDocuments BY <1>1, <1>4, <2>3, VisitGoes DEF Res!ReconcileRead, Desks
  <2>4. QED BY <2>2, <2>3
<1>5. QED BY <1>2, <1>3, <1>4

\* A packet is offered, passages are retrieved: nothing is written yet.
LEMMA Asks ==
    ASSUME LibraryInv, NEW s \in Callers, Res!Preserve(s) \/ Res!Retrieve(s)
    PROVE  LibraryInv'
<1>0. /\ LibraryType /\ VisitFits(s) /\ session[s] \in Visits /\ StoredNow \subseteq SourceTexts
      /\ VersionsFit
  BY DEF LibraryInv, LibraryType, StoredNow, Res!Stored
<1>1. /\ UNCHANGED <<archive, library, index, context, dump, copy>> /\ StoredNow' = StoredNow
      /\ uses' \in 0..MaxUses /\ session[s].pc = "idle"
  BY UseCounts DEF Res!Preserve, Res!Retrieve, Res!Call, Res!At, StoredNow
<1>2. ASSUME Res!Preserve(s) PROVE LibraryInv'
  <2>1. PICK k \in Keys, d \in Drafts :
           IF k \in Res!Packets(library) THEN UNCHANGED session
           ELSE session' = [session EXCEPT ![s].pc = "preserve", ![s].key = k, ![s].draft = d]
    BY <1>2 DEF Res!Preserve
  <2>2. CASE UNCHANGED session
    <3>1. session' = [session EXCEPT ![s] = session[s]] BY <1>0, <2>2 DEF LibraryType
    <3>2. VisitFits(s)' BY <1>0, <1>1, <2>2 DEF VisitFits
    <3>3. QED BY <1>0, <1>1, <3>1, <3>2, VisitTurns
  <2>3. CASE session' = [session EXCEPT ![s].pc = "preserve", ![s].key = k, ![s].draft = d]
    <3> DEFINE x == [session[s] EXCEPT !.pc = "preserve", !.key = k, !.draft = d]
    <3>1. [session[s] EXCEPT !.pc = "preserve"] \in Visits BY <1>0, VisitFields DEF Desks
    <3>2. [session[s] EXCEPT !.pc = "preserve", !.key = k] \in Visits BY <3>1, VisitFields, Zenon
    <3>3. x \in Visits BY <3>2, VisitFields, Zenon
    <3>4. x.pc = "preserve" /\ x.key = k /\ x.draft = d /\ x.todo = session[s].todo
      BY <1>0 DEF Visits
    <3>5. session' = [session EXCEPT ![s] = x] BY <2>3
    <3> HIDE DEF x
    <3>6. session'[s] = x BY <1>0, <3>5 DEF LibraryType
    <3>7. VisitFits(s)' BY <1>0, <1>1, <3>4, <3>6 DEF VisitFits
    <3>8. QED BY <1>1, <3>3, <3>4, <3>5, <3>7, VisitTurns
  <2>4. QED BY <2>1, <2>2, <2>3
<1>3. ASSUME Res!Retrieve(s) PROVE LibraryInv'
  <2>1. PICK found \in SUBSET (1..Len(index)) :
          session' = [session EXCEPT ![s].pc = "context",
                        ![s].passages = {p \in [content: Res!Stored(library), document: found] :
                                            library.versions[p.content].document = p.document}]
    BY <1>3 DEF Res!Retrieve
  <2> DEFINE ps == {p \in [content: Res!Stored(library), document: found] :
                       library.versions[p.content].document = p.document}
             x == [session[s] EXCEPT !.pc = "context", !.passages = ps]
  <2>2. session' = [session EXCEPT ![s] = x] BY <2>1
  <2>3. \A p \in ps : p \in Passages /\ Holds(p.document, p.content)
    <3> SUFFICES ASSUME NEW p \in ps PROVE p \in Passages /\ Holds(p.document, p.content)
      OBVIOUS
    <3>1. /\ p \in [content: StoredNow, document: found]
          /\ library.versions[p.content].document = p.document
      BY DEF StoredNow
    <3>2. p.content \in StoredNow /\ p.document \in 1..Len(index) BY <3>1
    <3>3. Holds(p.document, p.content) BY <1>0, <3>1, <3>2 DEF VersionsFit
    <3>4. found \subseteq 0..MaxDocuments
      BY <1>0, RecordConstants DEF LibraryType, Res!LibraryConstants
    <3>5. QED BY <1>0, <3>1, <3>3, <3>4 DEF Passages
  <2> HIDE DEF ps
  <2>4. [session[s] EXCEPT !.pc = "context"] \in Visits BY <1>0, VisitFields DEF Desks
  <2>5. ps \in SUBSET Passages BY <2>3
  <2>6. x \in Visits BY <2>4, <2>5, VisitFields, Zenon
  <2>7. x.pc = "context" /\ x.passages = ps /\ x.todo = session[s].todo BY <1>0 DEF Visits
  <2> HIDE DEF x
  <2>8. session'[s] = x BY <1>0, <2>2 DEF LibraryType
  <2>9. VisitFits(s)'
    <3>1. \A p \in ps : Holds(p.document, p.content)' BY <1>1, <2>3 DEF Holds, Res!UploadOf
    <3>2. QED BY <1>0, <1>1, <2>7, <2>8, <3>1 DEF VisitFits
  <2>10. QED BY <1>1, <2>2, <2>6, <2>7, <2>9, VisitTurns
<1>4. QED BY <1>2, <1>3

\* An export reads one table more.
LEMMA TableReads ==
    ASSUME LibraryInv, NEW s \in Callers,
           Res!ExportSources(s) \/ Res!ExportVersions(s) \/ Res!ExportPackets(s)
    PROVE  LibraryInv'
<1>0. LibraryType /\ VisitFits(s) /\ session[s] \in Visits /\ library \in Libraries
  BY DEF LibraryInv, LibraryType
<1>1. UNCHANGED <<archive, library, index, context, dump, copy>> /\ StoredNow' = StoredNow
      /\ uses' \in 0..MaxUses
  BY <1>0, UseCounts DEF Res!ExportSources, Res!ExportVersions, Res!ExportPackets, Res!Call, StoredNow,
     LibraryType
<1>2. \E pc \in {"export_versions", "export_packets", "export_claims"} : \E rows \in Libraries :
         /\ session' = [session EXCEPT ![s] = [session[s] EXCEPT !.pc = pc, !.body = rows]]
         /\ pc = "export_claims" => rows.packets = library.packets
  <2> DEFINE old == session[s].body
  <2>0. old \in Libraries BY <1>0 DEF Visits
  <2>1. CASE Res!ExportSources(s)
    <3> DEFINE b == [old EXCEPT !.current = library.current]
    <3>1. b \in Libraries BY <1>0, <2>0 DEF Libraries
    <3>2. session' = [session EXCEPT ![s] = [session[s] EXCEPT !.pc = "export_versions", !.body = b]]
      BY <1>0, <2>1 DEF Res!ExportSources, Visits, LibraryType
    <3>3. QED BY <3>1, <3>2
  <2>2. CASE Res!ExportVersions(s)
    <3> DEFINE b == [old EXCEPT !.versions = library.versions]
    <3>1. b \in Libraries BY <1>0, <2>0 DEF Libraries
    <3>2. session' = [session EXCEPT ![s] = [session[s] EXCEPT !.pc = "export_packets", !.body = b]]
      BY <1>0, <2>2 DEF Res!ExportVersions, Visits, LibraryType
    <3>3. QED BY <3>1, <3>2
  <2>3. CASE Res!ExportPackets(s)
    <3> DEFINE b == [old EXCEPT !.packets = library.packets]
    <3>1. b \in Libraries /\ b.packets = library.packets BY <1>0, <2>0 DEF Libraries
    <3>2. session' = [session EXCEPT ![s] = [session[s] EXCEPT !.pc = "export_claims", !.body = b]]
      BY <1>0, <2>3 DEF Res!ExportPackets, Visits, LibraryType
    <3>3. QED BY <3>1, <3>2
  <2>4. QED BY <2>1, <2>2, <2>3
<1>3. PICK pc \in {"export_versions", "export_packets", "export_claims"}, rows \in Libraries :
         /\ session' = [session EXCEPT ![s] = [session[s] EXCEPT !.pc = pc, !.body = rows]]
         /\ pc = "export_claims" => rows.packets = library.packets
  BY <1>2
<1> DEFINE x == [session[s] EXCEPT !.pc = pc, !.body = rows]
<1>4. [session[s] EXCEPT !.pc = pc] \in Visits BY <1>0, VisitFields DEF Desks
<1>5. x \in Visits BY <1>4, VisitFields, Zenon
<1>6. x.pc = pc /\ x.body = rows /\ x.todo = session[s].todo BY <1>0 DEF Visits
<1>7. session' = [session EXCEPT ![s] = x] BY <1>3
<1> HIDE DEF x
<1>8. session'[s] = x BY <1>0, <1>7 DEF LibraryType
<1>9. VisitFits(s)' BY <1>0, <1>1, <1>3, <1>6, <1>8 DEF VisitFits
<1>10. QED BY <1>1, <1>5, <1>6, <1>7, <1>9, VisitTurns

\* No session moves, and the overlay and what was answered are left alone.
LEMMA NobodyMoves ==
    ASSUME LibraryInv, LibraryType', Grows, UNCHANGED <<session, library, context, dump, copy>>,
           \A u \in Callers : session[u].pc = "parse" => index'[session[u].document].run = "new"
    PROVE  LibraryInv'
<1>1. \A u \in Callers : VisitFits(u)' BY OthersFit
<1>2. ParsesApart' BY DEF LibraryInv, ParsesApart
<1>3. VersionsFit' /\ PacketsFit' BY OverlayKept
<1>4. ContextFits' /\ DumpFits' /\ CopyFits' BY <1>3, OutputsFit
<1>5. QED BY <1>1, <1>2, <1>3, <1>4 DEF LibraryInv

\* Replacing one document of the index by another of the same bytes.
LEMMA DocumentTurns ==
    ASSUME LibraryType, NEW d \in 1..Len(index), NEW x \in Progress, NEW f \in BOOLEAN,
           index' = [index EXCEPT ![d].run = x, ![d].full = @ \/ f]
    PROVE  /\ index' \in Seq(Documents) /\ Len(index') = Len(index)
           /\ index'[d].content = index[d].content /\ index'[d].intact = index[d].intact
           /\ index'[d].run = x /\ (index[d].full => index'[d].full)
           /\ \A e \in 1..Len(index) : e # d => index'[e] = index[e]
<1>1. index \in Seq(Documents) /\ index[d] \in Documents BY DEF LibraryType
<1> DEFINE g == index[d].full \/ f
           y == [index[d] EXCEPT !.run = x, !.full = g]
<1>0. g \in BOOLEAN /\ (index[d].full => g)
  OBVIOUS
<1>3. index' = [index EXCEPT ![d] = y] BY <1>1 DEF Documents
<1> HIDE DEF g
<1>2. /\ y \in Documents /\ y.content = index[d].content /\ y.intact = index[d].intact
      /\ y.run = x /\ (index[d].full => y.full)
  BY <1>0, <1>1 DEF Documents
<1> HIDE DEF y
<1>4. [index EXCEPT ![d] = y] \in Seq(Documents) /\ Len([index EXCEPT ![d] = y]) = Len(index)
  BY <1>1, <1>2, ExceptSeq
<1>5. [index EXCEPT ![d] = y][d] = y /\ \A e \in 1..Len(index) : e # d => [index EXCEPT ![d] = y][e] = index[e]
  BY <1>1, <1>2, ExceptSeq
<1>6. QED BY <1>2, <1>3, <1>4, <1>5

\* A document put last.
LEMMA DocumentAdded ==
    ASSUME LibraryType, NEW x \in Documents, index' = Append(index, x)
    PROVE  /\ index' \in Seq(Documents) /\ Len(index') = Len(index) + 1
           /\ index'[Len(index) + 1] = x
           /\ \A e \in 1..Len(index) : index'[e] = index[e]
BY DEF LibraryType

\* A version's bytes are uploaded and their parsing started, or the index raises.
LEMMA Uploads ==
    ASSUME LibraryInv, NEW s \in Callers, Res!Upload(s) \/ Res!Parse(s)
    PROVE  LibraryInv'
<1>0. /\ LibraryType /\ VisitFits(s) /\ session[s] \in Visits /\ StoredNow \subseteq SourceTexts
      /\ (\A u \in Callers : VisitFits(u)) /\ Len(index) \in Nat /\ ParsesApart /\ VersionsFit
      /\ MaxDocuments \in Nat /\ Len(index) <= MaxDocuments
  BY RecordConstants DEF LibraryInv, LibraryType, StoredNow, Res!Stored, Res!LibraryConstants
<1>1. UNCHANGED <<archive, library, context, dump, copy>> BY DEF Res!Upload, Res!Parse
<1>2. ASSUME Res!Raised(s), UNCHANGED index PROVE LibraryInv'
  <2>1. session[s].pc \in {"upload", "parse"} /\ uses' \in 0..MaxUses
    BY <1>2, UseCounts DEF Res!Upload, Res!Parse, Res!At, Res!Raised
  <2>2. CASE session[s].rebuild
    <3>1. Res!Goto(s, "rebuild") BY <1>2, <2>2 DEF Res!Raised
    <3>2. QED BY <1>1, <1>2, <2>1, <3>1, VisitGoes DEF Desks
  <2>3. CASE ~session[s].rebuild
    <3>1. Res!Goto(s, "failed") BY <1>2, <2>3 DEF Res!Raised
    <3>2. QED BY <1>1, <1>2, <2>1, <3>1, VisitGoes DEF Desks
  <2>4. QED BY <2>2, <2>3
<1>3. ASSUME Res!Upload(s), ~(Res!Raised(s) /\ UNCHANGED index) PROVE LibraryInv'
  <2> DEFINE c == session[s].content
             new == Res!Document(c)
             n == Len(index) + 1
             x == [session[s] EXCEPT !.pc = "parse", !.document = n]
  <2>1. /\ session[s].pc = "upload" /\ Len(index) < MaxDocuments /\ index' = Append(index, new)
        /\ session' = [session EXCEPT ![s] = x] /\ uses' = uses
    BY <1>3 DEF Res!Upload, Res!At
  <2>2. c \in StoredNow /\ c \in SourceTexts BY <1>0, <2>1 DEF VisitFits
  <2>3. /\ new \in Documents /\ new.content = c /\ new.run = "new"
        /\ new.intact \/ archive[c] = "corrupt"
    <3>1. archive[c] \in {"ok", "corrupt"} BY <1>0, <2>2 DEF VersionsFit, LibraryType
    <3>2. QED BY <2>2, <3>1 DEF Res!Document, Documents, Progress
  <2> HIDE DEF new
  <2>4. /\ index' \in Seq(Documents) /\ Len(index') = n /\ index'[n] = new
        /\ \A e \in 1..Len(index) : index'[e] = index[e]
    BY <1>0, <2>1, <2>3, DocumentAdded
  <2>5. n \in 0..MaxDocuments /\ n \in 1..Len(index') /\ n \notin 1..Len(index) BY <1>0, <2>1, <2>4
  <2> HIDE DEF n
  <2>6. [session[s] EXCEPT !.pc = "parse"] \in Visits BY <1>0, VisitFields DEF Desks
  <2>7. x \in Visits BY <2>5, <2>6, VisitFields, Zenon
  <2>8. x.pc = "parse" /\ x.document = n /\ x.content = c /\ x.todo = session[s].todo
    BY <1>0 DEF Visits
  <2> HIDE DEF x
  <2>9. /\ session' \in [Callers -> Visits] /\ session'[s] = x
        /\ \A u \in Callers \ {s} : session'[u] = session[u]
    BY <1>0, <2>1, <2>7 DEF LibraryType
  <2>10. LibraryType' /\ StoredNow' = StoredNow
    BY <1>0, <1>1, <2>1, <2>4, <2>5, <2>9 DEF LibraryType, StoredNow
  <2>11. Grows BY <1>0, <1>1, <2>4, <2>10 DEF Grows, n, Res!Parsed
  <2>12. VisitFits(s)'
    <3>1. PICK k, m : k = c /\ m = n
      OBVIOUS
    <3>2. m \in 1..Len(index') /\ index'[m] = new BY <2>4, <2>5, <3>1
    <3>3. index'[m].content = k /\ (index'[m].intact \/ archive'[k] = "corrupt")
      BY <1>1, <2>3, <3>1, <3>2
    <3>4. Holds(m, k)' /\ index'[m].run = "new" BY <2>3, <3>2, <3>3 DEF Holds, Res!UploadOf
    <3>5. /\ session'[s].pc = "parse" /\ session'[s].document = m /\ session'[s].content = k
          /\ session'[s].todo \subseteq StoredNow' /\ k \in StoredNow'
      BY <1>0, <2>2, <2>8, <2>9, <2>10, <3>1 DEF VisitFits
    <3>6. QED BY <3>4, <3>5 DEF VisitFits
  <2>13. \A u \in Callers \ {s} : session[u].pc = "parse" =>
            index'[session[u].document].run = "new" /\ session'[s].document # session[u].document
    BY <1>0, <2>4, <2>5, <2>8, <2>9 DEF VisitFits, Holds
  <2>14. VersionsFit' /\ PacketsFit' BY <1>1, <2>10, <2>11, OverlayKept
  <2>15. ContextFits' /\ DumpFits' /\ CopyFits' BY <1>1, <2>10, <2>11, <2>14, OutputsFit
  <2>16. QED BY <2>9, <2>10, <2>11, <2>12, <2>13, <2>14, <2>15, VisitMoves
<1>4. ASSUME Res!Parse(s), ~(Res!Raised(s) /\ UNCHANGED index) PROVE LibraryInv'
  <2> DEFINE d == session[s].document
             x == [session[s] EXCEPT !.pc = "map"]
  <2>1. /\ session[s].pc = "parse" /\ index' = [index EXCEPT ![d].run = "parsing"]
        /\ session' = [session EXCEPT ![s] = x] /\ uses' = uses
    BY <1>4 DEF Res!Parse, Res!At, Res!Goto
  <2>2. /\ Holds(d, session[s].content) /\ index[d].run = "new" /\ d \in 1..Len(index)
        /\ session[s].content \in StoredNow
    BY <1>0, <2>1 DEF VisitFits, Holds
  <2>3. /\ index' \in Seq(Documents) /\ Len(index') = Len(index)
        /\ index'[d].content = index[d].content /\ index'[d].intact = index[d].intact
        /\ index'[d].run = "parsing" /\ (index[d].full => index'[d].full)
        /\ \A e \in 1..Len(index) : e # d => index'[e] = index[e]
    <3>1. "parsing" \in Progress BY DEF Progress
    <3> HIDE DEF d
    <3>2. index[d] \in Documents BY <1>0, <2>2 DEF LibraryType
    <3>3. index' = [index EXCEPT ![d].run = "parsing", ![d].full = @ \/ FALSE]
      BY <2>1, <3>2 DEF Documents
    <3>4. QED BY <1>0, <2>2, <3>1, <3>3, DocumentTurns
  <2>4. x \in Visits BY <1>0, VisitFields DEF Desks
  <2>5. x.pc = "map" /\ x.document = d /\ x.content = session[s].content /\ x.todo = session[s].todo
    BY <1>0 DEF Visits
  <2> HIDE DEF x
  <2>6. /\ session' \in [Callers -> Visits] /\ session'[s] = x
        /\ \A u \in Callers \ {s} : session'[u] = session[u]
    BY <1>0, <2>1, <2>4 DEF LibraryType
  <2>7. LibraryType' /\ StoredNow' = StoredNow
    BY <1>0, <1>1, <2>1, <2>3, <2>6 DEF LibraryType, StoredNow
  <2>8. \A u \in Callers \ {s} : session[u].pc = "parse" =>
            /\ session[u].document # d /\ session[u].document \in 1..Len(index)
            /\ index'[session[u].document].run = "new"
    BY <1>0, <2>1, <2>3 DEF VisitFits, Holds, ParsesApart
  <2> HIDE DEF d
  <2>9. Grows
    <3>1. \A e \in 1..Len(index) : /\ index'[e].content = index[e].content
                                   /\ index'[e].intact = index[e].intact
                                   /\ Res!Parsed(e) => Res!Parsed(e)'
      BY <2>2, <2>3 DEF Res!Parsed
    <3>2. QED BY <1>0, <1>1, <2>3, <2>7, <3>1 DEF Grows
  <2>10. VisitFits(s)'
    <3>1. PICK k, m : k = session[s].content /\ m = d
      OBVIOUS
    <3>2. m \in 1..Len(index') /\ index'[m].content = index[m].content
          /\ index'[m].intact = index[m].intact /\ Holds(m, k)
      BY <2>2, <2>3, <3>1
    <3>3. index[m].content = k /\ (index[m].intact \/ archive[k] = "corrupt")
      BY <3>2 DEF Holds, Res!UploadOf
    <3>4. index'[m].content = k /\ (index'[m].intact \/ archive'[k] = "corrupt") BY <1>1, <3>2, <3>3
    <3>5. Holds(m, k)' BY <3>2, <3>4 DEF Holds, Res!UploadOf
    <3>6. /\ session'[s].pc = "map" /\ session'[s].document = m /\ session'[s].content = k
          /\ session'[s].todo \subseteq StoredNow' /\ k \in StoredNow'
      BY <1>0, <2>2, <2>5, <2>6, <2>7, <3>1 DEF VisitFits
    <3>7. QED BY <3>5, <3>6 DEF VisitFits
  <2>11. VersionsFit' /\ PacketsFit' BY <1>1, <2>7, <2>9, OverlayKept
  <2>12. ContextFits' /\ DumpFits' /\ CopyFits' BY <1>1, <2>7, <2>9, <2>11, OutputsFit
  <2>13. QED BY <2>5, <2>6, <2>7, <2>8, <2>9, <2>10, <2>11, <2>12, VisitMoves
<1>5. QED BY <1>2, <1>3, <1>4

\* The index ends a document's parsing, or the archive loses an object's bytes.
LEMMA EnvironmentMoves ==
    ASSUME LibraryInv, Res!DocumentMoves \/ Res!Corrupt
    PROVE  LibraryInv'
<1>0. LibraryType /\ (\A u \in Callers : VisitFits(u)) /\ Len(index) \in Nat
  BY DEF LibraryInv, LibraryType
<1>1. ASSUME Res!DocumentMoves PROVE LibraryInv'
  <2>1. PICK d \in 1..Len(index), run \in {"parsing", "done", "fail", "cancel"}, full \in BOOLEAN :
           index[d].run = "parsing" /\ index' = [index EXCEPT ![d].run = run, ![d].full = @ \/ full]
    BY <1>1 DEF Res!DocumentMoves
  <2>2. UNCHANGED <<archive, library, session, context, dump, copy, uses>>
    BY <1>1 DEF Res!DocumentMoves
  <2>3. /\ index' \in Seq(Documents) /\ Len(index') = Len(index)
        /\ index'[d].content = index[d].content /\ index'[d].intact = index[d].intact
        /\ index'[d].run = run /\ (index[d].full => index'[d].full)
        /\ \A e \in 1..Len(index) : e # d => index'[e] = index[e]
    <3>1. run \in Progress BY DEF Progress
    <3>2. QED BY <1>0, <2>1, <3>1, DocumentTurns
  <2>4. LibraryType' /\ StoredNow' = StoredNow BY <1>0, <2>2, <2>3 DEF LibraryType, StoredNow
  <2>5. Grows
    <3>1. \A e \in 1..Len(index) : /\ index'[e].content = index[e].content
                                   /\ index'[e].intact = index[e].intact
                                   /\ Res!Parsed(e) => Res!Parsed(e)'
      BY <2>1, <2>3 DEF Res!Parsed
    <3>2. QED BY <1>0, <2>2, <2>3, <2>4, <3>1 DEF Grows
  <2>6. \A u \in Callers : session[u].pc = "parse" => index'[session[u].document].run = "new"
    BY <1>0, <2>1, <2>3 DEF VisitFits, Holds
  <2>7. QED BY <2>2, <2>4, <2>5, <2>6, NobodyMoves
<1>2. ASSUME Res!Corrupt PROVE LibraryInv'
  <2>1. PICK c \in SourceTexts : archive[c] = "ok" /\ archive' = [archive EXCEPT ![c] = "corrupt"]
    BY <1>2 DEF Res!Corrupt
  <2>2. UNCHANGED <<library, index, session, context, dump, copy>> /\ uses' \in 0..MaxUses
    BY <1>2, UseCounts DEF Res!Corrupt
  <2>3. LibraryType' /\ StoredNow' = StoredNow BY <1>0, <2>1, <2>2 DEF LibraryType, StoredNow
  <2>4. Grows BY <1>0, <2>1, <2>2, <2>3 DEF Grows, LibraryType, Res!Parsed
  <2>5. \A u \in Callers : session[u].pc = "parse" => index'[session[u].document].run = "new"
    BY <1>0, <2>2 DEF VisitFits
  <2>6. QED BY <2>2, <2>3, <2>4, <2>5, NobodyMoves
<1>3. QED BY <1>1, <1>2

\* A session that leaves moves to the idle entry, where nothing is held.
LEMMA Leaves ==
    ASSUME LibraryInv, NEW s \in Callers, Res!Leave(s)
    PROVE  /\ session' \in [Callers -> Visits] /\ session'[s].pc # "parse" /\ VisitFits(s)'
           /\ \A u \in Callers \ {s} : session'[u] = session[u]
<1>0. session \in [Callers -> Visits] BY DEF LibraryInv, LibraryType
<1>1. session' = [session EXCEPT ![s] = Res!IdleSession] BY DEF Res!Leave
<1>2. session'[s] = Res!IdleSession BY <1>0, <1>1
<1>3. VisitFits(s)' BY <1>2, IdleTyped DEF VisitFits
<1>4. QED BY <1>0, <1>1, <1>2, <1>3, IdleTyped

\* A packet is inserted with its claims and evidence, or nothing is.
LEMMA PacketInserts ==
    ASSUME LibraryInv, NEW s \in Callers, Res!PreserveCommit(s)
    PROVE  LibraryInv'
<1>0. /\ LibraryType /\ VersionsFit /\ PacketsFit /\ VisitFits(s) /\ library \in Libraries
      /\ \A u \in Callers : VisitFits(u)
  BY DEF LibraryInv, LibraryType
<1> DEFINE k == session[s].key
           d == session[s].draft
<1>1. /\ session[s].pc = "preserve" /\ Res!Leave(s)
      /\ UNCHANGED <<archive, index, context, dump, copy, uses>>
      /\ library' = IF Res!PreserveHolds(k, d)
                    THEN [library EXCEPT !.packets[k] = d, !.claims = @ \cup {k},
                            !.evidence = IF d.cites = 0 THEN @ ELSE @ \cup {k}]
                    ELSE library
  BY DEF Res!PreserveCommit, Res!At
<1>2. k \in Keys /\ d \in Drafts /\ d # Res!NoDraft
  BY <1>0, <1>1, RecordConstants DEF VisitFits, Res!LibraryConstants
<1> HIDE DEF k, d
<1>3. \A u \in Callers \ {s} : session[u].pc = "parse" => index'[session[u].document].run = "new"
  BY <1>0, <1>1 DEF VisitFits
<1>4. /\ session' \in [Callers -> Visits] /\ session'[s].pc # "parse" /\ VisitFits(s)'
      /\ \A u \in Callers \ {s} : session'[u] = session[u]
  BY <1>1, Leaves
<1>5. /\ library' \in Libraries /\ StoredNow' = StoredNow /\ library'.current = library.current
      /\ library'.versions = library.versions /\ library.claims \subseteq library'.claims
      /\ \A j \in Keys : library.packets[j] # Res!NoDraft => library'.packets[j] = library.packets[j]
      /\ PacketsFit'
  <2>1. CASE library' = library BY <1>0, <2>1 DEF PacketsFit, StoredNow
  <2>2. CASE Res!PreserveHolds(k, d)
    <3> DEFINE p == [library.packets EXCEPT ![k] = d]
               cl == library.claims \union {k}
               ev == IF d.cites = 0 THEN library.evidence ELSE library.evidence \union {k}
    <3>1. /\ library' = [library EXCEPT !.packets = p, !.claims = cl, !.evidence = ev]
          /\ k \notin Res!Packets(library)
      BY <1>0, <1>1, <2>2 DEF Libraries, Res!PreserveHolds
    <3>2. /\ library.packets \in [Keys -> Drafts \union {Res!NoDraft}]
          /\ library.claims \in SUBSET Keys /\ library.evidence \in SUBSET Keys
      BY <1>0 DEF Libraries
    <3>3. p \in [Keys -> Drafts \union {Res!NoDraft}] /\ cl \in SUBSET Keys /\ ev \in SUBSET Keys
      BY <1>2, <3>2
    <3>4. p[k] = d /\ \A j \in Keys \ {k} : p[j] = library.packets[j] BY <1>2, <3>2
    <3> HIDE DEF p
    <3>5. {j \in Keys : p[j] # Res!NoDraft} = Res!Packets(library) \union {k}
      BY <1>2, <3>1, <3>4 DEF Res!Packets
    <3>6. {j \in Keys : p[j] # Res!NoDraft /\ p[j].cites # 0} = ev
      <4>1. library.evidence = {j \in Res!Packets(library) : library.packets[j].cites # 0}
        BY <1>0 DEF PacketsFit
      <4>2. \A j \in Keys \ {k} : j \in ev <=> p[j] # Res!NoDraft /\ p[j].cites # 0
        BY <3>4, <4>1 DEF Res!Packets
      <4>3. k \in ev <=> p[k] # Res!NoDraft /\ p[k].cites # 0 BY <1>2, <3>1, <3>4, <4>1
      <4>4. QED BY <1>2, <3>3, <4>2, <4>3
    <3> HIDE DEF cl, ev
    <3>7. /\ library' \in Libraries /\ library'.current = library.current
          /\ library'.versions = library.versions /\ library'.packets = p
          /\ library'.claims = cl /\ library'.evidence = ev
      BY <1>0, <3>1, <3>3 DEF Libraries
    <3>8. StoredNow' = StoredNow BY <3>7 DEF StoredNow, Res!Stored
    <3>9. Res!Packets(library') = cl BY <1>0, <3>5, <3>7 DEF Res!Packets, PacketsFit, cl
    <3>10. library'.evidence = {j \in Res!Packets(library') : library'.packets[j].cites # 0}
      BY <3>6, <3>7 DEF Res!Packets
    <3>11. PacketsFit' BY <1>0, <3>7, <3>8, <3>9, <3>10 DEF PacketsFit
    <3>12. \A j \in Keys : library.packets[j] # Res!NoDraft => library'.packets[j] = library.packets[j]
      BY <3>1, <3>4, <3>7 DEF Res!Packets
    <3>13. QED BY <3>7, <3>8, <3>11, <3>12 DEF cl
  <2>3. QED BY <1>1, <2>1, <2>2
<1>6. LibraryType' BY <1>0, <1>1, <1>4, <1>5 DEF LibraryType
<1>7. Grows BY <1>0, <1>1, <1>5 DEF Grows, LibraryType, Res!Parsed
<1>8. VersionsFit'
  <2>1. \A e, c : (Holds(e, c)' <=> Holds(e, c)) /\ (Res!Parsed(e)' <=> Res!Parsed(e))
    BY <1>1 DEF Holds, Res!UploadOf, Res!Parsed
  <2>2. QED BY <1>0, <1>1, <1>5, <2>1 DEF VersionsFit
<1>9. ContextFits' /\ DumpFits' /\ CopyFits' BY <1>1, <1>5, <1>6, <1>7, OutputsFit
<1>10. QED BY <1>3, <1>4, <1>5, <1>6, <1>7, <1>8, <1>9, VisitMoves

\* What a session answers, exports or restores, the overlay, the index and the archive
\* left alone.
LEMMA Answers ==
    ASSUME LibraryInv, NEW s \in Callers, UNCHANGED <<archive, library, index>>,
           uses' \in 0..MaxUses,
           session' \in [Callers -> Visits], session'[s].pc # "parse",
           StoredNow' = StoredNow => VisitFits(s)',
           \A u \in Callers \ {s} : session'[u] = session[u],
           context' \in [passages: SUBSET Passages,
                         claims: SUBSET Keys],
           dump' \in [body: Libraries, manifest: Libraries], copy' \in Libraries,
           ContextFits' \/ context' = context, DumpFits' \/ dump' = dump, CopyFits' \/ copy' = copy
    PROVE  LibraryInv'
<1>0. LibraryType /\ \A u \in Callers : VisitFits(u) BY DEF LibraryInv
<1>1. LibraryType' /\ StoredNow' = StoredNow BY <1>0 DEF LibraryType, StoredNow
<1>2. Grows BY <1>0, <1>1 DEF Grows, LibraryType, Res!Parsed
<1>3. VersionsFit' /\ PacketsFit' BY <1>1, <1>2, OverlayKept
<1>4. ContextFits' /\ DumpFits' /\ CopyFits' BY <1>1, <1>2, <1>3, OutputsFit
<1>5. \A u \in Callers \ {s} : session[u].pc = "parse" => index'[session[u].document].run = "new"
  BY <1>0 DEF VisitFits
<1>6. QED BY <1>1, <1>2, <1>3, <1>4, <1>5, VisitMoves

\* A context packet is built of what the overlay holds.
LEMMA ContextBuilds ==
    ASSUME LibraryInv, NEW s \in Callers, Res!BuildOverlayContext(s)
    PROVE  LibraryInv'
<1>0. /\ LibraryType /\ VersionsFit /\ PacketsFit /\ VisitFits(s) /\ library \in Libraries
      /\ StoredNow \subseteq SourceTexts
  BY DEF LibraryInv, LibraryType, StoredNow, Res!Stored
<1> DEFINE ps == session[s].passages
<1>1. /\ session[s].pc = "context" /\ Res!Leave(s)
      /\ UNCHANGED <<archive, library, index, dump, copy, uses>>
  BY DEF Res!BuildOverlayContext, Res!At
<1>2. PICK matching \in SUBSET {k \in library.claims : library.packets[k].reviewed} :
         context' = [passages |-> ps, claims |-> matching \cup Res!Linked(ps)]
  BY DEF Res!BuildOverlayContext
<1> DEFINE cs == matching \cup Res!Linked(ps)
<1>4. ps \in SUBSET Passages /\ \A p \in ps : Holds(p.document, p.content)
  BY <1>0, <1>1 DEF VisitFits, LibraryType, Visits
<1>5. \A k \in cs : k \in library.claims /\ library.packets[k].reviewed
  BY <1>0 DEF PacketsFit, Res!Linked
<1>6. context'.passages = ps /\ context'.claims = cs /\ context' = [passages |-> ps, claims |-> cs]
  BY <1>2
<1> HIDE DEF ps, cs
<1>7. ContextFits' BY <1>1, <1>4, <1>5, <1>6 DEF ContextFits, Holds, Res!UploadOf
<1>8. cs \in SUBSET Keys BY <1>0, <1>5 DEF Libraries
<1>9. /\ context' \in [passages: SUBSET Passages,
                       claims: SUBSET Keys]
  BY <1>4, <1>6, <1>8
<1>10. dump' \in [body: Libraries, manifest: Libraries] /\ copy' \in Libraries /\ uses' \in 0..MaxUses
  BY <1>0, <1>1 DEF LibraryType
<1>11. QED BY <1>1, <1>7, <1>9, <1>10, Leaves, Answers

\* An export is written, and its manifest.
LEMMA ExportWrites ==
    ASSUME LibraryInv, NEW s \in Callers, Res!ExportClaims(s) \/ Res!ExportManifest(s)
    PROVE  LibraryInv'
<1>0. /\ LibraryType /\ PacketsFit /\ VisitFits(s) /\ library \in Libraries /\ DumpFits
      /\ session[s] \in Visits /\ session[s].body \in Libraries
  BY DEF LibraryInv, LibraryType, Visits
<1>1. /\ UNCHANGED <<archive, library, index, context, copy, uses>>
      /\ context' \in [passages: SUBSET Passages,
                       claims: SUBSET Keys]
      /\ copy' \in Libraries /\ uses' \in 0..MaxUses
  BY <1>0 DEF Res!ExportClaims, Res!ExportManifest, LibraryType
<1>2. ASSUME Res!ExportClaims(s) PROVE LibraryInv'
  <2> DEFINE old == session[s].body
             b == [old EXCEPT !.claims = library.claims, !.evidence = library.evidence]
             x == [session[s] EXCEPT !.pc = "export_manifest", !.body = b]
  <2>1. /\ session[s].pc = "export_claims" /\ dump' = [dump EXCEPT !.body = b]
        /\ session' = [session EXCEPT ![s] = x]
    BY <1>2 DEF Res!ExportClaims, Res!At
  <2>2. /\ b \in Libraries /\ b.packets = old.packets /\ b.claims = library.claims
        /\ b.evidence = library.evidence
    BY <1>0 DEF Libraries
  <2> HIDE DEF b
  <2>3. dump' \in [body: Libraries, manifest: Libraries] /\ dump'.body = b
    BY <1>0, <2>1, <2>2 DEF LibraryType
  <2>4. \A k \in Keys : b.packets[k] \in {Res!NoDraft, library.packets[k]}
    BY <1>0, <2>1, <2>2 DEF VisitFits
  <2>5. DumpFits'
    <3>1. Res!Packets(b) \subseteq b.claims BY <1>0, <2>2, <2>4 DEF Res!Packets, PacketsFit
    <3>2. b.evidence = {k \in b.claims : library.packets[k].cites # 0} BY <1>0, <2>2 DEF PacketsFit
    <3>3. QED BY <1>1, <2>2, <2>3, <2>4, <3>1, <3>2 DEF DumpFits
  <2>6. [session[s] EXCEPT !.pc = "export_manifest"] \in Visits BY <1>0, VisitFields DEF Desks
  <2>7. x \in Visits BY <2>2, <2>6, VisitFields, Zenon
  <2>8. x.pc = "export_manifest" /\ x.todo = session[s].todo BY <1>0 DEF Visits
  <2> HIDE DEF x
  <2>9. /\ session' \in [Callers -> Visits] /\ session'[s] = x
        /\ \A u \in Callers \ {s} : session'[u] = session[u]
    BY <1>0, <2>1, <2>7 DEF LibraryType
  <2>10. StoredNow' = StoredNow => VisitFits(s)' BY <1>0, <2>8, <2>9 DEF VisitFits
  <2>11. QED BY <1>1, <2>3, <2>5, <2>8, <2>9, <2>10, Answers
<1>3. ASSUME Res!ExportManifest(s) PROVE LibraryInv'
  <2>1. dump' = [dump EXCEPT !.manifest = session[s].body] /\ Res!Leave(s)
    BY <1>3 DEF Res!ExportManifest
  <2>2. dump' \in [body: Libraries, manifest: Libraries] /\ dump'.body = dump.body
    BY <1>0, <2>1 DEF LibraryType
  <2>3. DumpFits' BY <1>0, <1>1, <2>2 DEF DumpFits
  <2>4. QED BY <1>1, <2>1, <2>2, <2>3, Leaves, Answers
<1>4. QED BY <1>2, <1>3

\* An export whose references hold is restored.
LEMMA Restores ==
    ASSUME LibraryInv, NEW s \in Callers, Res!RestoreOverlay(s)
    PROVE  LibraryInv'
<1>0. /\ LibraryType /\ VisitFits(s) /\ DumpFits /\ CopyFits /\ session \in [Callers -> Visits]
      /\ copy \in Libraries /\ dump.body \in Libraries
  BY DEF LibraryInv, LibraryType
<1>1. /\ UNCHANGED <<archive, library, index, session, context, dump>> /\ session[s].pc = "idle"
      /\ uses' \in 0..MaxUses
  BY <1>0 DEF Res!RestoreOverlay, Res!At, LibraryType
<1>2. copy' = copy \/ (copy' = dump.body /\ Res!ReferencesHold(dump.body)) BY DEF Res!RestoreOverlay
<1>3. ASSUME copy' = dump.body, Res!ReferencesHold(dump.body) PROVE CopyFits'
  <2> DEFINE b == dump.body
  <2>1. /\ b.claims \subseteq Res!Packets(b)
        /\ \A k \in b.evidence : b.packets[k].cites \in Res!Stored(b)
    BY <1>3 DEF Res!ReferencesHold
  <2>2. b.claims = Res!Packets(b) BY <1>0, <2>1 DEF DumpFits
  <2>3. \A k \in Res!Packets(b) : b.packets[k] = library.packets[k]
    BY <1>0 DEF DumpFits, Res!Packets
  <2>4. b.evidence = {k \in Res!Packets(b) : b.packets[k].cites # 0}
    BY <1>0, <2>2, <2>3 DEF DumpFits
  <2> HIDE DEF b
  <2>5. copy' = b BY <1>3 DEF b
  <2>6. QED BY <1>1, <2>1, <2>2, <2>3, <2>4, <2>5 DEF CopyFits
<1>4. copy' \in Libraries /\ (CopyFits' \/ copy' = copy) BY <1>0, <1>2, <1>3
<1>5. StoredNow' = StoredNow => VisitFits(s)' BY <1>0, <1>1 DEF VisitFits
<1>6. /\ context' \in [passages: SUBSET Passages,
                       claims: SUBSET Keys]
      /\ dump' \in [body: Libraries, manifest: Libraries]
      /\ session' \in [Callers -> Visits] /\ session'[s].pc # "parse"
      /\ \A u \in Callers \ {s} : session'[u] = session[u]
  BY <1>0, <1>1 DEF LibraryType
<1>7. QED BY <1>1, <1>4, <1>5, <1>6, Answers

\* Every step of the library keeps its invariant.
LEMMA LibraryStep == LibraryInv /\ [Res!Next]_libraryState => LibraryInv'
<1> SUFFICES ASSUME LibraryInv, [Res!Next]_libraryState PROVE LibraryInv'
  OBVIOUS
<1>1. CASE UNCHANGED libraryState
  BY <1>1 DEF libraryState, LibraryInv, LibraryType, VisitFits, ParsesApart, VersionsFit, PacketsFit,
     ContextFits, DumpFits, CopyFits, StoredNow, Holds, Res!UploadOf, Res!Parsed
<1>2. CASE Res!Die
  <2>1. PICK s \in Callers : Res!Leave(s) BY <1>2 DEF Res!Die
  <2>2. UNCHANGED <<archive, library, index, context, dump, copy>> /\ uses' \in 0..MaxUses
    BY <1>2, UseCounts DEF Res!Die
  <2>3. QED BY <2>1, <2>2, VisitEnds
<1>3. CASE Res!DocumentMoves \/ Res!Corrupt BY <1>3, EnvironmentMoves
<1>4. ASSUME NEW s \in Callers,
             \/ Res!PutStream(s) \/ Res!FindExisting(s) \/ Res!ReadCurrent(s) \/ Res!InsertVersion(s)
             \/ Res!Upload(s) \/ Res!Parse(s) \/ Res!UpdateMapping(s) \/ Res!MarkFailed(s)
             \/ Res!RebuildIndex(s) \/ Res!RebuildNext(s) \/ Res!ReconcileRead(s)
             \/ Res!ReconcileWrite(s) \/ Res!Preserve(s) \/ Res!PreserveCommit(s) \/ Res!Retrieve(s)
             \/ Res!BuildOverlayContext(s) \/ Res!ExportSources(s) \/ Res!ExportVersions(s)
             \/ Res!ExportPackets(s) \/ Res!ExportClaims(s) \/ Res!ExportManifest(s)
             \/ Res!RestoreOverlay(s)
      PROVE  LibraryInv'
  BY <1>4, Imports, Inserts, Uploads, VersionUpdates, Rebuilds, Asks, PacketInserts, ContextBuilds,
     TableReads, ExportWrites, Restores
<1>5. QED BY <1>1, <1>2, <1>3, <1>4 DEF Res!Next

\* The invariant says what is promised of the library.
LEMMA LibraryPromise == LibraryInv => Res!VersionsSound /\ Res!ResearchTruthful
<1> SUFFICES ASSUME LibraryInv PROVE Res!VersionsSound /\ Res!ResearchTruthful
  OBVIOUS
<1>1. Res!TypeOK
  <2>1. LibraryType /\ MaxUses \in Nat BY RecordConstants DEF LibraryInv, Res!LibraryConstants
  <2>2. \A lib \in {library, copy} : lib \in Libraries BY <2>1 DEF LibraryType
  <2>3. QED BY <2>1, <2>2 DEF Res!TypeOK, LibraryType, Libraries, Versions
<1>2. Res!VersionsSound BY <1>1 DEF LibraryInv, Res!VersionsSound, VersionsFit, StoredNow, Holds
<1>3. Res!ResearchTruthful BY DEF LibraryInv, Res!ResearchTruthful, ContextFits, CopyFits, Holds
<1>4. QED BY <1>2, <1>3

\* The library's versions stay sound, and what it answers and restores stays truthful: a
\* version is archived before it is stored, mapped to a document uploaded from its object
\* (whose bytes it has unless verification of the object fails), indexed only when such a
\* document was parsed to its end, and supersedes no version that supersedes it; a context
\* cites the versions its passages were uploaded from and reviewed claims; a restored
\* overlay is whole (importer.py:167-300, service.py:205-303, store.py:123-208, store.py:609-826).
THEOREM ResearchStaysTruthful == Spec => []ResearchTruthful
<1>1. Init => LibraryInv BY LibraryStarts DEF Init
<1>2. LibraryInv /\ [Next]_vars => LibraryInv'
  <2>1. ASSUME LibraryInv, Next PROVE [Res!Next]_libraryState BY <2>1 DEF Next, libraryState
  <2>2. ASSUME UNCHANGED vars PROVE UNCHANGED libraryState BY <2>2 DEF vars
  <2>3. QED BY <2>1, <2>2, LibraryStep
<1>3. LibraryInv => ResearchTruthful BY LibraryPromise DEF ResearchTruthful
<1>4. QED BY <1>1, <1>2, <1>3, PTL DEF Spec
=============================================================================
