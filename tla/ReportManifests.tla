--------------------------- MODULE ReportManifests ----------------------------
(***************************************************************************)
(* The report of one job, supervisor or workflow on its way to the         *)
(* external PulseSender: the reporters write the report and the resume     *)
(* prompt and build pulse_manifest.json, anyone may re-check it, and the   *)
(* sender marks it sent (return_loop/pulse_contract.py).                   *)
(*                                                                         *)
(* No lock is held: a call reads the manifest, looks at the files, and     *)
(* replaces the manifest.  A text is the class the checks put it in; two   *)
(* clean texts are told apart by their hashes.  result.json is only hashed *)
(* and not modelled.                                                       *)
(***************************************************************************)
EXTENDS Integers

CONSTANTS
    Callers,
    MaxAsks     \* bound on calls and on edits of the files

VARIABLES
    text,       \* report and resume -> what the file holds
    manifest,   \* pulse_manifest.json
    call,       \* the call a caller has under way
    asks

vars == <<text, manifest, call, asks>>

Files == {"report", "resume"}
Texts == {"clean", "other", "sensitive", "large"}

NoHash == [f \in Files |-> "none"]
Absent == [status |-> "none", delivered |-> FALSE, reportable |-> TRUE, hash |-> NoHash]
Idle == [kind |-> "none", step |-> "none", file |-> "resume", looked |-> "no",
         reportable |-> TRUE, status |-> "none", hash |-> NoHash]

Init ==
    /\ text = [f \in Files |-> "missing"]
    /\ manifest = Absent
    /\ call = [c \in Callers |-> Idle]
    /\ asks = 0

Ask == asks < MaxAsks /\ asks' = asks + 1

----

\* A reporter writes the report, then the resume prompt, each in one replacement.
\* The status of what is reported on may not be one to report.
StartReport(c, content, reportable) ==
    /\ call[c] = Idle /\ Ask
    /\ text' = [text EXCEPT !["report"] = content]
    /\ call' = [call EXCEPT ![c] = [Idle EXCEPT !.kind = "build", !.step = "resume",
                                                !.reportable = reportable, !.hash["resume"] = content]]
    /\ UNCHANGED manifest

WriteResume(c) ==
    /\ call[c].step = "resume"
    /\ text' = [text EXCEPT !["resume"] = call[c].hash["resume"]]
    /\ call' = [call EXCEPT ![c].step = "read", ![c].hash = NoHash]
    /\ UNCHANGED <<manifest, asks>>

\* What a call that has read the manifest knows of the delivery.
Look == IF manifest.delivered THEN "delivered" ELSE "undelivered"

\* build_report_manifest looks for a manifest that is already there.
ReadExisting(c) ==
    /\ call[c].step = "read"
    /\ call' = [call EXCEPT ![c].step = "sizes", ![c].looked = Look]
    /\ UNCHANGED <<text, manifest, asks>>

\* A manifest that cannot be read or parsed counts as none (_read_existing_manifest).
ReadFails(c) ==
    /\ call[c].step = "read" /\ manifest # Absent
    /\ call' = [call EXCEPT ![c].step = "sizes", ![c].looked = "failed"]
    /\ UNCHANGED <<text, manifest, asks>>

\* check_report_readiness leaves a delivered manifest alone.
StartCheck(c) ==
    /\ call[c] = Idle /\ Ask
    /\ manifest # Absent /\ ~manifest.delivered
    /\ call' = [call EXCEPT ![c] = [Idle EXCEPT !.kind = "check", !.step = "sizes",
                   !.looked = Look, !.reportable = manifest.reportable]]
    /\ UNCHANGED <<text, manifest>>

\* _evaluate_files: files that are missing, a source that is not to be reported, and
\* files that are too large are settled before anything is read.
SizeVerdict(c) ==
    IF \E f \in Files : text[f] = "missing" THEN "invalid"
    ELSE IF ~call[c].reportable THEN "blocked"
    ELSE IF \E f \in Files : text[f] = "large" THEN "too_large"
    ELSE "none"

CheckSizes(c) ==
    /\ call[c].step = "sizes"
    /\ call' = [call EXCEPT ![c].status = SizeVerdict(c),
                            ![c].step = IF SizeVerdict(c) = "none" THEN "first" ELSE "write"]
    /\ UNCHANGED <<text, manifest, asks>>

\* read_stable_bytes reads a file and reads it again, the resume prompt before the
\* report.  A file that is gone ends the check, one that changed does so after the last.
ReadFirst(c) ==
    LET f == call[c].file
        gone == text[f] = "missing"
    IN /\ call[c].step = "first"
       /\ call' = [call EXCEPT ![c].hash[f] = text[f],
                               ![c].status = IF gone THEN "invalid" ELSE @,
                               ![c].step = IF gone THEN "write" ELSE "second"]
       /\ UNCHANGED <<text, manifest, asks>>

\* The verdict is on the bytes whose hashes the manifest will carry.
ReadVerdict(c) ==
    LET f == call[c].file
    IN IF text[f] = "missing" THEN "invalid"
       ELSE IF call[c].status = "stale" \/ text[f] # call[c].hash[f] THEN "stale"
       ELSE IF f = "resume" THEN "none"
       ELSE IF \E g \in Files : call[c].hash[g] = "sensitive" THEN "sensitive"
       ELSE "ready"

ReadSecond(c) ==
    /\ call[c].step = "second"
    /\ call' = [call EXCEPT ![c].status = ReadVerdict(c), ![c].file = "report",
                   ![c].step = IF call[c].file = "report" \/ ReadVerdict(c) = "invalid"
                               THEN "write" ELSE "first"]
    /\ UNCHANGED <<text, manifest, asks>>

\* mutant: a new report starts from a new manifest
RebuiltAfresh(c) ==
    [status |-> call[c].status, delivered |-> FALSE, reportable |-> call[c].reportable,
     hash |-> IF call[c].status = "ready" THEN call[c].hash ELSE NoHash]

\* A manifest that was delivered stays so when the report is built again.
Rebuilt(c) ==
    [status |-> IF call[c].looked = "delivered" THEN "sent" ELSE call[c].status,
     delivered |-> call[c].looked = "delivered", reportable |-> call[c].reportable,
     hash |-> IF call[c].status = "ready" THEN call[c].hash ELSE NoHash]

WriteManifest(c) ==
    /\ call[c].step = "write"
    /\ manifest' = Rebuilt(c)
    /\ call' = [call EXCEPT ![c] = Idle]
    /\ UNCHANGED <<text, asks>>

\* mark_sent_by_external_pulsesender: the sender found the report ready
\* (discover_ready_reports) and marks whatever the manifest now is.
StartMark(c) ==
    /\ call[c] = Idle /\ Ask
    /\ manifest.status = "ready" /\ ~manifest.delivered
    /\ call' = [call EXCEPT ![c] = [Idle EXCEPT !.kind = "mark", !.step = "mark"]]
    /\ UNCHANGED <<text, manifest>>

MarkReads(c) ==
    /\ call[c].step = "mark"
    /\ call' = [call EXCEPT ![c].step = "sent", ![c].hash = manifest.hash,
                            ![c].reportable = manifest.reportable]
    /\ UNCHANGED <<text, manifest, asks>>

MarkSent(c) ==
    /\ call[c].step = "sent"
    /\ manifest' = [status |-> "sent", delivered |-> TRUE,
                    reportable |-> call[c].reportable, hash |-> call[c].hash]
    /\ call' = [call EXCEPT ![c] = Idle]
    /\ UNCHANGED <<text, asks>>

EditText(f, content) ==
    /\ text[f] # "missing" /\ text[f] # content /\ Ask
    /\ text' = [text EXCEPT ![f] = content]
    /\ UNCHANGED <<manifest, call>>

CallerDies(c) ==
    /\ call[c] # Idle /\ Ask
    /\ call' = [call EXCEPT ![c] = Idle]
    /\ UNCHANGED <<text, manifest>>

Next ==
    \/ \E c \in Callers :
          \/ \E content \in Texts, reportable \in BOOLEAN : StartReport(c, content, reportable)
          \/ WriteResume(c) \/ ReadExisting(c) \/ ReadFails(c) \/ StartCheck(c) \/ CheckSizes(c)
          \/ ReadFirst(c) \/ ReadSecond(c) \/ WriteManifest(c)
          \/ StartMark(c) \/ MarkReads(c) \/ MarkSent(c) \/ CallerDies(c)
    \/ \E f \in Files, content \in Texts \union {"missing"} : EditText(f, content)

----

\* A ready manifest vouches, by their hashes, for texts that were searched for
\* markers (pulse_contract.py:295-349), and a report once marked sent is offered
\* again only by a call that had read the manifest before the mark or could not read
\* it (pulse_contract.py:32-43, 140-152, 170-182, 213-231).
ManifestStep ==
    /\ manifest'.status = "ready" =>
          \A f \in Files : manifest'.hash[f] \in {"clean", "other", "large"}
    /\ manifest.delivered /\ ~manifest'.delivered =>
          \E c \in Callers : /\ call[c].step = "write" /\ call'[c] = Idle
                             /\ call[c].looked \in {"undelivered", "failed"}

==============================================================================
