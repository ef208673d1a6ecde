------------------------------- MODULE RunQueries ------------------------------
(***************************************************************************)
(* The read side of durable runs, run_query: lists of summaries and events *)
(* in pages bounded by a limit and a byte budget and continued by cursors, *)
(* large payloads in chunks of a snapshot, polls of the control state that *)
(* answer "unchanged", and the terminal projection of a result, stored the *)
(* first time somebody asks.  Runs and events go on changing under the     *)
(* readers, replies get lost, and the server restarts.                     *)
(***************************************************************************)
EXTENDS Integers, Sequences, FiniteSets

CONSTANTS Readers,
          MaxRuns,     \* bound on runs
          MaxLog,      \* bound on events of the first run
          PageLimit,   \* entries a page may have, before the byte budget
          MaxChunks,   \* length of the longest payload, in chunks
          MaxAsks      \* bound on new questions and on changes under the readers

QueryConstants ==
    /\ MaxRuns \in Nat \ {0, 1} /\ MaxLog \in Nat \ {0} /\ PageLimit \in Nat \ {0}
    /\ MaxChunks \in Nat /\ MaxAsks \in Nat

VARIABLES
    runs,       \* rows in the order of insertion: sort key, state, version, result, projection
    log,        \* number of events of the first run
    snapshots,  \* the chunk snapshot of each reader that the server knows
    reader,     \* what each reader holds: cursors, entries received, answers
    asks

queryVars == <<runs, log, snapshots, reader, asks>>

Terminal == {"completed", "failed"}
Results == {"success", "unsuccessful", "failed"}   \* a completed command may exit non-zero
StatusOf(result) == IF result = "failed" THEN "failed" ELSE "completed"

\* The outcome told for a status and a process that succeeded, or not.
NormalizedOutcome(status, success) ==
    CASE status = "completed" -> IF success THEN "success" ELSE "validation_failure"
      [] status = "failed" -> "unknown_failure"
      [] OTHER -> "pending"
Candidate(result) ==
    LET outcome == NormalizedOutcome(StatusOf(result), result # "unsuccessful") IN
    [source |-> result, outcome |-> outcome, ok |-> outcome = "success"]

\* What remains when no shortened projection fits its budget: the row alone.
Fallback(status, result) ==
    [source |-> result, outcome |-> NormalizedOutcome(status, TRUE), ok |-> FALSE]
ProjectionPayload(result) == {Candidate(result), Fallback(StatusOf(result), result)}
NoProjection == [source |-> "none", outcome |-> "none", ok |-> FALSE]
Pending == Fallback("running", "none")

NoSnapshot == [payload |-> "none", total |-> 0]
Resting == [pc |-> "rest", filter |-> "any", watermark |-> 0, got |-> <<>>, more |-> FALSE,
            after |-> 0, start |-> 0, parts |-> <<>>, total |-> 0,
            copy |-> [version |-> -1, status |-> "none", phase |-> 0],
            version |-> -1, told |-> NoProjection]
NewRow(key) == [key |-> key, status |-> "running", phase |-> 0, version |-> 0,
                result |-> "none", projection |-> NoProjection]

Init ==
    /\ \E f \in [1..2 -> 1..MaxRuns] : f[1] # f[2] /\ runs = <<NewRow(f[1]), NewRow(f[2])>>
    /\ log = 1
    /\ snapshots = [r \in Readers |-> NoSnapshot]
    /\ reader = [r \in Readers |-> Resting]
    /\ asks = 0

At(r, pc) == reader[r].pc = pc
Ask == asks < MaxAsks /\ asks' = asks + 1
Question(r) == At(r, "rest") /\ Ask

----
(* The store, as the readers see it.                                       *)

\* A run is inserted after its timestamp was taken: keys come in any order.
CreateRun ==
    /\ Ask /\ Len(runs) < MaxRuns
    /\ \E key \in 1..MaxRuns :
          /\ \A i \in 1..Len(runs) : runs[i].key # key
          /\ runs' = Append(runs, NewRow(key))
    /\ UNCHANGED <<log, snapshots, reader>>

\* conditional_update bumps the version; append_event only when the phase changes.
Bump(row, phase) == IF phase = row.phase THEN row.version ELSE row.version + 1

AppendEvent ==
    /\ Ask /\ log < MaxLog
    /\ log' = log + 1
    /\ \E phase \in {runs[1].phase, runs[1].phase + 1} :
          runs' = [runs EXCEPT ![1] = [@ EXCEPT !.phase = phase, !.version = Bump(runs[1], phase)]]
    /\ UNCHANGED <<snapshots, reader>>

TransitionTerminal ==
    /\ Ask
    /\ \E i \in 1..Len(runs), result \in Results :
          /\ runs[i].status \notin Terminal
          /\ runs' = [runs EXCEPT ![i] = [@ EXCEPT !.status = StatusOf(result), !.result = result,
                                                !.projection = NoProjection, !.version = runs[i].version + 1]]
    /\ UNCHANGED <<log, snapshots, reader>>

\* publish_run_result, which stores the projection with the publication.
PublishRunResult ==
    /\ Ask
    /\ runs[1].status \in Terminal
    /\ \E payload \in ProjectionPayload(runs[1].result) :
          runs' = [runs EXCEPT ![1] = [@ EXCEPT !.projection = payload, !.version = runs[1].version + 1]]
    /\ UNCHANGED <<log, snapshots, reader>>

----
(* Summaries, newest first; the watermark of the first page hides later     *)
(* rows, the key of the last summary returned continues.                    *)

Matches(row, filter) == filter = "any" \/ row.status = filter
Below(watermark, filter, key) ==
    {i \in 1..Len(runs) : i <= watermark /\ Matches(runs[i], filter) /\ runs[i].key < key}

\* The keys of at most n rows of a set, in descending order.
Newest(rows, n) ==
    LET keys == {runs[i].key : i \in rows}
        rank(k) == Cardinality({j \in keys : j >= k}) IN
    [m \in 1..(IF Cardinality(keys) < n THEN Cardinality(keys) ELSE n) |->
        CHOOSE k \in keys : rank(k) = m]

\* A page of the rows: up to the limit, then the longest prefix that fits.
\* mutant: the page shortened to its budget continues after the page as read.
TruncatePageSkipping(page, fits) == [got |-> SubSeq(page, 1, fits), last |-> page[Len(page)]]
TruncatePage(page, fits) == [got |-> SubSeq(page, 1, fits), last |-> page[fits]]

SummaryPage(r, watermark, filter, key, got) ==
    LET rows == Below(watermark, filter, key)
        page == Newest(rows, PageLimit) IN
    IF page = <<>>
    THEN reader' = [reader EXCEPT ![r] = [@ EXCEPT !.pc = "listed", !.watermark = watermark,
                                                     !.filter = filter, !.got = got, !.more = FALSE]]
    ELSE \E fits \in 1..Len(page) :
           LET cut == TruncatePage(page, fits) IN
           reader' = [reader EXCEPT ![r] = [@ EXCEPT
                        !.pc = "listed", !.watermark = watermark, !.filter = filter,
                        !.got = got \o cut.got, !.after = cut.last,
                        !.more = fits < Len(page) \/ Cardinality(rows) > Len(page)]]

ListRunSummaries(r) ==
    /\ Question(r)
    /\ \E filter \in {"any", "running"} : SummaryPage(r, Len(runs), filter, MaxRuns + 1, <<>>)
    /\ UNCHANGED <<runs, log, snapshots>>
ListMore(r) ==
    /\ At(r, "listed") /\ reader[r].more
    /\ SummaryPage(r, reader[r].watermark, reader[r].filter, reader[r].after, reader[r].got)
    /\ UNCHANGED <<runs, log, snapshots, asks>>

----
(* Events, oldest first, after an id; without one, the newest page.         *)

EventPage(r, from, got) ==
    LET last == IF log - from > PageLimit THEN from + PageLimit ELSE log
        page == [n \in 1..(last - from) |-> from + n] IN
    IF page = <<>>
    THEN reader' = [reader EXCEPT ![r] = [@ EXCEPT !.pc = "events", !.got = got, !.more = FALSE]]
    ELSE \E fits \in 1..Len(page) :
           LET cut == TruncatePage(page, fits) IN
           reader' = [reader EXCEPT ![r] = [@ EXCEPT
                        !.pc = "events", !.got = got \o cut.got,
                        !.after = cut.last, !.start = IF got = <<>> THEN from ELSE reader[r].start,
                        !.more = cut.last < log]]

GetEventPage(r) ==
    /\ Question(r)
    /\ \E from \in {0, IF log > PageLimit THEN log - PageLimit ELSE 0} : EventPage(r, from, <<>>)
    /\ UNCHANGED <<runs, log, snapshots>>
MoreEvents(r) ==
    /\ At(r, "events") /\ reader[r].after < log
    /\ EventPage(r, reader[r].after, reader[r].got)
    /\ UNCHANGED <<runs, log, snapshots, asks>>

----
(* Chunks: the payload is read once, into a snapshot of its own.            *)

ChunkPayload(r) ==
    /\ Question(r)
    /\ \E total \in 1..MaxChunks :
          IF total = 1
          THEN /\ reader' = [reader EXCEPT ![r] = [@ EXCEPT
                                !.pc = "whole", !.parts = <<runs[1].status>>, !.total = 1]]
               /\ UNCHANGED snapshots
          ELSE /\ snapshots' = [snapshots EXCEPT ![r] = [payload |-> runs[1].status, total |-> total]]
               /\ reader' = [reader EXCEPT ![r] = [@ EXCEPT
                                !.pc = "chunks", !.parts = <<runs[1].status>>, !.total = total]]
    /\ UNCHANGED <<runs, log>>

\* The last chunk deletes the snapshot, received or not; without one the reader
\* is told to begin again.
ReadSnapshotChunk(r) ==
    /\ At(r, "chunks")
    /\ LET next == Len(reader[r].parts) + 1
           complete == next >= reader[r].total IN
       IF snapshots[r] = NoSnapshot
       THEN reader' = [reader EXCEPT ![r] = Resting] /\ UNCHANGED <<snapshots, asks>>
       ELSE /\ snapshots' = IF complete THEN [snapshots EXCEPT ![r] = NoSnapshot] ELSE snapshots
            /\ \/ /\ reader' = [reader EXCEPT ![r] = [@ EXCEPT
                                !.parts = Append(reader[r].parts, snapshots[r].payload),
                                !.pc = IF complete THEN "whole" ELSE "chunks"]]
                  /\ UNCHANGED asks
               \/ Ask /\ UNCHANGED reader
    /\ UNCHANGED <<runs, log>>

\* Snapshots an hour old are pruned; a restart forgets them all.
PruneSnapshots ==
    /\ Ask
    /\ \E gone \in SUBSET Readers :
          snapshots' = [r \in Readers |-> IF r \in gone THEN NoSnapshot ELSE snapshots[r]]
    /\ snapshots' # snapshots
    /\ UNCHANGED <<runs, log, reader>>

----
(* Polling.  The version is read first, and the row again if it differs.    *)

GetControlStatus(r) ==
    /\ Question(r)
    /\ reader' = [reader EXCEPT ![r].pc = "observe"]
    /\ UNCHANGED <<runs, log, snapshots>>
PollAgain(r) ==
    /\ At(r, "polled") /\ Ask
    /\ reader' = [reader EXCEPT ![r].pc = IF reader[r].copy.version = runs[1].version
                                          THEN "unchanged" ELSE "observe"]
    /\ UNCHANGED <<runs, log, snapshots>>
LifecycleObservation(r) ==
    /\ At(r, "observe")
    /\ reader' = [reader EXCEPT ![r] = [@ EXCEPT !.pc = "polled",
                    !.copy = [version |-> runs[1].version, status |-> runs[1].status,
                              phase |-> runs[1].phase]]]
    /\ UNCHANGED <<runs, log, snapshots, asks>>

----
(* The terminal result: pending, the stored projection, or one made now and *)
(* stored if the row is as it was read, with one more try.                  *)

GetTerminalResult(r) ==
    /\ Question(r)
    /\ reader' = [reader EXCEPT ![r] = [@ EXCEPT
          !.pc = IF runs[1].status \in Terminal /\ runs[1].projection = NoProjection
                 THEN "source" ELSE "told",
          !.told = IF runs[1].status \notin Terminal THEN Pending ELSE runs[1].projection]]
    /\ UNCHANGED <<runs, log, snapshots>>

ProjectionMatches(result) == runs[1].projection.source = result
ResultSource(r) ==
    /\ At(r, "source")
    /\ \E payload \in ProjectionPayload(runs[1].result) :
         reader' = [reader EXCEPT ![r] = [@ EXCEPT
            !.pc = IF ProjectionMatches(runs[1].result) THEN "told" ELSE "record",
            !.told = IF ProjectionMatches(runs[1].result) THEN runs[1].projection ELSE payload,
            !.version = runs[1].version]]
    /\ UNCHANGED <<runs, log, snapshots, asks>>

\* A record that loses to another writer looks whether that one stored a projection
\* of the same result, reads the version again and tries once more; then it answers
\* the fallback.
MaterializePublicResult(r) ==
    /\ reader[r].pc \in {"record", "retry"}
    /\ LET payload == reader[r].told IN
       IF runs[1].version = reader[r].version
       THEN /\ runs' = [runs EXCEPT ![1] = [@ EXCEPT !.projection = payload, !.version = runs[1].version + 1]]
            /\ reader' = [reader EXCEPT ![r].pc = "told"]
       ELSE /\ UNCHANGED runs
            /\ reader' = [reader EXCEPT ![r] = [@ EXCEPT
                 !.pc = IF ProjectionMatches(payload.source) \/ At(r, "retry") THEN "told" ELSE "retry",
                 !.told = IF ProjectionMatches(payload.source) THEN runs[1].projection
                          ELSE IF At(r, "retry") THEN Fallback(runs[1].status, "none") ELSE payload,
                 !.version = runs[1].version]]
    /\ UNCHANGED <<log, snapshots, asks>>

\* The reader turns to something else.
Rest(r) ==
    /\ reader[r].pc \in {"listed", "events", "whole", "polled", "unchanged", "told"}
    /\ reader' = [reader EXCEPT ![r] = Resting]
    /\ UNCHANGED <<runs, log, snapshots, asks>>

Next ==
    \/ CreateRun \/ AppendEvent \/ TransitionTerminal \/ PublishRunResult \/ PruneSnapshots
    \/ \E r \in Readers :
          \/ ListRunSummaries(r) \/ ListMore(r) \/ GetEventPage(r) \/ MoreEvents(r)
          \/ ChunkPayload(r) \/ ReadSnapshotChunk(r)
          \/ GetControlStatus(r) \/ PollAgain(r) \/ LifecycleObservation(r)
          \/ GetTerminalResult(r) \/ ResultSource(r) \/ MaterializePublicResult(r) \/ Rest(r)

Spec == Init /\ [][Next]_queryVars

----
TypeOK ==
    /\ Len(runs) \in 2..MaxRuns
    /\ \A i \in 1..Len(runs) :
          /\ runs[i].status \in {"running"} \cup Terminal
          /\ runs[i].result \in {"none"} \cup Results
          /\ runs[i].projection.source \in {"none"} \cup Results
    /\ log \in 1..MaxLog
    /\ asks \in 0..MaxAsks

\* A reader that follows the cursors gets every summary the first page could have
\* promised and every event after the first, in order, none twice and none left
\* out, however pages are shortened to their budget and rows come and change
\* meanwhile; a payload put together from chunks is one state of the run
\* (run_store.py:848-1032, 1246-1398; run_query_chunks.py:176-409).
PagesExact ==
    /\ TypeOK
    /\ \A r \in Readers : LET c == reader[r]  n == Len(c.got) IN
          /\ At(r, "listed") =>
               /\ \A m \in 1..(n - 1) : c.got[m] > c.got[m + 1]
               /\ ~c.more => \A i \in 1..c.watermark :
                     Matches(runs[i], c.filter) => \E m \in 1..n : c.got[m] = runs[i].key
               /\ \A m \in 1..n : \E i \in 1..c.watermark : runs[i].key = c.got[m]
          /\ At(r, "events") => c.got = [m \in 1..n |-> c.start + m]
          /\ At(r, "whole") =>
               /\ Len(c.parts) = c.total
               /\ \A m \in 1..Len(c.parts) : c.parts[m] = c.parts[1]

\* A poll answered "unchanged" leaves the reader with the run as it is, unless
\* the run moves after the answer; a terminal result told is of the authoritative
\* one, whoever stored its projection, and "ok" only for a command that succeeded
\* (job_manager.py:2524-2536, 2671-2698; run_publication.py:122-165).
AnswersTrue ==
    \A r \in Readers :
       /\ At(r, "unchanged") /\ reader[r].copy.version = runs[1].version =>
             reader[r].copy.status = runs[1].status /\ reader[r].copy.phase = runs[1].phase
       /\ At(r, "told") => LET told == reader[r].told IN
             /\ told.source \in {"none", runs[1].result}
             /\ told.ok => runs[1].result = "success"
             /\ told.outcome = "validation_failure" => runs[1].result = "unsuccessful"

==============================================================================
