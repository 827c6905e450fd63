------------------------------- MODULE Dataset ------------------------------
(***************************************************************************)
(* internal/pointintime: bars of one series are ingested page by page with *)
(* a checkpoint, sealed in a content-addressed manifest, verified once per *)
(* process and read as of a time.  Bar t opens at t * Interval and closes  *)
(* at (t + 1) * Interval.                                                  *)
(***************************************************************************)
EXTENDS Integers, FiniteSetsExt, SequencesExt

CONSTANTS
    Ingesters,      \* processes that run the ingestion command
    Ranges,         \* requested half-open intervals [start, end)
    LastOpen,       \* the last bar of the series
    Interval,       \* its timeframe
    PageSize,
    Answers,       \* what the exchange may answer for a bar: it may revise it
    Delays,         \* available_at of a bar after its close, negative: too early
    MaxClock, MaxRuns, MaxBuilds       \* bounds

VARIABLES
    clock,          \* the ingestion clock
    bars,           \* [open time -> its historical_bars row or NoBar]
    checkpoint,     \* the ingestion_checkpoints row
    ing,            \* [ingester -> its run]
    build,          \* a manifest being built
    manifests,      \* dataset_manifests
    verified,       \* sharedManifestVerifications of the process
    reads,          \* what readers got: [manifest, rows]
    runs, builds

datasetVars == <<clock, bars, checkpoint, ing, build, manifests, verified, reads, runs, builds>>
manifestVars == <<build, manifests, verified, reads, builds>>

OpenTimes == 0 .. LastOpen
\* A row of historical_bars.
Rows == [content : Answers, delay : Delays, retrieved : 0 .. MaxClock]
NoBar == [content |-> 0, delay |-> 0, retrieved |-> -1]
NoCheckpoint == [last |-> -1, status |-> "none"]
NoRun == [at |-> "idle", start |-> 0, end |-> 0, cursor |-> 0, page |-> {}, row |-> NoBar, unresolved |-> FALSE, dry |-> FALSE]
NoBuild == [start |-> 0, end |-> 0, cutoff |-> -1]

\* What the instances have to satisfy.
DatasetAssumption ==
    /\ LastOpen \in Nat /\ Interval \in Nat \ {0} /\ PageSize \in Nat \ {0} /\ MaxClock \in Nat /\ MaxRuns \in Nat /\ MaxBuilds \in Nat
    /\ Answers \subseteq Nat \ {0} /\ Delays \subseteq Int
    /\ \A r \in Ranges : r.start \in OpenTimes /\ r.end \in 1 .. LastOpen + 1 /\ r.start < r.end

-----------------------------------------------------------------------------
\* Mutant: a run resumes one bar too far.
ResumeAfterNext(start) ==
    IF checkpoint.status \notin {"none", "complete"} /\ checkpoint.last >= start
    THEN checkpoint.last + 2 ELSE start

\* Ingester.Run: where a run of a range begins.
ResumeCursor(start) ==
    IF checkpoint.status \notin {"none", "complete"} /\ checkpoint.last >= start
    THEN checkpoint.last + 1 ELSE start

\* A run of a range, which it may only rehearse.
StartRun(i) ==
    /\ ing[i].at = "idle" /\ runs < MaxRuns /\ runs' = runs + 1
    /\ \E r \in Ranges, dry \in BOOLEAN :
         LET c == ResumeCursor(r.start)
         IN  ing' = [ing EXCEPT ![i] = [NoRun EXCEPT !.at = IF c < r.end THEN "fetch" ELSE "finish", !.start = r.start,
                                        !.end = r.end, !.cursor = c, !.dry = dry]]
    /\ UNCHANGED <<clock, bars, checkpoint, manifestVars>>

PageEnd(s) == Min({s.cursor + PageSize, s.end})

\* FetchBars fails after its retries.
FetchFails(i) ==
    /\ ing[i].at = "fetch"
    /\ ing' = [ing EXCEPT ![i].at = "finish", ![i].unresolved = TRUE]
    /\ UNCHANGED <<clock, bars, checkpoint, manifestVars, runs>>

\* historicalBar refuses a bar available before its close.
historicalBar(row) == row.delay >= 0

\* A page of any bars: the contiguous ones from the cursor are kept, and what
\* they leave of the page is unresolved.  retrieved_at is the time of the
\* answer, before the transaction.
FetchPage(i) ==
    /\ ing[i].at = "fetch"
    /\ \E got \in SUBSET (ing[i].cursor .. PageEnd(ing[i]) - 1), c \in Answers, d \in Delays :
         LET page == {t \in got : ing[i].cursor .. t \subseteq got}
             row == [content |-> c, delay |-> d, retrieved |-> clock]
         IN  ing' = [ing EXCEPT ![i] =
               IF page = {} THEN [@ EXCEPT !.at = "finish", !.unresolved = TRUE]
               ELSE IF ~historicalBar(row) THEN NoRun
               ELSE [@ EXCEPT !.at = "commit", !.page = page, !.row = row,
                              !.unresolved = (ing[i].cursor + Cardinality(page) < PageEnd(ing[i]))]]
    /\ UNCHANGED <<clock, bars, checkpoint, manifestVars, runs>>

\* The ContentHash of a row does not cover its retrieval.
SameContent(a, b) == a.content = b.content /\ a.delay = b.delay

\* Mutant: an existing row is replaced by the exchange's revision.
Overwrites(page, row) == FALSE

\* A stored bar of the page has other content: ErrBarConflict.
Conflicts(page, row) == \E t \in page : bars[t] # NoBar /\ ~SameContent(bars[t], row)

\* A row is created where there is none; a duplicate is counted.
InsertRows(page, row) ==
    [t \in OpenTimes |-> IF t \in page /\ (bars[t] = NoBar \/ ~SameContent(bars[t], row)) THEN row ELSE bars[t]]

\* The page transaction under its advisory lock: rows and checkpoint, or an
\* error that ends the run; a dry run writes nothing.
CommitPage(i) ==
    /\ ing[i].at = "commit"
    /\ LET s == ing[i]
           last == Max(s.page)
       IN  IF Conflicts(s.page, s.row)
           THEN ing' = [ing EXCEPT ![i] = NoRun] /\ UNCHANGED <<bars, checkpoint>>
           ELSE /\ ing' = [ing EXCEPT ![i] = [s EXCEPT !.cursor = last + 1, !.page = {}, !.row = NoBar,
                             !.at = IF s.unresolved \/ last + 1 >= s.end THEN "finish" ELSE "fetch"]]
                /\ IF s.dry THEN UNCHANGED <<bars, checkpoint>>
                   ELSE /\ bars' = InsertRows(s.page, s.row)
                        /\ checkpoint' = [last |-> Max({checkpoint.last, last}), status |-> "running"]
    /\ UNCHANGED <<clock, manifestVars, runs>>

\* The last update of a run; without a row it is an error.
FinishRun(i) ==
    /\ ing[i].at = "finish"
    /\ ing' = [ing EXCEPT ![i] = NoRun]
    /\ checkpoint' = IF ing[i].dry \/ checkpoint = NoCheckpoint THEN checkpoint
                     ELSE [checkpoint EXCEPT !.status =
                             IF ing[i].unresolved \/ ing[i].cursor < ing[i].end THEN "unresolved" ELSE "complete"]
    /\ UNCHANGED <<clock, bars, manifestVars, runs>>

\* The command is interrupted.
Interrupt(i) ==
    /\ ing[i].at # "idle" /\ ing' = [ing EXCEPT ![i] = NoRun]
    /\ UNCHANGED <<clock, bars, checkpoint, manifestVars, runs>>

Tick == clock < MaxClock /\ clock' = clock + 1 /\ UNCHANGED <<bars, checkpoint, ing, manifestVars, runs>>

-----------------------------------------------------------------------------
\* The rows of an interval at a knowledge cutoff.
RowsAtCutoff(r, cutoff) ==
    [t \in {u \in r.start .. r.end - 1 : bars[u] # NoBar /\ bars[u].retrieved <= cutoff} |-> bars[t]]

\* diagnoseSeries: complete when no row is missing and none was delayed.
diagnoseSeries(r, rows) ==
    /\ DOMAIN rows = r.start .. r.end - 1
    /\ \A t \in DOMAIN rows : rows[t].delay = 0

\* BuildManifest takes the newest retrieval of the range, or a given cutoff...
DeriveCutoff ==
    /\ build = NoBuild /\ builds < MaxBuilds /\ builds' = builds + 1
    /\ \E r \in Ranges :
         LET kept == {bars[t].retrieved : t \in {u \in r.start .. r.end - 1 : bars[u] # NoBar}}
         IN  kept # {} /\ build' = [start |-> r.start, end |-> r.end, cutoff |-> Max(kept)]
    /\ UNCHANGED <<clock, bars, checkpoint, ing, manifests, verified, reads, runs>>

\* ... and then reads and digests the rows; equal content is one manifest.
BuildManifest ==
    /\ build # NoBuild /\ build' = NoBuild
    /\ LET r == [start |-> build.start, end |-> build.end]
           rows == RowsAtCutoff(r, build.cutoff)
       IN  manifests' = manifests \cup {[start |-> r.start, end |-> r.end, cutoff |-> build.cutoff, rows |-> rows,
                                         complete |-> diagnoseSeries(r, rows)]}
    /\ UNCHANGED <<clock, bars, checkpoint, ing, verified, reads, runs, builds>>

\* verifyManifestContentUncached
ContentMatches(m) == RowsAtCutoff(m, m.cutoff) = m.rows

\* Bars of a validated manifest: verifyManifestOnce, then the rows.
Bars(m) ==
    /\ m \in manifests /\ (m \in verified \/ ContentMatches(m)) /\ verified' = verified \cup {m}
    /\ reads' = reads \cup {[manifest |-> m, rows |-> RowsAtCutoff(m, m.cutoff)]}
    /\ UNCHANGED <<clock, bars, checkpoint, ing, build, manifests, runs, builds>>

\* The process of the readers restarts and forgets what it verified.
Restart == verified # {} /\ verified' = {} /\ UNCHANGED <<clock, bars, checkpoint, ing, build, manifests, reads, runs, builds>>

\* BarPage as of a time: closed interval ends no later, and bars known by then.
BarsAsOf(m, end, asOf) ==
    {t \in DOMAIN RowsAtCutoff(m, m.cutoff) :
        t * Interval < end /\ end <= asOf /\ (t + 1) * Interval + bars[t].delay <= asOf}

DatasetInit ==
    /\ clock = 0 /\ bars = [t \in OpenTimes |-> NoBar] /\ checkpoint = NoCheckpoint
    /\ ing = [i \in Ingesters |-> NoRun] /\ build = NoBuild
    /\ manifests = {} /\ verified = {} /\ reads = {} /\ runs = 0 /\ builds = 0

DatasetNext == Tick \/ DeriveCutoff \/ BuildManifest \/ Restart
        \/ (\E m \in manifests : Bars(m))
        \/ \E i \in Ingesters : StartRun(i) \/ FetchFails(i) \/ FetchPage(i) \/ CommitPage(i) \/ FinishRun(i) \/ Interrupt(i)

DatasetSpec == DatasetInit /\ [][DatasetNext]_datasetVars

-----------------------------------------------------------------------------
\* Types; a run that fetches is not past its end.
DatasetTypeOK ==
    /\ clock \in 0 .. MaxClock
    /\ bars \in [OpenTimes -> Rows \cup {NoBar}]
    /\ checkpoint \in [last : -1 .. LastOpen, status : {"none", "running", "unresolved", "complete"}]
    /\ ing \in [Ingesters ->
                  [at : {"idle", "fetch", "commit", "finish"}, start : OpenTimes, end : 0 .. LastOpen + 1,
                   cursor : 0 .. LastOpen + 1, page : SUBSET OpenTimes, row : Rows \cup {NoBar},
                   unresolved : BOOLEAN, dry : BOOLEAN]]
    /\ \A i \in Ingesters : ing[i].at = "fetch" => ing[i].cursor < ing[i].end
    /\ build.start \in OpenTimes /\ build.end \in 0 .. LastOpen + 1
    /\ \A m \in manifests : m.start \in OpenTimes /\ m.end \in 0 .. LastOpen + 1 /\ m.complete \in BOOLEAN
    /\ verified \subseteq manifests /\ runs \in 0 .. MaxRuns /\ builds \in 0 .. MaxBuilds

\* Ingester.Run: whatever failed, overlapped or was interrupted before, a run
\* that is about to mark the series complete has every bar of its range.
FinishedRunHasItsBars ==
    \A i \in Ingesters :
      ing[i].at = "finish" /\ ~ing[i].dry /\ ~ing[i].unresolved /\ ing[i].cursor >= ing[i].end
      => \A t \in ing[i].start .. ing[i].end - 1 : bars[t] # NoBar

\* A stored bar is never changed or removed (the revision of the exchange is
\* ErrBarConflict).
BarsAreImmutable == \A t \in OpenTimes : bars[t] # NoBar => bars'[t] = bars[t]

\* A manifest whose series is complete is pinned: every read of it, verified
\* now or long ago, returns the rows it was built from.
CompleteManifestIsPinned == \A r \in reads : r.manifest.complete => r.rows = r.manifest.rows

\* No read as of a time returns a bar that had not closed by then.
NoLookAhead ==
    \A m \in manifests : \A end, asOf \in 0 .. (LastOpen + 1) * Interval :
      \A t \in BarsAsOf(m, end, asOf) : (t + 1) * Interval <= asOf

\* The checkpoint belongs to the series and not to a range: what a run may
\* skip was fetched for its own range when all ranges have one start.
OneStart == \A q, r \in Ranges : q.start = r.start

\* A run of the ingestion that finishes has its bars, a manifest of a complete
\* series is pinned and a read as of a time sees no later bar (Ingester.Run,
\* verifyManifestOnce, historicalBar).
DataIsPinned ==
    /\ DatasetTypeOK
    /\ OneStart => FinishedRunHasItsBars
    /\ CompleteManifestIsPinned
    /\ NoLookAhead
=============================================================================
