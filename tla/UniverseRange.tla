---------------------------- MODULE UniverseRange ---------------------------
(***************************************************************************)
(* internal/pointintime: universe snapshots of a manifest built over a     *)
(* range with a checkpoint, the metadata they are built from, and the      *)
(* readiness preflight that reads them.                                    *)
(*                                                                         *)
(* Metadata is the tradability intervals of the symbols; a missing bar is  *)
(* a time at which the coverage is incomplete; the step of a range is 1.   *)
(***************************************************************************)
EXTENDS Integers, FiniteSetsExt

CONSTANTS
    RangeWorkers,   \* processes that run the range command
    Spans,          \* requested half-open ranges of snapshot times
    Intervals,      \* rows that may be ingested: [symbol, from, to, available, retrieved]
    Sealed,         \* the rows the manifest digested
    Cutoff,         \* its knowledge cutoff
    BadTimes,       \* snapshot times without complete bars
    RegimeAt(_),    \* the regime of the benchmark and breadth at a time
    MinRegimeSnapshots, MaxUniverseGap, \* of ResearchReadinessPolicy
    MaxAttempts     \* bound

VARIABLES
    meta,           \* tradability_intervals
    snapshots,      \* universe_snapshots of the manifest and policy
    progress,       \* the universe_build_checkpoints row
    rangers,        \* [worker -> its run]
    attempts,
    origins         \* history: where the runs began that moved the checkpoint

rangeVars == <<meta, snapshots, progress, rangers, attempts, origins>>

NoProgress == [last |-> -1, status |-> "none"]
IdleRun == [at |-> "idle", start |-> 0, end |-> 0, cursor |-> 0, rows |-> {}, dry |-> FALSE]

\* What the instances have to satisfy.
RangeAssumption ==
    /\ Sealed \subseteq Intervals /\ MaxAttempts \in Nat /\ MaxUniverseGap \in Nat /\ MinRegimeSnapshots \in Nat
    /\ \A r \in Spans : r.start \in Nat /\ r.end \in Nat /\ r.start < r.end
    /\ \A i \in Intervals : i.from \in Nat /\ i.to \in Nat /\ i.available <= i.retrieved

-----------------------------------------------------------------------------
\* A tradability row is valid and known at a time.
TradableBy(i, asOf) == i.from <= asOf /\ i.to > asOf /\ i.available <= asOf

\* Repository.SymbolsAsOf, by SQL.
SymbolsAsOf(asOf) == {i.symbol : i \in {j \in meta : TradableBy(j, asOf) /\ j.retrieved <= Cutoff}}

\* Mutant: only the rows that are valid where the build begins.
LoadRangeBegun(start, end) == {i \in meta : i.from <= start /\ i.to > start /\ i.retrieved <= Cutoff}

\* universeRangeBuilder.load: the rows that overlap the range.
LoadRange(start, end) == {i \in meta : i.from < end /\ i.to > start /\ i.retrieved <= Cutoff}

\* universeRangeBuilder.symbolsAsOf, from the loaded rows.
symbolsAsOf(rows, asOf) == {i.symbol : i \in {j \in rows : TradableBy(j, asOf)}}

\* ValidateManifest: the rows at the cutoff are the ones it digested.
ManifestMatches == {i \in meta : i.retrieved <= Cutoff} = Sealed

\* Where a range resumes.
ResumeFrom(start) == IF progress.last >= start THEN progress.last + 1 ELSE start

\* BuildUniverseSnapshotRange up to its loop.
StartRange(w) ==
    /\ rangers[w].at = "idle" /\ attempts < MaxAttempts /\ attempts' = attempts + 1
    /\ \E r \in Spans, dry \in BOOLEAN :
         LET c == ResumeFrom(r.start)
             run == [IdleRun EXCEPT !.start = r.start, !.end = r.end, !.cursor = c, !.dry = dry]
         IN  rangers' = [rangers EXCEPT ![w] =
               IF c >= r.end THEN [run EXCEPT !.at = "finalize"]
               ELSE IF ManifestMatches THEN [run EXCEPT !.at = "build", !.rows = LoadRange(c, r.end)]
               ELSE IdleRun]
    /\ UNCHANGED <<meta, snapshots, progress, origins>>

Remaining(s) == IF s.cursor + 1 < s.end THEN "build" ELSE "finalize"
Existing(t) == {s \in snapshots : s.time = t}

\* persistUniverseBuild: the snapshot of a time is created once.
persistUniverseBuild(t, snapshot) == IF Existing(t) # {} THEN snapshots ELSE snapshots \cup {snapshot}

\* universeRangeBuilder.build at the cursor.  Incomplete coverage is stored
\* and ends the run with an error; a dry run rolls its transaction back.
BuildSnapshot(w) ==
    /\ rangers[w].at = "build"
    /\ LET s == rangers[w]
           t == s.cursor
           bad == t \in BadTimes
           snapshot == [time |-> t, members |-> symbolsAsOf(s.rows, t), regime |-> RegimeAt(t),
                        coverage |-> IF bad THEN "coverage_failed" ELSE "complete"]
       IN  /\ snapshots' = IF s.dry THEN snapshots ELSE persistUniverseBuild(t, snapshot)
           /\ rangers' = [rangers EXCEPT ![w] =
                IF bad THEN IdleRun
                ELSE IF s.dry THEN [s EXCEPT !.cursor = t + 1, !.at = Remaining(s)]
                ELSE [s EXCEPT !.at = "checkpoint"]]
    /\ UNCHANGED <<meta, progress, attempts, origins>>

\* The checkpoint never moves back; then the next time.
AdvanceProgress(w) ==
    /\ rangers[w].at = "checkpoint"
    /\ progress' = [last |-> Max({progress.last, rangers[w].cursor}), status |-> "running"]
    /\ rangers' = [rangers EXCEPT ![w].cursor = @ + 1, ![w].at = Remaining(rangers[w])]
    /\ origins' = origins \cup {rangers[w].start}
    /\ UNCHANGED <<meta, snapshots, attempts>>

\* The last update; without a row it is an error.
FinalizeRange(w) ==
    /\ rangers[w].at = "finalize" /\ rangers' = [rangers EXCEPT ![w] = IdleRun]
    /\ progress' = IF rangers[w].dry \/ progress = NoProgress THEN progress
                     ELSE [progress EXCEPT !.status = "complete"]
    /\ UNCHANGED <<meta, snapshots, attempts, origins>>

\* The command fails or is interrupted.
InterruptRange(w) ==
    /\ rangers[w].at # "idle" /\ rangers' = [rangers EXCEPT ![w] = IdleRun]
    /\ UNCHANGED <<meta, snapshots, progress, attempts, origins>>

\* UpsertAssetLifecycle: a row is created unless its key exists; another row
\* under the key is a conflict.
UpsertAssetLifecycle ==
    /\ \E i \in Intervals : /\ \A j \in meta : j.symbol # i.symbol \/ j.from # i.from
                            /\ meta' = meta \cup {i}
    /\ UNCHANGED <<snapshots, progress, rangers, attempts, origins>>

RangeInit ==
    /\ meta = Sealed /\ snapshots = {} /\ progress = NoProgress
    /\ rangers = [w \in RangeWorkers |-> IdleRun] /\ attempts = 0 /\ origins = {}

RangeNext == UpsertAssetLifecycle
             \/ \E w \in RangeWorkers :
                  \/ StartRange(w) \/ BuildSnapshot(w) \/ AdvanceProgress(w)
                  \/ FinalizeRange(w) \/ InterruptRange(w)

RangeSpec == RangeInit /\ [][RangeNext]_rangeVars

-----------------------------------------------------------------------------
\* assessResearchReadiness: no snapshot, or an initial, inner or terminal gap.
SnapshotGaps(start, end, times) ==
    \/ times = {}
    \/ Min(times) - start > MaxUniverseGap
    \/ end - Max(times) > MaxUniverseGap
    \/ \E t, u \in times : u > t /\ u - t > MaxUniverseGap /\ \A v \in times : v <= t \/ v >= u

\* PreflightResearchReadiness, of the snapshots of a request.
PreflightReady(start, end) ==
    LET used == {s \in snapshots : s.coverage = "complete" /\ s.time >= start /\ s.time < end}
        regimes == {s.regime : s \in used}
    IN  /\ ~SnapshotGaps(start, end, {s.time : s \in used})
        /\ Cardinality(regimes) >= 2
        /\ \A g \in regimes : Cardinality({s \in used : s.regime = g}) >= MinRegimeSnapshots

\* Types; a time has one snapshot.
RangeTypeOK ==
    /\ meta \subseteq Intervals /\ attempts \in 0 .. MaxAttempts
    /\ progress.status \in {"none", "running", "complete"}
    /\ \A s, t \in snapshots : s.time = t.time => s = t
    /\ \A w \in RangeWorkers : rangers[w].at \in {"idle", "build", "checkpoint", "finalize"}
                          /\ (rangers[w].at = "build" => rangers[w].cursor < rangers[w].end)

\* BuildUniverseSnapshotRange: whatever was interrupted, failed or overlapped,
\* a run about to mark the range complete has a complete snapshot at every
\* time of the range, unless a run that began later moved the checkpoint: it
\* records no start, so that a later range makes the times before it look built.
FinishedRangeIsBuilt ==
    \A w \in RangeWorkers :
      /\ rangers[w].at = "finalize" /\ ~rangers[w].dry
      /\ \A o \in origins : o <= rangers[w].start
      => \A t \in rangers[w].start .. rangers[w].end - 1 : \E s \in Existing(t) : s.coverage = "complete"

\* The range builder, which loads its rows once, selects at every time it has
\* still to build the symbols that Repository.SymbolsAsOf selects, as long as
\* the rows of the manifest are the ones it was validated with.
RangeAgreesWithRepository ==
    \A w \in RangeWorkers :
      rangers[w].at = "build" /\ ManifestMatches
      => \A t \in rangers[w].cursor .. rangers[w].end - 1 : symbolsAsOf(rangers[w].rows, t) = SymbolsAsOf(t)

\* An interval the preflight passes has, at every time of it, a complete
\* snapshot at most MaxUniverseGap old, or is at most that far from its start.
ReadyIsObserved ==
    \A r \in Spans : PreflightReady(r.start, r.end) =>
      \A t \in r.start .. r.end - 1 :
        \/ t - r.start < MaxUniverseGap
        \/ \E s \in snapshots : s.coverage = "complete" /\ s.time >= r.start /\ s.time <= t /\ t - s.time <= MaxUniverseGap

\* Types; a finished range is built, the builder selects what the repository
\* does, and what the preflight passes was observed
\* (BuildUniverseSnapshotRange, PreflightResearchReadiness).
RangesAreObserved ==
    RangeTypeOK /\ FinishedRangeIsBuilt /\ RangeAgreesWithRepository /\ ReadyIsObserved
=============================================================================
