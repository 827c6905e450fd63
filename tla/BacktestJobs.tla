---------------------------- MODULE BacktestJobs ----------------------------
(***************************************************************************)
(* The background backtest jobs of internal/backtest/job.go.  A job is a   *)
(* row of backtest_jobs and a goroutine of the server.  A legacy job runs  *)
(* two engine lanes side by side, then the walk-forward validation windows *)
(* on a worker pool, registers an experiment and writes its files; a Stage *)
(* 05 comparison job waits for one of the bounded slots, compares the      *)
(* strategies and persists the evidence Stage 07 reads.  Every update of   *)
(* the row ignores its error, and the rows outlive the process.            *)
(*                                                                         *)
(* Progress is in percent.  What the engine computes is left out: a lane,  *)
(* a window or a comparison ends well or badly.                            *)
(***************************************************************************)
EXTENDS Integers, Sequences, FiniteSets

CONSTANTS
  Kinds,        \* the kind of the i-th job that is submitted
  Slots,        \* BACKTEST_MAX_CONCURRENT_JOBS, clamped to 1..8
  EngineBars,   \* reports of one engine run
  Windows,      \* validation windows
  Workers,      \* goroutines of RunValidation
  MaxRestarts   \* bound: restarts of the server

\* What the instances have to satisfy.
JobsAssumption ==
  /\ Kinds \in Seq({"legacy", "stage05"})
  /\ Slots \in 1..8
  /\ EngineBars \in Nat \ {0} /\ Windows \in Nat \ {0} /\ Workers \in Nat \ {0}
  /\ MaxRestarts \in Nat

VARIABLES
  job,       \* the rows of backtest_jobs
  pc,        \* where the job's goroutine is
  slots,     \* the jobs that hold an element of stage05JobSlots
  at,        \* bars each engine lane has run; the stage of each window
  reported,  \* the fractions map of AggregateEngineLaneProgress
  bad,       \* windows with a run that returned an error
  out,       \* a progress update computed and not yet written, 0 for none
  stored,    \* experiment_runs: the jobs that have a row
  active,    \* active_experiment_id of the model artifact, 0 for none
  restarts,
  lost       \* history: the jobs that lost an update of their row

jobsVars == <<job, pc, slots, at, reported, bad, out, stored, active, restarts, lost>>

JobIds == 1..Len(Kinds)
Baseline == -1
VolSizing == 0
Lanes == {Baseline, VolSizing}
Runners == Lanes \cup (1..Windows)
Terminal == {"completed", "failed"}
None == "none"

\* Stages of a validation window: queued; each of the four runs of its two
\* pairs started (odd) and returned (even); finished and failed.
Queued == 0
Running == {1, 3, 5, 7}
Returned == {2, 4, 6, 8}
Finished == 9
Broken == 10
LaneOf(stage) == IF stage \in {1, 2, 5, 6} THEN Baseline ELSE VolSizing

\* A lane is at 0..EngineBars while it runs and at one of these when it has ended.
LaneOk == EngineBars + 1
LaneErr == EngineBars + 2

Row == [status: {None, "pending", "running"} \cup Terminal, progress: 0..100,
        summary: BOOLEAN, artifact: BOOLEAN]

JobsTypeOK ==
  /\ job \in [JobIds -> Row]
  /\ pc \in [JobIds -> {None, "wait", "prep", "lanes", "windows", "register",
                      "activate", "write", "compare", "evidence", "finish",
                      "ended"}]
  /\ slots \subseteq JobIds
  /\ at \in [JobIds -> [Runners -> 0..(EngineBars + 10)]]
  /\ reported \in [JobIds -> [Lanes -> 0..EngineBars]]
  /\ bad \in [JobIds -> SUBSET (1..Windows)]
  /\ out \in [JobIds -> [Runners -> 0..100]]
  /\ stored \subseteq JobIds
  /\ active \in 0..Len(Kinds)
  /\ restarts \in 0..MaxRestarts
  /\ lost \subseteq JobIds

JobsInit ==
  /\ job = [i \in JobIds |-> [status |-> None, progress |-> 0,
                            summary |-> FALSE, artifact |-> FALSE]]
  /\ pc = [i \in JobIds |-> None]
  /\ slots = {}
  /\ at = [i \in JobIds |-> [r \in Runners |-> 0]]
  /\ reported = [i \in JobIds |-> [l \in Lanes |-> 0]]
  /\ bad = [i \in JobIds |-> {}]
  /\ out = [i \in JobIds |-> [r \in Runners |-> 0]]
  /\ stored = {}
  /\ active = 0
  /\ restarts = 0
  /\ lost = {}

----------------------------------------------------------------------------
\* An UPDATE of the row.  Its error is dropped, so the row may stay as it is.
Write(i, row) ==
  \/ job' = [job EXCEPT ![i] = row] /\ UNCHANGED lost
  \/ job' = job /\ lost' = lost \cup {i}

\* updateBacktestJob with status running.
Progress(i, percent) == [job[i] EXCEPT !.status = "running", !.progress = percent]

\* updateBacktestJobWithSummary with status completed.
Completed(i) ==
  [job[i] EXCEPT !.status = "completed", !.progress = 100, !.summary = TRUE]

\* failBacktestJob, and failBacktestJobWithResults, which keeps the results of
\* the lanes as the summary.
Failed(i, results) ==
  [job[i] EXCEPT !.status = "failed", !.progress = 100,
                 !.summary = results \/ job[i].summary]

Fail(i, results) ==
  /\ Write(i, Failed(i, results))
  /\ pc' = [pc EXCEPT ![i] = "ended"]

\* StartBacktestJob: the row, then its goroutine.  The jobs of a kind are taken
\* in order.
StartBacktestJob(i) ==
  /\ Kinds[i] = "legacy"
  /\ pc[i] = None /\ \A k \in 1..(i - 1) : Kinds[k] = Kinds[i] => pc[k] # None
  /\ job' = [job EXCEPT ![i].status = "pending"]
  /\ pc' = [pc EXCEPT ![i] = "prep"]
  /\ UNCHANGED <<slots, at, reported, out, bad, stored, active, restarts, lost>>

\* StartStage05ComparisonJob: an invalid request creates nothing, a valid one
\* a row and a goroutine that waits for a slot.
StartStage05ComparisonJob(i) ==
  /\ Kinds[i] = "stage05"
  /\ pc[i] = None /\ \A k \in 1..(i - 1) : Kinds[k] = Kinds[i] => pc[k] # None
  /\ job' = [job EXCEPT ![i].status = "pending"]
  /\ pc' = [pc EXCEPT ![i] = "wait"]
  /\ UNCHANGED <<slots, at, reported, out, bad, stored, active, restarts, lost>>

----------------------------------------------------------------------------
\* runBacktestJob up to its lanes: prepareBacktestInputsWithSettings and
\* ValidateValidationWindow.  A coverage failure keeps its report as summary.
PrepareLegacy(i) ==
  /\ Kinds[i] = "legacy" /\ pc[i] = "prep"
  /\ \/ /\ Write(i, Progress(i, 35))
        /\ pc' = [pc EXCEPT ![i] = "lanes"]
     \/ \E coverage \in BOOLEAN : Fail(i, coverage)
  /\ UNCHANGED <<slots, at, reported, out, bad, stored, active, restarts>>

\* The aggregated fraction: the slower of the two engine lanes.
Slowest(fractions) ==
  IF fractions[Baseline] < fractions[VolSizing]
  THEN fractions[Baseline] ELSE fractions[VolSizing]

\* A runner r reports the fraction of a lane: the minimum is taken under the
\* mutex, the rate limiter drops all but the reports of 100%, and the write
\* follows outside both locks.
Report(i, r, lane, fraction) ==
  LET fractions == [reported[i] EXCEPT ![lane] = fraction]
      slowest   == Slowest(fractions)
  IN /\ reported' = [reported EXCEPT ![i] = fractions]
     /\ \/ out' = [out EXCEPT ![i][r] = 35 + (35 * slowest) \div EngineBars]
        \/ slowest < EngineBars /\ out' = out

\* The progress callback writes the row and returns to the engine.
Deliver(i, r) ==
  /\ out[i][r] # 0
  /\ Write(i, Progress(i, out[i][r]))
  /\ out' = [out EXCEPT ![i][r] = 0]
  /\ UNCHANGED <<pc, slots, at, reported, bad, stored, active, restarts>>

\* One report of an engine lane.
LaneBar(i, l) ==
  /\ pc[i] = "lanes" /\ at[i][l] < EngineBars /\ out[i][l] = 0
  /\ at' = [at EXCEPT ![i][l] = @ + 1]
  /\ Report(i, l, l, at[i][l] + 1)
  /\ UNCHANGED <<job, pc, slots, bad, stored, active, restarts, lost>>

\* The lane's RunBacktest returns: after its last bar, or with an error.
LaneEnd(i, l) ==
  /\ pc[i] = "lanes" /\ out[i][l] = 0
  /\ \/ at[i][l] = EngineBars /\ at' = [at EXCEPT ![i][l] = LaneOk]
     \/ at[i][l] <= EngineBars /\ at' = [at EXCEPT ![i][l] = LaneErr]
  /\ UNCHANGED <<job, pc, slots, reported, out, bad, stored, active, restarts, lost>>

\* Mutant: wait for the first lane only.
LanesDoneEarly(i) == \E l \in Lanes : at[i][l] \in {LaneOk, LaneErr}

\* btWg.Wait().
LanesDone(i) == \A l \in Lanes : at[i][l] \in {LaneOk, LaneErr}

\* After the lanes: a failed lane fails the job with the results there are.
JoinLanes(i) ==
  /\ pc[i] = "lanes" /\ LanesDone(i)
  /\ IF \E l \in Lanes : at[i][l] = LaneErr
     THEN Fail(i, TRUE)
     ELSE /\ Write(i, Progress(i, 70))
          /\ pc' = [pc EXCEPT ![i] = "windows"]
  /\ UNCHANGED <<slots, at, reported, out, bad, stored, active, restarts>>

Busy(i) == {w \in 1..Windows : at[i][w] \in Running \cup Returned}

\* A worker of RunValidation takes the next window and starts its first run;
\* a window without bars fails at once.
TakeWindow(i, w) ==
  /\ pc[i] = "windows" /\ at[i][w] = Queued
  /\ \A v \in 1..(w - 1) : at[i][v] # Queued
  /\ Cardinality(Busy(i)) < Workers
  /\ \/ at' = [at EXCEPT ![i][w] = 1] /\ Report(i, w, Baseline, 0)
     \/ at' = [at EXCEPT ![i][w] = Broken] /\ UNCHANGED <<reported, out>>
  /\ UNCHANGED <<job, pc, slots, bad, stored, active, restarts, lost>>

\* A run of runValidationPair returns.  It reports 100% of its lane through
\* the progress function of the dual lanes, or nothing and an error.
RunReturns(i, w) ==
  /\ pc[i] = "windows" /\ at[i][w] \in Running /\ out[i][w] = 0
  /\ at' = [at EXCEPT ![i][w] = @ + 1]
  /\ \/ Report(i, w, LaneOf(at[i][w]), EngineBars) /\ UNCHANGED bad
     \/ bad' = [bad EXCEPT ![i] = @ \cup {w}] /\ UNCHANGED <<reported, out>>
  /\ UNCHANGED <<job, pc, slots, stored, active, restarts, lost>>

\* The window's next run starts; an error is looked at when its pair is over.
NextRun(i, w) ==
  /\ pc[i] = "windows" /\ at[i][w] \in {2, 4, 6} /\ out[i][w] = 0
  /\ at[i][w] = 4 => w \notin bad[i]
  /\ at' = [at EXCEPT ![i][w] = @ + 1]
  /\ Report(i, w, LaneOf(at[i][w] + 1), 0)
  /\ UNCHANGED <<job, pc, slots, bad, stored, active, restarts, lost>>

\* The window has its result and reports how many windows have one.
WindowDone(i, w) ==
  LET done == Cardinality({v \in 1..Windows : at[i][v] \in {Finished, Broken}}) + 1
  IN /\ pc[i] = "windows" /\ out[i][w] = 0
     /\ \/ at[i][w] = 8 \/ (at[i][w] = 4 /\ w \in bad[i])
     /\ at' = [at EXCEPT ![i][w] = IF w \in bad[i] THEN Broken ELSE Finished]
     /\ \/ out' = [out EXCEPT ![i][w] = 70 + (25 * done) \div Windows]
        \/ done < Windows /\ out' = out
     /\ UNCHANGED <<job, pc, slots, reported, bad, stored, active, restarts, lost>>

\* wg.Wait() of RunValidation: one broken window fails the job.
JoinWindows(i) ==
  /\ pc[i] = "windows"
  /\ \A w \in 1..Windows : at[i][w] \in {Finished, Broken} /\ out[i][w] = 0
  /\ IF \E w \in 1..Windows : at[i][w] = Broken
     THEN Fail(i, TRUE)
     ELSE pc' = [pc EXCEPT ![i] = "register"] /\ UNCHANGED <<job, lost>>
  /\ UNCHANGED <<slots, at, reported, out, bad, stored, active, restarts>>

----------------------------------------------------------------------------
\* RegisterExperimentRun, first statement: the experiment row.
RegisterExperimentRun(i) ==
  /\ pc[i] = "register"
  /\ \/ /\ stored' = stored \cup {i}
        /\ pc' = [pc EXCEPT ![i] = "activate"]
        /\ UNCHANGED <<job, lost>>
     \/ Fail(i, FALSE) /\ UNCHANGED stored
  /\ UNCHANGED <<slots, at, reported, out, bad, active, restarts>>

\* Its second statement: the model artifact names the experiment; a run
\* without a model version has none.
ActivateExperiment(i) ==
  /\ pc[i] = "activate"
  /\ \/ /\ active' \in {i, active}
        /\ pc' = [pc EXCEPT ![i] = "write"]
        /\ UNCHANGED <<job, lost>>
     \/ Fail(i, FALSE) /\ UNCHANGED active
  /\ UNCHANGED <<slots, at, reported, out, bad, stored, restarts>>

\* WriteBacktestOutputs and MarshalBacktestJobSummary.
WriteBacktestOutputs(i) ==
  /\ pc[i] = "write"
  /\ \/ pc' = [pc EXCEPT ![i] = "finish"] /\ UNCHANGED <<job, lost>>
     \/ Fail(i, FALSE)
  /\ UNCHANGED <<slots, at, reported, out, bad, stored, active, restarts>>

----------------------------------------------------------------------------
\* dispatchStage05ComparisonJob: wait for a slot, then run.
AcquireSlot(i) ==
  /\ pc[i] = "wait" /\ Cardinality(slots) < Slots
  /\ slots' = slots \cup {i}
  /\ pc' = [pc EXCEPT ![i] = "prep"]
  /\ Write(i, Progress(i, 5))
  /\ UNCHANGED <<at, reported, out, bad, stored, active, restarts>>

\* Mutant: return the slot only after a comparison that succeeded.
ReleaseOnSuccess(i) ==
  slots' = IF pc'[i] = "ended" /\ pc[i] = "finish" THEN slots \ {i} ELSE slots

\* The deferred release: whichever way the job ends, its slot is free again.
Release(i) == slots' = IF pc'[i] = "ended" THEN slots \ {i} ELSE slots

\* runStage05ComparisonJob up to the comparison: the inputs, the validated
\* manifest and the research readiness.
PrepareComparison(i) ==
  /\ Kinds[i] = "stage05" /\ pc[i] = "prep"
  /\ \/ /\ Write(i, Progress(i, 35))
        /\ pc' = [pc EXCEPT ![i] = "compare"]
     \/ Fail(i, FALSE)
  /\ Release(i)
  /\ UNCHANGED <<at, reported, out, bad, stored, active, restarts>>

\* RunStage05Comparison and the bounded source artifact of Stage 07.
Compare(i) ==
  /\ pc[i] = "compare"
  /\ \/ pc' = [pc EXCEPT ![i] = "evidence"] /\ UNCHANGED <<job, lost>>
     \/ Fail(i, FALSE)
  /\ Release(i)
  /\ UNCHANGED <<at, reported, out, bad, stored, active, restarts>>

\* Mutant: mark the job completed before its evidence is stored.
CompleteFirst(i) ==
  /\ pc[i] = "evidence"
  /\ Write(i, Completed(i))
  /\ pc' = [pc EXCEPT ![i] = "finish"]
  /\ UNCHANGED <<slots, at, reported, out, bad, stored, active, restarts>>

\* executeAndPersistStage05ComparisonJob, first update: the digests and the
\* source artifact.
StoreEvidence(i) ==
  /\ pc[i] = "evidence"
  /\ Write(i, [job[i] EXCEPT !.artifact = TRUE])
  /\ pc' = [pc EXCEPT ![i] = "finish"]
  /\ UNCHANGED <<slots, at, reported, out, bad, stored, active, restarts>>

\* The last update of either kind of job.
FinishJob(i) ==
  /\ pc[i] = "finish"
  /\ Write(i, Completed(i))
  /\ pc' = [pc EXCEPT ![i] = "ended"]
  /\ Release(i)
  /\ UNCHANGED <<at, reported, out, bad, stored, active, restarts>>

\* The server stops: its goroutines and its channel are gone, the rows stay.
\* Nothing resumes or fails a job that was left pending or running.
ServerStops ==
  /\ restarts < MaxRestarts
  /\ restarts' = restarts + 1
  /\ pc' = [i \in JobIds |-> IF pc[i] = None THEN None ELSE "ended"]
  /\ slots' = {}
  /\ out' = [i \in JobIds |-> [r \in Runners |-> 0]]
  /\ UNCHANGED <<job, at, reported, bad, stored, active, lost>>

Step(i) ==
  \/ PrepareLegacy(i) \/ JoinLanes(i) \/ JoinWindows(i)
  \/ RegisterExperimentRun(i) \/ ActivateExperiment(i) \/ WriteBacktestOutputs(i)
  \/ PrepareComparison(i) \/ Compare(i) \/ StoreEvidence(i) \/ FinishJob(i)
  \/ (\E r \in Runners : Deliver(i, r))
  \/ (\E l \in Lanes : LaneBar(i, l) \/ LaneEnd(i, l))
  \/ (\E w \in 1..Windows : TakeWindow(i, w) \/ RunReturns(i, w)
                             \/ NextRun(i, w) \/ WindowDone(i, w))

JobsNext ==
  \/ (\E i \in JobIds : StartBacktestJob(i) \/ StartStage05ComparisonJob(i))
  \/ (\E i \in JobIds : Step(i) \/ AcquireSlot(i))
  \/ ServerStops

JobsSpec == JobsInit /\ [][JobsNext]_jobsVars

----------------------------------------------------------------------------
\* BACKTEST_MAX_CONCURRENT_JOBS: no more comparisons run at a time than there
\* are slots, and one that runs holds a slot, however it is interrupted.
SlotsAreHeld ==
  LET running == {i \in JobIds : Kinds[i] = "stage05" /\ pc[i] \in {"prep", "compare", "evidence", "finish"}}
  IN running = slots /\ Cardinality(running) <= Slots

\* What a job ended as never changes: no late progress callback of a lane or
\* a window turns a completed or failed job back into a running one.
TerminalIsFinal ==
  \A i \in JobIds : job[i].status \in Terminal => job'[i].status = job[i].status

\* progress.go:127: the reported progress of the dual lanes is that of the
\* slower one, so the end of their band is reached by both or not at all.
DualLaneBand ==
  \A i \in JobIds, l \in Lanes :
    pc[i] = "lanes" /\ out[i][l] = 70 => \A k \in Lanes : at[i][k] >= EngineBars

\* A completed comparison has the evidence Stage 07 needs, wherever the
\* server stopped, unless an update of its row was lost.
CompletedIsSource ==
  \A i \in JobIds :
    Kinds[i] = "stage05" /\ job[i].status = "completed" /\ i \notin lost
      => job[i].artifact /\ job[i].summary

\* The experiment the model artifact names is stored, wherever the server
\* stopped.
ActiveExperimentStored == active # 0 => active \in stored

\* Progress is that of the slower lane, comparisons run in their slots, the
\* experiment that the model artifact names is stored, and a completed
\* comparison has its evidence, wherever the server stops (runBacktestJob,
\* dispatchStage05ComparisonJob, executeAndPersistStage05ComparisonJob).
JobsAreBacked ==
  /\ JobsTypeOK /\ DualLaneBand /\ SlotsAreHeld
  /\ CompletedIsSource /\ ActiveExperimentStored
=============================================================================
