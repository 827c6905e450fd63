# A TLA+ verification of the trading bot

This directory holds TLA+ modules translated from the Go code under `src/`, the
TLC configurations that model-check them, and TLAPS proofs about them. It is
meant to be kept beside the code: each definition names the code it stands for
in `PROJECT.json` (`map`), and each property names the behaviour it is about.

## 1. The system

The program is one Go server (`cmd/server`) with a PostgreSQL database, a set of
command-line tools, and a browser front end. It trades on paper: prices come
from an exchange stream, fills are made locally, and every change of money goes
through an append-only ledger. Around that core it researches strategies:
historical bars are ingested and sealed, strategies are replayed and compared,
studies are registered and decided, and a staged cutover moves authority from
the legacy trading loop to a shared engine.

| Component | State it keeps | Operations | What is hard | What makes it correct | Module |
|---|---|---|---|---|---|
| Decimals (`accounting`) | none | `Add`, `Mul`, `Div`, `MulDiv`, `roundQuotient` | half-unit rounding at scale 18 | nearest rounding; shares of a whole never exceed it | `Decimal` |
| Ledger service (`ledger/service.go`, `adjustment.go`, `correction.go`, `backfill.go`, `reconcile.go`) | wallet, positions, batches, events, migration state | `ApplyFill`, `ApplyAdjustment`, `ReverseCashEvent`, `ApplyAssetCorrection`, `Backfill`, `reconcileCurrent` | idempotent retries, reversals after partial sales, backfill reading outside its transaction, rounding | projections equal the event sums; nothing is overdrawn; events are immutable; a ready account reconciles | `Position`, `Ledger` |
| Schema and triggers (`database`) | the tables | deferred coupling triggers, immutability guards, `seedLedgerBoundary` | the triggers restate in SQL what the service does in Go | the triggers never refuse an honest transaction | `Ledger` |
| Broker-outcome adapter (`ledger/tradingcore_adapter.go`) | ingestions, orders, fills | `RecordBrokerOutcome` | several fills in one outcome, two ingestions of one identity, lost acknowledgements | all or nothing, once, and no overfill | `BrokerOutcome`, `OutcomeLog` |
| Execution coordinator (`services/execution_coordinator.go`) | `close_requests`, `positions.exit_pending` | `RequestClose`, `RecoverPendingCloses` | several callers, three transactions, crashes between them, reopened positions | a lifecycle is sold once, by its own reservation, at its captured price; an unfinished close is finished after a restart | `CloseCoordinator` |
| Position monitor, stream supervisor, exit rules, the reconciler of every minute | worker per symbol, last marks, trailing stop | `Reconcile`, `processPriceEvent`, `UpdatePositionsPrices`, bar-close evaluation | overlapping reconciliations, marks that overtake each other, a stream that dies unnoticed | no stream is forgotten; a price at the stop is acted on | `PositionWorkers`, `PositionMarks` |
| Trade cycle (`services/trending.go`, `shared_engine_adapter.go`) | settings, positions, shadow observations | `AnalyzeTrendingCoins` on the legacy and the shared engine | overlapping cycles, fallback after a failure, torn snapshots | limits hold or are exceeded by a known number; no symbol is bought twice in a cycle | `TradeCycle` |
| Trading core (`tradingcore`) | decisions, intents | orchestrator, risk engine, brokers | several intents competing for one limit, order of charging and of booking | the ledger can book what was approved, and the limits hold afterwards | `Risk` |
| Universe selection (`services/universe.go`) | snapshots and members | build, select, store, replay | partial storage, overlapping builds, derived limits | a replay sees the latest snapshot that is not in its future | `Universe` |
| Governance (`governance/service.go`) | approvals, monitoring evidence, transitions, deployments, model settings | `Approve`, `RecordMonitoringEvidence`, `Transition`, `Rollback` | clocks read before locks, first transition without a row to lock, two models sharing one pair of settings | one history per context; each promotion approved in place and observed long enough; a rollback is final | `Governance` |
| Cutover, parity, incidents (`operations`, `cutover`) | state, transitions, flags, policies, populations, incidents, counters | `TransitionCutover`, `Initialize`, `DeclareParityPolicy`, `PersistParityBound`, `RaiseIncident`, `RecordBrokerConflict` | replays that activate old flags, relabelled evidence, repeated alerts | no stage without its evidence; a verdict is final; repeated conflicts escalate | `Cutover`, `Parity`, `Incidents` |
| Point-in-time data (`pointintime`) | bars, checkpoints, manifests, snapshots, cache | ingest, seal, verify, read as of, build ranges, preflight | checkpoints shared by ranges, late pages, revisions, concurrent loads | what was known at a time never changes | `Dataset`, `UniverseRange`, `DatasetCache` |
| Backtest (`backtest`) | jobs, progress, experiments, in-memory ledger | jobs, inputs, bar loop, Stage 05 replay, comparison | goroutines reporting late, ticker changes, fills without volume | one terminal state; no look-ahead; every shortfall is on record | `BacktestJobs`, `BacktestInputs`, `BacktestEngine`, `Stage05`, `Registry`, `Comparison` |
| Validation (`validation`, its handlers) | families, manifests, jobs, outcomes; frozen folds | register, run, persist; split, freeze, test and judge the folds | crash between two transactions, repeated requests, labels that look past a boundary | one outcome; a holdout is used once; no fold is fitted on what it is tested on | `Study`, `WalkForward` |
| AI proposals and drafts (`services/ai.go`, `handlers/ai.go`) | proposals, model configuration | generate, approve, deny, page, dispatch | values read before a call of minutes, overlapping saves | advice stays within limits and locks; nothing but simulation is drafted | `Proposals`, `Drafts` |
| Decision cohorts, model registry, governance overview | cohorts, artifacts, policy versions | mature, promote, synchronise | promotion races | one active model | planned |
| Websocket hub | clients, channels | register, broadcast, unregister | slow clients | no send on a closed channel | planned |
| HTTP handlers, cron, auth, configuration, tools, front end | none of their own | calls into the above | see the called part | see the called part | as callers |

How the parts interact: the monitor, the cron reconciler, the bar-close pass and
the handlers all call the coordinator's `RequestClose`, which calls `ApplyFill`
inside its own transaction under the reservation's id as idempotency key. Buys
of the legacy cycle call `ApplyFill` directly; the shared engine sends a batch
through the risk engine and a broker, and the adapter books the whole outcome in
one transaction. Which engine a cycle uses depends on the settings, on the flags
that the cutover activated in the process, and on the deployment that governance
holds. Jobs replay what ingestion sealed, the comparison of a job is what the
optimizer may use as evidence, and a study's outcome is what governance may
promote. The tools under `cmd/ledger` run against the same tables while the
server may be running.

`PROJECT.json` lists the hazards of this code, each at its line, with the
properties that would catch it going wrong.

## 2. Modules

    Decimal <- Position <- Ledger <- MCLedgerFresh, MCLedgerUpgrade
                  |           ^----- LedgerProofs
                  ^- PaperRoundTrip <- MCSimulation, LedgerProofs
    OutcomeLog -(refined by)- BrokerOutcome <- MCBrokerOutcome, ExecutionProofs
    CloseCoordinator <- MCTrading, MCClose, ExecutionProofs
        MCTrading - - TradeCycle <- TradingProofs
    Governance <- MCGovernance, GovernanceProofs
    Cutover, Incidents, Parity, PositionWorkers, PositionMarks <- MCOperations,
                                                                  OperationsProofs
    Registry <- Comparison, Drafts
    Study, DatasetCache, BacktestJobs <- MCLab, StudyProofs
        MCLab - - WalkForward, Comparison, Drafts, Proposals <- ResearchProofs
    Risk <- MCSimulation, TradingProofs
    Dataset, UniverseRange <- MCSimulation, StudyProofs
        MCSimulation - - Universe, Stage05
        MCSimulation - - BacktestInputs <- StudyProofs
        MCSimulation - - BacktestEngine <- TradingProofs
    SumProofs <- LedgerProofs, ExecutionProofs, StudyProofs, ResearchProofs, TradingProofs

(`<-` is EXTENDS, `- -` is INSTANCE. An abstract specification is instantiated by
the detailed one with a refinement mapping.)

**`Decimal`** (`accounting/decimal.go`, `CostedPaperFill`). A `Decimal` is the
integer number of units of its last digit; `Factor` units make 1 (10^18 in the
code, any positive number here). `Quo` and `Rem` are Go's truncating `QuoRem`;
`roundQuotient` rounds halves away from zero as the code does.

**`Position`** (`applyPosition`). The row arithmetic of one fill: weighted
basis on a buy, the rounded share of the basis on a sale, realized PnL, fees, and
what a new lifecycle carries over from a closed row.

**`Ledger`** (`internal/ledger`, `ledger_seed.go`, the deferred triggers). The
variables are the tables. A batch keeps its whole payload where the code keeps a
SHA-256 of it: two payloads are taken to hash differently. Two history variables
are added: `posted`, the running sums that the triggers recompute with `SUM`, and
`outcome`, what the last command returned. Every command is one action because it
is one transaction behind the account's advisory lock; `Backfill` is two, because
it counts open positions before its transaction begins. An action first consults
its key (`Replay`), then its preconditions, then the triggers at commit, and only
then changes the tables. A nil `*Decimal` column is `exact = FALSE`.

**`PaperRoundTrip`** composes the cost model with `applyPosition` for one
position at an unchanged mark: which sequences of fills gain what.

**`OutcomeLog`** is what the port `RecordBrokerOutcome` promises: an outcome is
recorded under its identity once, whole and for ever. **`BrokerOutcome`** is the
adapter: validation, lookup, insertion of the ingestion row (which waits for an
uncommitted one of the same identity), one fill after another under the account
lock, commit, and the recovery that takes a failure for success when the
identical outcome is recorded. Statements fail, acknowledgements are lost, and a
withdrawal may take the cash in between. It refines `OutcomeLog`. An outcome's
batch is a sequence of orders with sequences of fills; `WellFormed` says what
each member of one is, and is assumed of the outcomes an instance offers.

**`CloseCoordinator`** (`execution_coordinator.go`, `StartExecutionRuntime`, the
evaluators' `exit_pending` tests). The opening time, which is part of a
reservation's id, is the number `cycle` of the lifecycle. A caller is at
`decided`, `reserved` or `failed` between its three transactions. Each
transaction commits, is rolled back, or commits and loses its reply; the server
may crash at any point and loses every caller. `Buy` and `ReverseCorrection` are
the other writers of the row. Recovery reads the ids of the unfinished
reservations once and works through them in `created_at` order: the queue is the
set of their places in `created`.

**`PositionMarks`** (`processPriceEvent`, `UpdatePositionsPrices`,
`EvaluateOpenPositionsOnBarClose`, `exit_rules.go`, `position_projection.go`). The
worker of the stream, the reconciler and the evaluation of closed bars each read
the row of one position, ask for a price, compute a trailing stop, write mark and
stop in one `UPDATE` that a later mark refuses, and then decide; the reconciler
only while the stream is silent. Times are ages. From the decision on the close
is `CloseCoordinator`'s: here a request always reserves. An error that the
reconciler meets at one position ends its pass for those after it; one position
is modelled, so that is a failed pass. **`PositionWorkers`**
(`position_monitor.go`, `stream_supervisor.go`, `exchange_stream.go`) is the
life of the workers: reconciliations of several goroutines that read the open
positions, subscribe without the lock, look again, and stop what is not required.

**`Governance`** (`governance/service.go`). `Transition` and `Rollback` share
their steps: `Check` (clock, advisory lock for a transition, lookup of the key),
`Lock` (the row of the deployment, if there is one) and `Commit` (all
conditions, the row, the deployment and the projection on the settings, or
nothing). `Abort` is a transaction that PostgreSQL or the connection ends. The
clock of a request may lie before its first step, because the code reads it
before it waits for the lock. `Approve` and `RecordMonitoringEvidence` are one
action each: they insert one immutable row made of what they read. An experiment
stands for its manifest and its one evidence. That live targets of a confirmatory
study require observation is an assumption, justified by `manifest.go:138`.

**`Cutover`** (`operations/service.go`, `cutover/flags.go`). The database holds
one state, an immutable history of transitions and the flag snapshots they name;
`TransitionCutover` locks the state row, so its transaction is one action, and
only then activates the flags of the row it answers with, in the memory of the
server. A restart verifies the environment's flags against the stored envelope
and walks the chain of transitions back to the acceptance of parity.

**`Parity`** (`cutover/parity.go`, `operations/service.go`). Policies,
populations and observations are immutable rows; `PersistParityBound` is one
action behind an advisory lock, `DeclareParityPolicy` is two because it locks
nothing. Decisions are compared field by field: exact fields, numeric fields
with a tolerance, declared differences. An unexplained difference in symbol,
side, rejection code, factor trace or timestamps is counted in no bucket. Rates
are integer divisions in basis points (`Basis`, 10000 in the code), and a
population has at most `MaxDecisions` contexts (the 10000 of
`BeginParityPopulation` and of the retention check); the module assumes
`MaxDecisions <= Basis`, as the code's two equal numbers do.

**`Incidents`** (`RaiseIncident`, `TransitionIncident`, `monitor.go`). One
transaction that locks the incident row if there is one, then the alert, then
the record of its delivery; two first raises both insert and the second fails.
Broker conflicts are counted in a transaction of their own before the raise.

**`Risk`** (`tradingcore/risk.go`, `brokers.go`, `orchestrator.go`). One decision
of the shared engine: any batch of intents is capped and charged one after
another in the order of `NewDecisionBatch` (`Precedes`), filled by the simulation
broker at the adverse price, and booked fill by fill in any order. Batches
over-approximate what the strategies propose. Runtime
snapshots always carry `PyramidLayers = 1`.

**`TradeCycle`** (`trending.go`, `shared_engine_adapter.go`). One cycle from the
settings it reads to the positions it opens, in every routing mode: legacy,
shared with and without fallback, shadow comparison, and each mode of the cutover
flags. Cycles overlap, closes are reserved and sold between their steps, and a
query may fail. The shared engine reads the wallet, the positions and the fills in
steps of their own (`ctx` is what it holds by then), so that anything may happen
between them; it decides while a close is reserved too, whose position is open and
counts. A candidate's place in the shortlist is its rank; the risk engine approves the
best of them (`Best`) while positions, cash and turnover leave room.

**`Universe`** (`services/universe.go`, `resolveReplayUniverse`). Candidates,
hard filters, ranking, stages and the two inserts that store a snapshot; and the
replay that reads stored snapshots back. The candidate pool is capped at 80.

**`Dataset`** (`pointintime/ingest.go`, `manifest.go`, `repository.go`). Pages
with a checkpoint, revisions refused by content, manifests sealed by a cutoff,
verified once per process, read as of a time. **`UniverseRange`** builds snapshots
over a range with a checkpoint and models the readiness preflight. The checkpoint
does not say for which range it was written, so a history variable, `origins`,
keeps where the runs began that moved it: `FinishedRangeIsBuilt` speaks of the
ranges that begin no earlier than any of them.
**`DatasetCache`** is the bars cache: one load per key, least recently used
entries evicted by bytes. The bytes are counted as the code counts them, up by a
new entry and down by each one evicted, never summed afresh.

**`Study`** (`validation`). A manifest is registered as an attempt of its family,
jobs replay it in goroutines, and the first job to commit gives the attempt its
one outcome. **`WalkForward`** (`walkforward.go`, `primitives.go`,
`evaluation.go`) is the replay itself: every fold is split with purge and
embargo, fitted by its own runner and frozen before any fold is tested; metrics
are derived from trades, fills and open positions, checked again, and the folds
judged together. The bootstrap bound is any value between the extremes of the
folds.

**`BacktestJobs`** (`backtest/job.go`, `progress.go`, `validation.go`,
`registry.go`). Legacy jobs with two lanes and a pool of validation windows;
comparison jobs that wait for a slot. Every update of a row may be lost, and the
server may stop at any point; the history variable `lost` names the jobs that lost
an update, of whose rows nothing more can be said.
**`BacktestInputs`** is how a job gets its bars (a pool of goroutines that feed a
buffered channel) and its symbol constraints (`InputsAreWhole`).

**`Stage05`** (`backtest/stage05.go` and `tradingcore/trend_momentum.go`). The
portfolio replay: planned targets, ticker changes, reductions before additions,
one order at a time through the risk engine, a broker that may not fill, and an
in-memory ledger; stops between rebalances; liquidation at the end. What a
planner sees in the prices is left open: it names any targets the universe
allows, in equal weights.

**`BacktestEngine`** (`backtest/engine.go`, `stage03.go`, `shared_engine.go`,
`exit_rules.go`). The bar loop: coverage contract, renames, intrabar and
bar-close exits with trailing stops, liquidation at the end of data, entries, and
the classification of a run without trades. The scan of a bar's sub-bars is in
closed form: the first sub-bar that hits, at the level that the sub-bars before it
set. Sizes and cash are `Risk`'s and `Stage05`'s matter.

**`Registry`** (`strategy_registry.go`) resolves identities and parameters;
**`Comparison`** (`stage05.go`, `services/ai.go`) checks a request, runs the
strategies, builds the gate, and lets the optimizer decide again from the stored
rows; **`Drafts`** (`handlers/ai.go`) asks the model for experiments and shows
them only when all resolve; **`Proposals`** (`services/ai.go`) generates, stores,
approves, denies and pages proposals and saves the model configuration.

Each module also defines mutated forms of some definitions, named in comments as
mutants: plausible mistakes in that code. They are not used by any
specification; substituting one for its original must break the property that
`PROJECT.json` pairs it with, which shows that the property depends on the code.


## 3. Runs

| Run | Instances | Checks |
|---|---|---|
| `ledger_fresh` | one symbol, three keys, fills that round (scale 4), deposits and withdrawals, opening cash 12 | `Accounted` (`PostedIsSum`, `EquityIdentity`), `Solvent`, `AppendOnly` |
| `ledger_upgrade` | two symbols, one with an open and one with a closed legacy row, two concurrent backfills, five keys | `Settled` (with `ReadyIsBalanced`, `ReversalsCancel`), `Reconciled`, `CouplingOnlyFromResidue` |
| `ledger_residue` | the same | violates `ServiceSatisfiesTriggers` (finding 3) |
| `outcome` | two workers, six outcomes of one to three fills under two identities, four calls, two faults, two withdrawals | `OutcomesAreWhole`, `CallReturns`, `ImplementsLog` |
| `trading` | `overlap`, `modes`, `shared`: trade cycles on both engines; `close`: one position, three callers, two lifecycles, two faults; `reboot`: two positions, one held on the exchange | `CyclesAreBounded`, `CommitsAreSound`, `CycleEnds`, `SoldOnce`, `RebootRetriesEvery` |
| `close_head_of_line` | two positions, one held through a correction | violates `StartupRetriesEvery` (finding 2) |
| `close_stuck_exit` | one position, one fault | violates `FailedSaleIsRetried` (finding 1) |
| `governance` | `race`: two requests for one experiment; `versions`: two experiments of one version, one quarantined; `models`: two models; `back`: rollbacks asked for again | `OneHistory`, `PromotionsAreEarned`, `ExperimentKept`, `SettingIsDeployed`, `RollbackIsFinal` |
| `operations` | `cutover`: six stages, six transitions, one rollback; `parity`: populations of up to two of three contexts with rates in halves (so that the cap is met and one divergence just shows), two policies, five pairs, two attempts; `incidents`: two callers, three raises, one crash; `stream`: a stream that dies and the reconciler; `marks`: ticks against closed bars; `workers`: two symbols, two reconciliations, three subscriptions, three changes, one failure | `CutoverIsEarned`, `ParityIsJudged`, `IncidentsAreAudited`, `StreamsAreOwned`, `MonitorsMissNothing`, `HistoryIsKept`, `WatchersReact` |
| `cutover_effective` | the cutover instance of the same | violates `EffectiveIsPersisted` (finding 4) |
| `lab` | `explore`, `confirm`: studies with a crash; `walk`: two layouts of folds with every purge, embargo and horizon up to two, and every refused layout; `judge`: every pair of 90 test results; `lanes`: a legacy job that loses updates and meets a restart; `evidence`: three comparisons on two slots, two restarts; `finish`: either, none of them lost; `compare`, `drafts`: valid requests of every strategy and version, and every kind of refusal; `generate`, `pages`, `resolve`, `configure`: proposals, with two requests that resolve them and three updates of the model configuration at once; `cache`: four keys of three sizes | `StudyIsEvidenced`, `JobsAreBacked`, `ResearchIsFair`, `AdviceIsBounded`, `CacheIsExact`, `RecordsAreFinal`, `WorkEnds` |
| `simulation` | `ingest`: one range, two ingesters, two runs with revisions; `asof`: one ingester, early, punctual and delayed bars; `select`, `overlap`: live universes; `range`: snapshots built by two workers over ranges of one start; `preflight`: by one worker, over a range beyond a hole as well; `inputs`: three series on two goroutines; `rename`, `flat`, `stops`, `liquidation`: four bars of Stage 05; `fine`, `ticker`, `coarse`: the bar loop; `trip`: four fills at three marks with and without costs; `risk`: batches over three instruments, three policies | `DataIsPinned`, `RangesAreObserved`, `ReplayIsAccounted`, `EngineIsHonest`, `RoundTripIsFair`, `ApprovedIsBookable`, `StepsAreSound` |

*Suites.* `MCTrading`, `MCGovernance`, `MCOperations`, `MCLab` and `MCSimulation`
each hold several instances. The variable `part` picks one in the first state,
that instance takes the steps, and the variables of the others stay as they
start. A behaviour of a suite is therefore a behaviour of one instance and nothing
else. Each suite EXTENDs one component or several, whose properties (`SoldOnce`, those of
governance, `CutoverIsEarned`, `IncidentsAreAudited`, `StudyIsEvidenced`,
`JobsAreBacked`, `CacheIsExact`, `DataIsPinned`, `RangesAreObserved`,
`RoundTripIsFair`, `ApprovedIsBookable`) are checked as they stand, by the names under
which they are proved: their parts take the component's own steps, some of them
held to fewer members of the suite's sets, or those of instances for such subsets. The other components are instances, and a property of
theirs is written `part = "x" => ...`. The components of a suite share no variable
in the model: what one learns from another (that a study passed, that a
deployment exists, what a market did) is an action or a choice of its own. Each
suite asserts the assumptions of all its instances. The properties of a suite
are conjunctions; each conjunct is defined, with its own comment, in the module
of its component.

*Bounds.* Every ledger command consumes a key, so the number of keys bounds the
number of commits: three allow buy, partial sale and full sale; five allow
opening, correction, buy, sale, and a reversal with a repetition. Retries of a
known key are not bounded. The amounts are chosen so that products do not divide
evenly, cash runs out, and the last sale must release a remainder. Keys,
sessions and backfills are interchangeable and are declared symmetric where
only safety is checked. In `close`, `MaxCycle` bounds lifecycles, `MaxAmount` the
lots bought into one, `MaxFaults` the crashes, rollbacks and lost replies
together: two faults give a lost reply followed by a crash during the recovery
from it. In `governance` each commit consumes a key; `Asked` and `Found` bound
what clients ask for and what monitoring finds: the stages above paper obey the
same conditions as paper. One unit of time is both the life of an approval and
the observation a live stage requires, so approvals expire and stages can be
entered too early. Cash of the `outcome` run pays four of the five unit fills, so
that an outcome can fail part-way. In `stream` one unit of
time is half a minute: a tick may be one old, a stream counts as healthy for three
and the reconciler runs every two, so that it meets a stream that died but still
counts as healthy. The `risk` policies bind one limit at a time or
all together. The replays of four bars hold an entry, a rebalance, a rename or a
stop, and an exit; two lot sizes make dust.

Counters of commits, crashes, faults, calls and time end every behaviour of the
suites and of `outcome`, and studies, jobs and requests do end, so
deadlock is not checked there. It is checked in the ledger and close runs.

*Conditions.* Some conjuncts hold only where the code makes no mistake that
section 5 describes, and the instance is chosen accordingly:
`FinishedRunHasItsBars` with one range per series, `FallbackOnlyWithoutStop` and
`LedgerChronological` without sub-bars, `StopTaken` without a rename,
`RebootRetriesEvery` without a reversible correction (with one, `StartupRetriesEvery`
of `MCClose` fails: finding 2).
Some properties say the condition themselves: `FinishedRangeIsBuilt` is about a range
that begins no earlier than the runs that moved the checkpoint, `CompletedIsSource`
about jobs that lost no update; `DispositionFinal` lets a proposal be resolved twice
only by requests that overlap, and `BlankKeepsKey` lets a key be lost only to an
update with a blank key that overlaps another. The observations in section 5 say what
happens outside these conditions.

*Fairness.* Only where a property needs it:

- `reboot`, `close_head_of_line`, `close_stuck_exit`: weak fairness of
  `RecoverPendingCloses` (the compose file restarts a stopped server,
  `restart: unless-stopped`, and startup runs to its end or fails), of each
  caller's `RequestClose` (a goroutine that began a close finishes it unless the
  process dies) and of `Decide` for automated callers (ticks keep coming).
  Handlers, buys, reversals and faults get none.
- `shared`: weak fairness of the steps of a started cycle; its HTTP calls have
  time limits and it waits for nobody else.
- `outcome`: weak fairness of a worker's next step, failure included.
- `incidents`: weak fairness of a caller that was not lost.
- `stream`: weak fairness of the ticks of a connected stream, of the reconciler's
  schedule and of an evaluation that began, and strong fairness of time. A lost
  connection need never come back.
- `lab`: weak fairness of goroutines, of the model's answer (its client has a
  timeout) and of the client that asks again for a run it was told is queued;
  strong fairness of taking a slot, because a Go channel serves its senders in
  order.

## 4. Proofs

Every theorem holds for all values of the constants that satisfy the assumption
named in the component's module (`LedgerAssumption`, `CloseAssumption`, and so on;
TLC evaluates each on the instances of section 3): any sets of positions, symbols,
callers, keys, outcomes, experiments and envelopes, any prices and amounts, any
bounds on faults, lifecycles and time. Sets that are summed or counted are
finite, which the database guarantees. An invariant the runs check is seldom
inductive. Each module of proofs therefore begins with a strengthening, proves
with one lemma per operation that every step keeps it, and concludes.

**`LedgerProofs`.** On rounding, for every scale: `roundQuotient` returns the nearest
integer of a non-negative quotient (`RoundsToNearest`); the share of the basis that
a sale releases lies between zero and the whole, and is the whole for a full
sale (`ShareOfBasis`). On the ledger: `LedgerInvariant` (`Spec => []LedgerInv`), its
consequences `TypeCorrect`, `AlwaysReconciled`, `AlwaysSolvent`, `TriggersAgree` and
`ReadyMeansResolved`, the action property `LedgerIsAppendOnly`, and on top of it
`AlwaysAccounted` and `AlwaysSettled`.

`Reconciled`, `Solvent` and `CouplingOnlyFromResidue` are not inductive alone.
`LedgerInv` adds: columns that are nil are zero, and a row that does not exist
is nil (`NilIsZeroIn`), without which a first buy would not match its events; an
event that is not a fill moves either cash or one symbol's asset and basis, and
only a correction's asset is positive (`Shape`), which is what
`ReverseCashEvent` relies on when it subtracts an original from both
projections; before the opening batch nothing is posted and no row changes
(`OpeningFirst`), which is why the count a backfill took outside its transaction
is still right inside it; and a ready account has no unresolved row
(`ReadyIsResolved`), so that fills never meet a legacy row. Every command ends in
`Commit`: `CommitPreserves` does the case split on the triggers once, and one
lemma per command shows that the projections after it equal the posted totals,
so that `Coupled` holds or the account has a residue. The sale's case rests on
`ShareOfBasis`.

`Reconciled` compares rows with the running totals `posted`. `BookInv` ties those
totals to the tables: they are the sums of the events (`BooksOf`), equity is what
was brought in plus what was realized (`EquityOf`), an event is named after a
stored batch and by no other event (`Named`), a reversal has its original among
the events, cancels it in every dimension and is its only one (`ReversedOnce`),
and the batch of a fill holds that fill and its fee and nothing else
(`RestatedIn`). `PostBooks` says that one more event keeps the books, `CommitBooks`
which events a transaction may add. From it `AlwaysAccounted` (`PostedIsSum`,
`EquityIdentity`) and `AlwaysSettled` (`ReadyIsBalanced`, `ReversalsCancel`).

`RoundTripsFair` (`RoundTripIsFair`) is about a position bought and sold in any parts
at an unchanged mark, for any scale, fee and slippage. That a flat account has
gained at most half a unit a fill says nothing about an open one, so `TripInv`
values what is held at the price it was bought for: cash earned plus that worth
grows by at most half a unit with each fill. A purchase pays its gross, rounded
to the nearest unit; a sale is priced no higher than a purchase, because rounding
is monotone (`RoundIsMonotone`, `CostsAreAdverse`). `TripInv` also says that realized
PnL is cash earned plus the basis still held, which for a flat position, with no
basis left (`ShareOfBasis`), is `RealizedIsCash`.

**`SumProofs`.** The sums of the models are folds of the library over finite sets,
taken in an order that `CHOOSE` fixes. The module shows that the order is
immaterial: adding, removing or changing one row changes the sum by that row,
disjoint sets and pointwise sums add up, a one-to-one image has the same sum, and
bounds on the rows bound the sum. The induction theorems of the library take an operator and
cannot be used; `SetInduction` does the same for a set of sets, by a least
counterexample.

**`ExecutionProofs`**, on the adapter. `IngestionsExclusive` shows `OutcomeInv`: a worker that
books fills holds the uncommitted row of its identity, and that identity has no
committed outcome (`RowHeld`). This is what excludes two ingestions of one
identity; a lookup that found nothing is stale as soon as it returns. From it
`AdapterImplementsLog` (`ImplementsLog`): each step of the adapter is a step
of `OutcomeLog`, one whole outcome under an identity that had none, or leaves the
log alone. `OutcomesWhole` adds `WInv`: only validated outcomes are on their way or
recorded (`Checked`), and a transaction that pays holds the account, so the cash
it saw is still there when it commits, and has paid exactly for the fills it has
done (`Priced`). Then what is recorded is whole, each fill is paid once, orders
add up and success is reported only of what is recorded (`OutcomesAreWhole`).

On the coordinator, `SoldOnceHolds` and `ReservationsKept` (`KeepsReservations`). The
invariant is `Book`, on the tables, and `Control`, which only types callers, server
and queue: what a caller remembers of an earlier transaction never matters,
because `applyClose` reads it all again. `Book` needs two facts nobody would test
for. An open position's lifecycle is not applied yet (`OpenIsUnsold`), so that the
sale under a reservation is its first; and sales are of lifecycles that have
begun (`SalesArePast`), so that a buy, which starts the next one, meets a
reservation that cannot be applied.

**`GovernanceProofs`.** `OneHistoryHolds`, `PromotionsEarned`, `ExperimentIsKept`,
`SettingDeployed`, and `RollbackKept` for the action property. Three parts:
`Tables` types them. `Locks` says that the advisory and the row lock exclude each
other's sessions and that what a session read under its lock is still so when it
commits (`LockedIsCurrent`), except for a first rollback, which holds no row and
is refused. `History` says that the deployment is its last transition
(`Deployed`), that states are left in the order of the one path (`Ordered`, by a
rank), and that approvals and monitoring evidence were made about transitions on
record (`Sourced`, `Observed`). The service compares only the state and time an
approval was given in; that this identifies the deployment follows from `Ordered`:
a state is entered once.

**`StudyProofs`.** `StudiesEvidenced` and `OutcomesFinal`. The invariant adds that a
job stays as it was claimed until its goroutine ends (`Owned`), what a goroutine
found can be recorded and a pass about to be recorded has its ML evidence
(`Found`), and every confirmatory manifest has taken the holdout of its family
(`HoldoutTaken`).

`CacheExact` is about the cache of bars (`CacheIsExact`), for any readers, series,
sizes and maximum. A load that is published lands on a list that other loads and
hits have reordered meanwhile; the loop that evicts leaves a prefix of it, and
`Evicted` shows that what it subtracts is what that prefix leaves out, because no
key is twice in the list. That it never is needs `OneLoadPerKey`, and that in turn
`FlightsOwned`: the flight in `c.inflight` is the one its reader started.

`DataPinned` (`DataIsPinned`) and `BarsNeverChange` are about the bars and manifests
of `Dataset`, for any ranges, answers of the exchange, page size and number of
ingesters. `RunIsBacked` says that a run has stored what is behind its cursor and
that the page it is about to commit is contiguous from there; `CheckpointIsBacked`
that what the checkpoint passed is stored, so that a run may skip it. Both need one
start for all ranges of a series (`OneStart`): the checkpoint does not say for which
range it was written, and section 5 describes what the code does otherwise. The
rest of the property needs no such condition. `Pinned` says that a complete manifest
holds the stored rows of its whole interval, all retrieved by its cutoff: no row
is left that could still arrive under the cutoff, and stored rows never change.

`RangesObserved` (`RangesAreObserved`) is about the snapshots of `UniverseRange`, for any
ranges, listings, workers and gaps. `RunIsOnItsWay` says that a run keeps the rows it
will need for every time it has left, although it loaded them once, and that it
checkpoints only what it stored. `BehindIsObserved` is inductive only for all
starting times at once: from any time that is not before the start of a run that
moved the checkpoint, everything up to the checkpoint is observed, and so is
what a run that began no later has behind it. That the preflight leaves no time
unobserved (`NoGapIsObserved`) is a fact about finite sets of times: the last
snapshot before a time and the first after it are neighbours.

`JobsBacked` (`JobsAreBacked`) and `JobsEndOnce` (`TerminalIsFinal`, the jobs' half of
`RecordsAreFinal`) hold for any list of jobs, slots, bars, windows, workers and
restarts. That no late callback revives a job that ended needs, in `JobIsSound`, that
an update on its way belongs to a runner of the stage the goroutine is at: a lane
that ended has none, and the goroutine leaves the windows only when none is left.
That both lanes are done at 70% needs that a lane is at least where it reported
to be, because the rate limiter and the two locks let updates overtake each
other, and a fact about the integer percentage (`PercentOfBand`): only the whole
fraction rounds to the end of the band. `SlotsAreHeld` is inductive as it
stands: slots and goroutines go together, also when the server stops.

`InputsPrepared` (`InputsAreWhole`, the inputs' part of `EngineIsHonest`) is about how a
job gets its bars, for any symbols, processors, horizon and constraint rows. In the
live mode every symbol is in the queue, at a goroutine, in the channel or stored
until the first error (`OnItsWay`), so that nothing is missing once the pool is
drained; and queue, goroutines and channel together never hold more than the
channel can, so that a collector that returns early strands nobody. In the manifest
mode the state says nothing until the inputs are prepared: what is proved there is
that the walk of `constraintsCoverRows` and the resolver agree. At any time the walk
covered, the first of the walked rows that ends later is in force and published, and
the latest row is then too.

**`ResearchProofs`** is about what the lab concludes. `ComparisonsAreFair`
(`ComparisonIsFair`) holds for any requests and returns. `CompareInv` says that the
rows are those of the first strategies of the list, each resolved as the request
asks, and that an artifact says what its rows do; a list names no strategy twice
and every other one than the candidate is a baseline (`ListOf`). Then both
implementations of the gate come down to the same (`Beats`): the job's largest
return of the best baselines exists and is passed exactly if every other row is
(`AllowedBeats`), and the optimizer's loop over the rows says so directly
(`RowsAllowBeats`), because a version that was resolved resolves to itself. That
the matched baseline shares the candidate's rules is a fact about the registry,
for each version (`SharedDeclarations`), which a request can only change for both.

`WalksAreFair` (`WalkIsFair`) holds for any manifests, samples, fits, runners and
results of integer money. That no fold is fitted on what it or a later fold is
tested on needs the windows in order (`WindowsInOrder`) and the horizons that
`ValidSamples` checks. That the derived metrics add up is one fact about sums by
key (`SumByKey`): what the trades and the open positions made is the sum of what
each symbol made, and of what each regime made. That no single window, symbol or
trade carries a study that passes follows from the check for dominance: sizes do
not cancel (`NothingCancels`), so what moved in one place only is the whole of them
(`SpreadHolds`).

`DraftsSound` (`DraftsAreSound`) holds for any bases and answers. What a map of
parameters resolves to is resolved to itself (`CanonicalTwice`), because defaults
are accepted values; hence what was shown can be sent back, and a draft that
differs from those before it when it is checked still does when it is shown.

`ProposalsBounded` (`BatchWithinLimits` and `NeverForLockedKey`) holds for any settings,
limits and answers, and any number of operators. `BatchInv` adds what a generation has
still to store to what it stored (`BatchLoad`, `CategoryLoad`): a row that is stored
leaves the queue, one whose insert fails is forgotten, and the second attempt begins
with neither. That the parser keeps to the limits is an induction over the answer
(`ParseKeeps`), which is why `Parse` is a recursive function. `PagesComplete`
(`PageComplete`) holds for any page size and any times: everything a client saw is
before its cursor and everything else it has to see behind it (`PagerInv`), because
time and id together order the rows strictly and the order of a page exists
(`SortedFacts`, by the rank of a row). `DispositionsFinal` (`DispositionFinal`) and
`BlanksKeepKeys` (`BlankKeepsKey`) hold for any number of requests at once, which
nothing in the service keeps apart: the overlaps of section 5 are all that can go
wrong there. `FinalInv` adds that who works on a proposal was not answered about it
yet, since the status it read was `pending`, and everything answered later overlaps
it; `ConfigInv` that an update which is to keep the key, and has not been overtaken,
holds the one in use.

**`OperationsProofs`.** `CutoverEarned` and `ActivationsOwned`. The state is the last row
of the history and the first row is the safe bootstrap, whose flags stay declared
(`StateIsLast`), which keeps the way back open; populations and answers name rows
(`NamesRows`); and authority at `parity_accepted` or above has a row that accepted a
passed population, below which no later row falls (`Accepted`). `AuthorityEarned`
speaks only of authority that is no longer legacy; inductive is only the stronger
statement about the stage.

`IncidentsAudited` (`IncidentsAreAudited`) holds for any callers and incidents. That
alerts are a cooldown apart is not inductive, since a caller decides to alert in
one transaction and alerts after it. `Spaced` also counts the alerts that callers
still owe, and says that the cooldown of the row reaches past every alert sent or
owed; a row that does not exist has neither, which is why the loser of two first
raises may end without an alert. `Counted` bounds the occurrences of a row by the
raises, less the callers that may still add one.

`ParityJudged` (`ParityIsJudged`) and `VerdictsFinal` (`VerdictIsFinal`, the parity half
of `HistoryIsKept`). The invariant adds that a row's comparison was judged by its
population's policy, that a population has one row for each context, and `Capped`:
no more contexts than the whole in basis points. From the cap follows that one
divergence in a bucket has a rate of at least one, which is why a policy without
tolerance accepts none; with a larger population the verdict would round it
away. One row for each context makes the map from rows to contexts injective, so
a complete population has room for no other row.

`StreamsOwned` (`StreamsAreOwned`) holds for any symbols, goroutines and
subscriptions. `HandedOver` adds that a subscription in a caller's hand is alive
and nobody else's, so that storing it cannot displace a stream and cancelling it
cannot deafen a worker. That an undisturbed reconciliation ends with the right
workers is carried through its steps by `AloneIsRight`: what it has taken has a
worker or is the symbol it is subscribing to, and nobody else is at work. A
cancelled stream is no worker's any more, so a worker that ends finds the entry of
its symbol empty or another's, and the identity check in `runWorker` is what spares
the latter.

`MarksAreJudged` (`MonitorsMissNothing`) holds for any evaluators, prices, settings
and distances. That some evaluator judges is not inductive, because it may judge
an older mark and stop. `WriterJudges` says that the writer of the mark in the row
is among them, with the stop written beside it, and `PendingSeen` that an exit
seen pending is pending still, so that whoever skips a row for it skips nothing.

**`TradingProofs`.** `CyclesAreBound` (`CyclesBounded`, which the part `overlap`
and the part `modes` of the run `trading` check) and `RefusalsAreRaces`
(`RefusalIsRace`). `max_positions` is read once, and positions are counted once, at
the start of a legacy cycle or into the context of a shared one, so no bound on what
is open is inductive. `Budget` is: what
is open, plus what each running cycle may still open, stays within the limit
times cycles and failed reads. `Layered` is its counterpart for one position,
with the cycles that have decided to buy its symbol, and `Sound` says what a cycle
knows of itself (it has not bought what it has still to consider, and in a fenced
process it is routed to nothing that buys).

`ApprovedBookable` is the risk engine's half (`ApprovedIsBookable`): any number of
instruments, prices, policies and decisions, under `RiskAssumption` (a policy's fee
and slippage stay below one, which `ExecutionCostPolicy.Validate` asks for). The
limits speak of the end of a decision, so the invariant carries them there. While
a batch is evaluated, the counters are the portfolio plus the sums over what was
approved (`Evaluated`); exposure is at least the worth of the positions no
approved intent touches, so that a sell never takes it below zero. While the
batch is booked, cash, turnover, exposure and positions keep to the limits with
the remaining fills counted in (`CountedIn`), and each fill moves its share from one
side to the other: hence any order. A buy's cash is what was reserved for it and a
sell's proceeds are not negative, hence no refusal. The assertion about exposure
holds only up to what the broker left of the approved sells (`unsold`).

`EngineHonest` (`RunIsHonest`, the engine's part of `EngineIsHonest`) and
`EngineStepsSound` are about the engine that replays such decisions over history,
in its legacy and its shared mode: any tickers and assets, series, lifecycles,
prices and distances under `BacktestEngineAssumption` (a sub-bar opens between
its low and its high, a bar closes where it traded). A price at an exit and the
level it was sold at come from one bar, but the trailing stop comes from all bars
before it: `PositionsBacked` carries that a trailing stop which is set was set by a
price seen or by the entry (`Backed`), through ratchets, scans and renames. That a
run ends without a position says something about a bar that may be far ahead:
`WillBeSold` carries that what is held has a bar to be sold at, and another one once
this bar's liquidation has passed it, `LastClosed` that nothing is entered at a
ticker's last opportunity, and both rest on the coverage contract (`CoverageHolds`),
by which the next fill is at the next bar (`NextBar`). `OnTime` bounds what is
booked by what the bar can still book; hence the order of the fills. The proof
also showed what `LiquidatedAtEnd` needs: without renames, because a position may
move to a ticker that has no fill left, and without rejected exits.

*Model-checked only.* Liveness (`CycleEnds`, `CallReturns`, `RebootRetriesEvery`,
`WatchersReact`, `WorkEnds`) is out of the prover's reach, `ENABLED` and fairness with
it. Of the components that the suites hold as instances, `Universe` and `Stage05` have
no proofs: `ReplayIsAccounted` is checked only. `CyclesAreBounded`, `ResearchIsFair`,
`AdviceIsBounded` and `EngineIsHonest` are checked on instances; the theorems are about
what they assert of each: `CyclesBounded`; `ComparisonIsFair` and `WalkIsFair`;
`DraftsAreSound`, `BatchWithinLimits`, `NeverForLockedKey`, `PageComplete`,
`DispositionFinal` and `BlankKeepsKey`; `RunIsHonest` and `InputsAreWhole`.
`CommitsAreSound`,
`HistoryIsKept`, `RecordsAreFinal` and `StepsAreSound` are conjunctions over several
components, whose conjuncts are proved one by one: `RefusalsAreRaces` and
`ReservationsKept`, `ActivationsOwned` and `VerdictsFinal`, `OutcomesFinal` and
`JobsEndOnce`, and of `StepsAreSound`, `BarsNeverChange` and `EngineStepsSound`. What a
recursive operator of the replays computes for every input cannot be proved here.


## 5. Findings

With a run that shows them:

1. **An exit is not retried after a failed sale** (`close_stuck_exit`). The
   package comment in `exit_rules.go` says that a failed sale rolls
   `ExitPending` back so that the next evaluation retries. `recordCloseFailure`
   does that only for a rejected request. After a retryable failure the flag
   stays set, every automated evaluator skips the position, and nothing sells it
   until the server restarts or a person closes it.
2. **One reservation can block the recovery of the others**
   (`close_head_of_line`). `RecoverPendingCloses` returns at its first error. A
   reservation whose position was closed by the reversal of an asset correction
   fails at each boot and stays retryable, so the reservations created after it
   are never reached and the server does not come up. The runbook says that
   startup retries every pending or retryable reservation.
3. **A reversed correction can make a symbol unbuyable** (`ledger_residue`). A
   correction opens a position, a buy and a sale change its average cost, and the
   correction's reversal takes the quantity to zero with basis left on the row.
   The next buy starts from zero basis, the events do not, and the deferred
   trigger refuses that buy and each later one. `CouplingOnlyFromResidue`
   shows, and `TriggersAgree` proves, that apart from an empty opening this is
   the only way the service and the triggers disagree.
4. **A replayed key moves the effective authority** (`cutover_effective`).
   `TransitionCutover` activates the flags of the row it answers with. A repeated
   request answers with an old row, so the process routes by flags that are no
   longer the persisted state; the cutover document calls the persisted state
   the effective authority.

Met while translating, each a behaviour of the models but without a run of its
own (the line is where it happens):

- *Monitors.* Two evaluators that read the same row write the trailing stops they
  computed from it; the one with the later mark wins, also when its stop is the
  lower one, although the comment says "The stop only ratchets upward"
  (`position_projection.go:20`, `exit_rules.go:128`). Reconciliations that
  overlap can leave an open position without a worker until the next one; the
  reconciler of every minute takes over meanwhile (`position_monitor.go:52`). A
  decision carries no lifecycle, so it may close the next one
  (`position_monitor.go:191`).
- *Cutover.* After `new_paper`, `paper_observation` and a rollback with the same
  snapshot two transitions have the same target envelope and every start is
  refused (`operations/service.go:393`). A transition to shadow with a named
  context is accepted and cannot be restarted (`:1255`). A parity policy counts
  samples without a lock, so one may be stored before its row (`:646`).
- *Studies.* A family is what the request calls it, so a holdout can be used
  again under another name (`validation/repository.go:297`). A run whose gates
  failed has no outcome (`validation/job.go:65`). A job whose server stopped
  stays running under its key for ever (`handlers/validation.go:116`).
- *Trade cycle.* One candidate without candles fails the whole shared decision,
  while the legacy engine skips it (`shared_engine_adapter.go:247`).
- *Universe.* Members of the shortlist are stored with `shortlisted = false` and
  are skipped by a replay (`universe.go:683`). A failure between the two inserts
  leaves a complete snapshot of an empty universe (`:630`). Raising
  `universe_analyze_top_n` enlarges the active universe (`:570`).
- *Point-in-time data.* After an unresolved later range, an earlier one resumes
  past its end and is complete with nothing fetched (`ingest.go:90`); the same
  happens to ranges of snapshots (`pointintime/universe.go:284`). A page can
  commit under the cutoff of a manifest built without it (`ingest.go:151`).
- *Jobs.* The windows report through the lanes' aggregator, so progress shows
  100% and falls back (`backtest/validation.go:470`).
- *Stage 05.* A symbol with no-fills before and in a flat decision excuses its
  exposure twice (`stage05.go:1180`). A stop named by the old ticker is not taken
  on the bar of the change (`:548`). A voluntary reduction below the minimum
  gives a live position a residual slot (`:1638`).
- *Bar loop.* With 1m data the fallback percentages overrule a wider stop of the
  position (`engine.go:399`). A bar-close exit of one symbol is booked before an
  earlier intrabar exit of the next (`:317`). A window shorter than the lookback
  is called a strategy without trades (`stage03.go:580`). The legacy engine
  trails by the high of the whole bar (`engine.go:337`).
- *Comparison.* The matched baseline inherits a variant that its descriptor
  refuses (`stage05.go:227`). The optimizer hashes a map where the job hashed a
  struct, so no stored artifact passes its digest test (`services/ai.go:551`).
- *Proposals.* An approval and a denial that overlap both succeed
  (`services/ai.go:2166`). The filter is every unlocked adjustable setting, not
  the governed list (`:894`). An update with a blank key that overlaps one with
  a new key writes the old key back (`handlers/ai.go:216`).
- *Read but not modelled.* The hub drops a slow client from `Clients` and leaves
  it in its rooms with a closed channel (`websocket/hub.go:62`), and does so
  under a read lock. Cohorts whose bar never comes stay first in the order of
  maturity, so as many of them as a batch holds keep it from the later ones
  (`services/decision_cohort.go:94`).

## 6. Not modelled

Several accounts and venues (the code fixes `primary`); the JSON, `float64` mirrors
and timestamps of the rows, except as order; database roles and grants; PostgreSQL
locks below the granularity of a transaction, except where a row lock decides a
race. Principals and capabilities, digests and their verification, and clock
differences between servers. Nothing in the program outside tests calls
`RecordMonitoringEvidence` yet; the model treats it as any other client's call.
Indicators, features, the decision model, bootstrap statistics and the planners'
scores are floating-point computations without interleaving: the models leave
what they return open and the unit tests own them. In `Stage05` the hold, cash
and trend-benchmark baselines and the decision council are left out. Request
parsing, rendering, configuration and the front end keep no state. The tools
under `cmd` call the services that are modelled. `TestLLMConfig` and
`GetLLMConfig` only read. `first_seen_at` and other columns that nothing reads
back are left out.

Facts about the code that shape the models, for whoever extends them: no row of
`orders` is ever pending, because a close and a paper outcome insert theirs in the
transaction that fills them, so a reserved close does not keep the shared engine
from deciding; turnover is summed over the account's life against `max_turnover`, so
the default stops shared buying for good; `universe_risk_off` is never set by the
running server; `GetAllSettings` ignores read errors; a candidate strategy that
fails before submission with the fallback set buys by the baseline's rules; a
replay loads the snapshots of a manifest whatever their policy version; each
update to `running` rewrites `started_at`; jobs left pending or running at a crash
are never reaped; experiment ids have a resolution of one second; a relisted
ticker has the lifecycle of its first pinned version; two tickers of one asset
listed together make a position flip between them; the legacy baseline with
`entry_percent` 100 and a fee never buys; the engine's stop and target derive from
the signal price, not from the fill; a position renamed to a ticker whose series
has no fill left stays open at the end of a run; cash and legacy candidates are never
admitted to a comparison; a batch of proposals may name a key twice.

## 7. Plan

In order of importance:

1. Proofs of the replays: the cash of `Stage05`, the selection of `Universe`.
2. Abstract specifications: an account that is a set of applied commands, which
   `Ledger` implements; a lifecycle that is sold once, which `CloseCoordinator`
   implements.
3. The decision council; several positions in one pass of the reconciler; the
   composition of `PositionMarks` with `CloseCoordinator`.
4. The replay of one fold (`stage07_source.go`), the checks of models
   (`validation/ml.go`), model registry and decision cohorts, governance overview, websocket hub,
   migrations, the operations status and the backfill of outcomes.
5. A lock-level model of `applyClose` against `ApplyFill` (row lock before
   advisory lock, and the reverse).
