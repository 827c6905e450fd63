---------------------------- MODULE MCSimulation ----------------------------
(***************************************************************************)
(* The components that simulate the past and what simulation and trading  *)
(* share: the risk engine, the cost model, the ingestion and the manifests *)
(* of bars, and instances of the live and the historical universes, the    *)
(* inputs of a backtest, the Stage 05 replay and the backtest engine.      *)
(* A behaviour is one part, chosen by its first state; the variables of the*)
(* instances it is not of stay off; the components which this module       *)
(* extends stay as they start.                                             *)
(***************************************************************************)
EXTENDS Risk, Dataset, PaperRoundTrip, UniverseRange

VARIABLE part      \* which instance this behaviour is of

\* Universe
VARIABLES
    now, settings, universes, builder, faults

\* BacktestInputs
VARIABLES
    mode, queue, worker, channel, series, outcome, request, missing, version,
    rows

\* Stage05
VARIABLES
    bar, market, cash, pos, net, traded, residuals, noFills, lastTargets,
    lastRebalance, plan, want, equity, budget, todo, stopped, voluntary, phase

\* BacktestEngine
VARIABLES
    data, index, shape, ahead, positions, closed, universe, rebalanced,
    visiting, runEvidence, ran, lastExit, booked, stage

select == <<now, settings, universes, builder, faults>>
inputs ==
    <<mode, queue, worker, channel, series, outcome, request, missing,
      version, rows>>
replay ==
    <<bar, market, cash, pos, net, traded, residuals, noFills, lastTargets,
      lastRebalance, plan, want, equity, budget, todo, stopped, voluntary,
      phase>>
engine ==
    <<data, index, shape, ahead, positions, closed, universe, rebalanced,
      visiting, runEvidence, ran, lastExit, booked, stage>>

vars == <<part, datasetVars, select, rangeVars, inputs, replay, engine, tripVars, riskVars>>

Off == "off"

\* The variables of a component that the behaviour is not of.
SelectOff ==
    /\ now = Off /\ settings = Off /\ universes = Off /\ builder = Off
    /\ faults = Off
InputsOff ==
    /\ mode = Off /\ queue = Off /\ worker = Off /\ channel = Off /\ series = Off
    /\ outcome = Off /\ request = Off /\ missing = Off /\ version = Off
    /\ rows = Off
ReplayOff ==
    /\ bar = Off /\ market = Off /\ cash = Off /\ pos = Off /\ net = Off
    /\ traded = Off /\ residuals = Off /\ noFills = Off /\ lastTargets = Off
    /\ lastRebalance = Off /\ plan = Off /\ want = Off /\ equity = Off
    /\ budget = Off /\ todo = Off /\ stopped = Off /\ voluntary = Off /\ phase = Off
EngineOff ==
    /\ data = Off /\ index = Off /\ shape = Off /\ ahead = Off /\ positions = Off
    /\ closed = Off /\ universe = Off /\ rebalanced = Off /\ visiting = Off
    /\ runEvidence = Off /\ ran = Off /\ lastExit = Off /\ booked = Off /\ stage = Off
-----------------------------------------------------------------------------
OneRange == {[start |-> 0, end |-> 3]}
AnyDelay == -1 .. 1

Coin(s, v, up, score) ==
    [symbol |-> s, tradable |-> TRUE, volume |-> v, data |-> TRUE, fails |-> {}, up |-> up, score |-> score]

\* Six good candidates whose order by score is not their order by volume.
Broad == {Coin(1, 9, TRUE, 1), Coin(2, 8, FALSE, 5), Coin(3, 8, FALSE, 5), Coin(4, 7, FALSE, 2),
          Coin(5, 6, FALSE, 4), Coin(6, 6, FALSE, 0)}

\* Rejections of every kind among two good ones.
Mixed == {Coin(1, 9, TRUE, 1), Coin(2, 5, TRUE, 2), Coin(3, 1, TRUE, 9),
          [Coin(4, 9, TRUE, 9) EXCEPT !.tradable = FALSE], [Coin(5, 9, TRUE, 9) EXCEPT !.data = FALSE],
          [Coin(6, 9, TRUE, 9) EXCEPT !.fails = {"listing_age", "volatility_too_low"}]}

Setting(k, n, l) == [topK |-> k, analyze |-> n, legacy |-> l, minVolume |-> 8]

Select == INSTANCE Universe WITH
    clock <- now, snapshots <- universes,
    Builders <- {1}, Markets <- {Broad, Mixed, {}},
    Settings <- {Setting(6, 1, 8), Setting(6, 5, 0), Setting(0, 0, 0), Setting(2, 9, 8)},
    MaxTime <- 1, MaxSnapshots <- 2, MaxFaults <- 1

\* Overlapping builds whose snapshots are written out of order.
Overlap == INSTANCE Universe WITH
    clock <- now, snapshots <- universes,
    Builders <- {1, 2},
    Markets <- {{Coin(1, 9, TRUE, 1), Coin(2, 8, TRUE, 5), Coin(3, 8, FALSE, 5)}},
    Settings <- {Setting(2, 1, 8)}, MaxTime <- 2, MaxSnapshots <- 2, MaxFaults <- 1

Listing(s, f, t, a, r) == [symbol |-> s, from |-> f, to |-> t, available |-> a, retrieved |-> r]

\* a trades until 2 and again from 3; b is known late; c delists at once.
SealedListings == {Listing("a", 0, 2, 0, 4), Listing("a", 3, 9, 3, 4), Listing("b", 0, 9, 2, 4),
                   Listing("c", 0, 1, 0, 4)}
Listings == SealedListings \cup {Listing("d", 0, 9, 0, 4), Listing("d", 1, 9, 1, 8)}
Alternating(t) == IF t % 2 = 0 THEN "risk_on" ELSE "neutral"

\* Three ranges with one start and one beyond a hole.
FourSpans == {[start |-> 0, end |-> e] : e \in {2, 4, 5}} \cup {[start |-> 3, end |-> 5]}

\* Three symbols on two goroutines; two constraint rows over three instants.
Inputs == INSTANCE BacktestInputs WITH
    Symbols <- <<"btc", "eth", "sol">>, Fetchers <- 2, Horizon <- 3, MaxRows <- 2

\* Two tickers of one asset and one of another.
Tickers == {1, 2, 3}
AssetOf == [s \in Tickers |-> IF s = 3 THEN "b" ELSE "a"]
Even(S, mark, fill, volume) ==
    [mark |-> [s \in S |-> mark], fill |-> [s \in S |-> fill], volume |-> volume]

\* Even prices and ample volume; a gap up; no volume, or little, in one symbol.
MarketsOf(S) ==
    {Even(S, 1, 1, [s \in S |-> 100]), Even(S, 1, 2, [s \in S |-> 100])}
    \cup {Even(S, 1, 1, [t \in S |-> IF t = s THEN v ELSE 100]) : s \in {1, 3}, v \in {0, 20}}

\* Lots that grow from one unit to two, so that an odd position leaves dust.
GrowingLots == [b \in 1 .. 6 |-> IF b = 1 THEN 1 ELSE 2]

\* The trend strategy: 80% gross, 50% in a neutral regime, 50% a position.
Trend == [trend |-> TRUE, evidence |-> TRUE, gross |-> 8, neutral |-> 5, cap |-> 5, reserve |-> 1,
          skip |-> 1, turnover |-> 6, tolerance |-> 1, gap |-> 1]
EqualWeight == [trend |-> FALSE, evidence |-> FALSE, gross |-> 9, neutral |-> 9, cap |-> 10,
                reserve |-> 0, skip |-> 0, turnover |-> 10, tolerance |-> 0, gap |-> 0]

\* An asset changes its ticker at the third bar; the other has its volume.
Rename == INSTANCE Stage05 WITH
    Lots <- GrowingLots, Minimums <- [b \in 1 .. 6 |-> 2], LastBar <- 4, MaxPositions <- 2,
    Warmup <- 1, Base <- 10, Fee <- 1, Slip <- 0, InitialCash <- 13,
    Symbols <- Tickers, Asset <- AssetOf, Markets <- {m \in MarketsOf(Tickers) : m.volume[3] = 100},
    Listed <- [s \in Tickers |-> CASE s = 1 -> 1 .. 2 [] s = 2 -> 3 .. 6 [] OTHER -> 1 .. 6],
    Strategy <- Trend, Cadence <- 1, Version <- "v4", Liquidate <- FALSE

\* Version 1.0.0 of the strategy records no residual of a mandatory exit.
Flat == INSTANCE Stage05 WITH
    Lots <- GrowingLots, Minimums <- [b \in 1 .. 6 |-> 2], LastBar <- 4, MaxPositions <- 2,
    Warmup <- 1, Base <- 10, Fee <- 1, Slip <- 0, InitialCash <- 13,
    Symbols <- {1, 3}, Asset <- [s \in {1, 3} |-> AssetOf[s]], Markets <- MarketsOf({1, 3}),
    Listed <- [s \in {1, 3} |-> 1 .. 6], Strategy <- [Trend EXCEPT !.evidence = FALSE],
    Cadence <- 1, Version <- "v2", Liquidate <- FALSE

\* Stops are decided between two rebalances.
Stops == INSTANCE Stage05 WITH
    Lots <- GrowingLots, Minimums <- [b \in 1 .. 6 |-> 2], LastBar <- 4, MaxPositions <- 2,
    Warmup <- 1, Base <- 10, Fee <- 1, Slip <- 0, InitialCash <- 13,
    Symbols <- {1, 3}, Asset <- [s \in {1, 3} |-> AssetOf[s]], Markets <- MarketsOf({1, 3}),
    Listed <- [s \in {1, 3} |-> 1 .. 6], Strategy <- Trend,
    Cadence <- 2, Version <- "v3", Liquidate <- FALSE

\* Two tickers of one asset are listed together; the replay sells out at its end.
Liquidation == INSTANCE Stage05 WITH
    Lots <- GrowingLots, Minimums <- [b \in 1 .. 6 |-> 2], LastBar <- 4, MaxPositions <- 2,
    Warmup <- 1, Base <- 10, Fee <- 1, Slip <- 0, InitialCash <- 13,
    Symbols <- Tickers, Asset <- AssetOf, Markets <- MarketsOf(Tickers),
    Listed <- [s \in Tickers |-> IF s = 2 THEN 2 .. 6 ELSE 1 .. 6],
    Strategy <- EqualWeight, Cadence <- 1, Version <- "v3", Liquidate <- TRUE

Sub(o, l, h) == [open |-> o, low |-> l, high |-> h]

\* Quiet; a rise and a fall inside the bar; a gap down; a slow fall.
Quiet == [subs |-> <<Sub(9, 9, 9), Sub(9, 9, 10)>>, close |-> 10]
Spike == [subs |-> <<Sub(9, 8, 13), Sub(12, 9, 12)>>, close |-> 9]
GapDown == [subs |-> <<Sub(6, 6, 7), Sub(7, 7, 9)>>, close |-> 9]
Slide == [subs |-> <<Sub(8, 8, 9), Sub(7, 7, 7)>>, close |-> 7]

\* One symbol with sub-bars, every shape.
SubBars == INSTANCE BacktestEngine WITH
    bar <- index, pos <- positions, todo <- visiting, phase <- stage,
    MaxPositions <- 2, StopDist <- 2, TakeDist <- 5, TrailDist <- 1, FallbackTake <- 6, TimeStop <- 2,
    Moments <- 10, Lookback <- 1, Shared <- TRUE, Explicit <- TRUE, Trailing <- "percent",
    Tickers <- {1}, Asset <- [s \in {1} |-> "a"], Lifecycle <- [s \in {1} |-> 1 .. 9],
    DataSets <- {[s \in {1} |-> 1 .. 5]}, LastBar <- 4, Shapes <- {Quiet, Spike, GapDown, Slide},
    Mode <- "recompute", RebalanceInterval <- 1, HasModel <- TRUE, Fine <- TRUE, FallbackStop <- 4,
    Rejections <- {FALSE}

\* A change of ticker, with rejected exits.
Ticker == INSTANCE BacktestEngine WITH
    bar <- index, pos <- positions, todo <- visiting, phase <- stage,
    MaxPositions <- 2, StopDist <- 2, TakeDist <- 5, TrailDist <- 1, FallbackTake <- 6, TimeStop <- 2,
    Moments <- 10, Lookback <- 1, Shared <- TRUE, Explicit <- TRUE, Trailing <- "percent",
    Tickers <- {1, 2}, Asset <- [s \in {1, 2} |-> "a"],
    Lifecycle <- [s \in {1, 2} |-> IF s = 1 THEN 1 .. 4 ELSE 2 .. 9],
    DataSets <- {[s \in {1, 2} |-> IF s = 1 THEN 1 .. 4 ELSE 2 .. 6]}, LastBar <- 5,
    Shapes <- {Quiet, Spike}, Mode <- "replay", RebalanceInterval <- 2, HasModel <- FALSE, Fine <- TRUE,
    FallbackStop <- 1, Rejections <- BOOLEAN

\* Two symbols without sub-bars; every series with at most one bar missing.
Coarse == INSTANCE BacktestEngine WITH
    bar <- index, pos <- positions, todo <- visiting, phase <- stage,
    MaxPositions <- 2, StopDist <- 2, TakeDist <- 5, TrailDist <- 1, FallbackTake <- 6, TimeStop <- 2,
    Moments <- 10, Lookback <- 1, Shared <- TRUE, Explicit <- TRUE, Trailing <- "percent",
    Tickers <- {1, 2}, Asset <- [s \in {1, 2} |-> IF s = 1 THEN "a" ELSE "b"],
    Lifecycle <- [s \in {1, 2} |-> 1 .. 9],
    DataSets <- [{1, 2} -> {1 .. 5} \cup {(1 .. 5) \ {b} : b \in 1 .. 5}], LastBar <- 5,
    Shapes <- {Quiet, Spike}, Mode <- "static", RebalanceInterval <- 1, HasModel <- FALSE, Fine <- FALSE,
    FallbackStop <- 1, Rejections <- {FALSE}

\* The round trip of a behaviour that is not of it has the first terms.
TripOff == TripInit /\ terms = [mark |-> 7, fee |-> 0, slippage |-> 0]

Limits == [maxPositions |-> 2, maxOrders |-> 0, maxGross |-> 6, maxPosition |-> 5,
           maxTurnover |-> 14, reserve |-> 2, pyramiding |-> FALSE, maxLayers |-> 3,
           fee |-> 1, slippage |-> 2]

\* Every limit; no limit of turnover; hardly any limit but the number of orders.
RiskPolicies ==
    {Limits,
     [Limits EXCEPT !.maxTurnover = 0, !.pyramiding = TRUE],
     [Limits EXCEPT !.maxGross = 0, !.maxPosition = 0, !.maxPositions = 0, !.maxOrders = 2,
                    !.reserve = 0]}

Portfolio(m, pending, cash0, held, spent) ==
    [mode |-> m, pending |-> pending, cash |-> cash0 * Base * Base,
     held |-> held, spent |-> spent * Base * Base]

StartPortfolios ==
    {Portfolio("paper", {}, c, [i \in 1 .. 3 |-> IF i = 1 THEN lots ELSE 0], 2 * lots) :
        c \in {3, 12}, lots \in {0, 2}}
    \cup {Portfolio(how, {3}, 12, [i \in 1 .. 3 |-> IF i = 3 THEN 1 ELSE 0], 0) :
            how \in {"paper", "shadow"}}

\* The risk engine in a behaviour that is not of it.
RiskOff ==
    /\ RiskInit
    /\ portfolio = CHOOSE p \in Portfolios : TRUE
    /\ quote = CHOOSE q \in [Instruments -> Prices] : TRUE

ASSUME /\ DatasetAssumption
       /\ Select!UniverseAssumption /\ Overlap!UniverseAssumption
       /\ RangeAssumption /\ Inputs!InputsAssumption
       /\ Rename!Stage05Assumption /\ Flat!Stage05Assumption /\ Stops!Stage05Assumption
       /\ Liquidation!Stage05Assumption /\ SubBars!BacktestEngineAssumption
       /\ Ticker!BacktestEngineAssumption /\ Coarse!BacktestEngineAssumption
       /\ RoundTripAssumption /\ RiskAssumption

MCInit ==
    \/ /\ part = "ingest" /\ DatasetInit
       /\ SelectOff /\ RangeInit /\ InputsOff /\ ReplayOff /\ EngineOff /\ TripOff /\ RiskOff
    \/ /\ part = "asof" /\ DatasetInit
       /\ SelectOff /\ RangeInit /\ InputsOff /\ ReplayOff /\ EngineOff /\ TripOff /\ RiskOff
    \/ /\ part = "select" /\ Select!Init
       /\ DatasetInit /\ RangeInit /\ InputsOff /\ ReplayOff /\ EngineOff /\ TripOff /\ RiskOff
    \/ /\ part = "overlap" /\ Overlap!Init
       /\ DatasetInit /\ RangeInit /\ InputsOff /\ ReplayOff /\ EngineOff /\ TripOff /\ RiskOff
    \/ /\ part = "range" /\ RangeInit
       /\ DatasetInit /\ SelectOff /\ InputsOff /\ ReplayOff /\ EngineOff /\ TripOff /\ RiskOff
    \/ /\ part = "preflight" /\ RangeInit
       /\ DatasetInit /\ SelectOff /\ InputsOff /\ ReplayOff /\ EngineOff /\ TripOff /\ RiskOff
    \/ /\ part = "inputs" /\ Inputs!InputsInit
       /\ DatasetInit /\ SelectOff /\ RangeInit /\ ReplayOff /\ EngineOff /\ TripOff /\ RiskOff
    \/ /\ part = "rename" /\ Rename!Init
       /\ DatasetInit /\ SelectOff /\ RangeInit /\ InputsOff /\ EngineOff /\ TripOff /\ RiskOff
    \/ /\ part = "flat" /\ Flat!Init
       /\ DatasetInit /\ SelectOff /\ RangeInit /\ InputsOff /\ EngineOff /\ TripOff /\ RiskOff
    \/ /\ part = "stops" /\ Stops!Init
       /\ DatasetInit /\ SelectOff /\ RangeInit /\ InputsOff /\ EngineOff /\ TripOff /\ RiskOff
    \/ /\ part = "liquidation" /\ Liquidation!Init
       /\ DatasetInit /\ SelectOff /\ RangeInit /\ InputsOff /\ EngineOff /\ TripOff /\ RiskOff
    \/ /\ part = "fine" /\ SubBars!EngineInit
       /\ DatasetInit /\ SelectOff /\ RangeInit /\ InputsOff /\ ReplayOff /\ TripOff /\ RiskOff
    \/ /\ part = "ticker" /\ Ticker!EngineInit
       /\ DatasetInit /\ SelectOff /\ RangeInit /\ InputsOff /\ ReplayOff /\ TripOff /\ RiskOff
    \/ /\ part = "coarse" /\ Coarse!EngineInit
       /\ DatasetInit /\ SelectOff /\ RangeInit /\ InputsOff /\ ReplayOff /\ TripOff /\ RiskOff
    \/ /\ part = "trip" /\ TripInit
       /\ DatasetInit /\ SelectOff /\ RangeInit /\ InputsOff /\ ReplayOff /\ EngineOff /\ RiskOff
    \/ /\ part = "risk" /\ RiskInit
       /\ DatasetInit /\ SelectOff /\ RangeInit /\ InputsOff /\ ReplayOff /\ EngineOff /\ TripOff

MCNext ==
    \/ part = "ingest" /\ DatasetNext /\ runs' <= 2 /\ (\A i \in Ingesters : ing'[i].row.delay = 0)
       /\ UNCHANGED <<part, select, rangeVars, inputs, replay, engine, tripVars, riskVars>>
    \/ part = "asof" /\ DatasetNext /\ ing'[2] = NoRun /\ ing'[1].row.content <= 1
       /\ UNCHANGED <<part, select, rangeVars, inputs, replay, engine, tripVars, riskVars>>
    \/ part = "select" /\ Select!Next
       /\ UNCHANGED <<part, datasetVars, rangeVars, inputs, replay, engine, tripVars, riskVars>>
    \/ part = "overlap" /\ Overlap!Next
       /\ UNCHANGED <<part, datasetVars, rangeVars, inputs, replay, engine, tripVars, riskVars>>
    \/ part = "range" /\ RangeNext /\ (\A w \in RangeWorkers : rangers'[w].start = 0)
       /\ UNCHANGED <<part, datasetVars, select, inputs, replay, engine, tripVars, riskVars>>
    \/ part = "preflight" /\ RangeNext /\ rangers'[2] = IdleRun
       /\ UNCHANGED <<part, datasetVars, select, inputs, replay, engine, tripVars, riskVars>>
    \/ part = "inputs" /\ Inputs!InputsNext
       /\ UNCHANGED <<part, datasetVars, select, rangeVars, replay, engine, tripVars, riskVars>>
    \/ part = "rename" /\ Rename!Next
       /\ UNCHANGED <<part, datasetVars, select, rangeVars, inputs, engine, tripVars, riskVars>>
    \/ part = "flat" /\ Flat!Next
       /\ UNCHANGED <<part, datasetVars, select, rangeVars, inputs, engine, tripVars, riskVars>>
    \/ part = "stops" /\ Stops!Next
       /\ UNCHANGED <<part, datasetVars, select, rangeVars, inputs, engine, tripVars, riskVars>>
    \/ part = "liquidation" /\ Liquidation!Next
       /\ UNCHANGED <<part, datasetVars, select, rangeVars, inputs, engine, tripVars, riskVars>>
    \/ part = "fine" /\ SubBars!EngineNext
       /\ UNCHANGED <<part, datasetVars, select, rangeVars, inputs, replay, tripVars, riskVars>>
    \/ part = "ticker" /\ Ticker!EngineNext
       /\ UNCHANGED <<part, datasetVars, select, rangeVars, inputs, replay, tripVars, riskVars>>
    \/ part = "coarse" /\ Coarse!EngineNext
       /\ UNCHANGED <<part, datasetVars, select, rangeVars, inputs, replay, tripVars, riskVars>>
    \/ part = "trip" /\ TripNext
       /\ UNCHANGED <<part, datasetVars, select, rangeVars, inputs, replay, engine, riskVars>>
    \/ part = "risk" /\ RiskNext
       /\ UNCHANGED <<part, datasetVars, select, rangeVars, inputs, replay, engine, tripVars>>

MCSpec == MCInit /\ [][MCNext]_vars

-----------------------------------------------------------------------------
\* Stored stages follow the ranking and leave something to analyze, and a
\* replay resolves to the latest snapshot that is not in its future
\* (BuildUniverseSnapshot, resolveReplayUniverse).  Over what it resolves to, a
\* change of ticker keeps the exposure, optional orders keep the turnover
\* budget, a decided stop is taken or on record and a liquidation leaves dust
\* only (transitionEconomicPositions, executeStage06RiskStops).
ReplayIsAccounted ==
    /\ part = "select" => /\ Select!TypeOK /\ Select!StagesFollowRank
                          /\ Select!SomethingToAnalyze /\ Select!ReplayTradesActive
    /\ part = "overlap" => Overlap!ReplayResolvesLatest
    /\ part = "rename" => Rename!TypeOK /\ Rename!RenameKeepsExposure /\ Rename!TurnoverBudget
    /\ part = "stops" => Stops!StopTaken
    /\ part = "liquidation" => Liquidation!LiquidationIsComplete

\* The engine trails a stop by prices it has seen, exits at prices that were
\* traded, gives an asset one position, ends flat, and explains a run without
\* trades (RunBacktest, EvaluateProtectiveExit, classifySharedRun).  It starts
\* with every symbol and with the constraints of every instant, and no
\* goroutine of its loader is left behind (prepareBacktestInputs).
EngineIsHonest ==
    /\ part = "fine" => SubBars!RunIsHonest
    /\ part = "ticker" => Ticker!RunIsHonest
    /\ part = "coarse" => Coarse!RunIsHonest
    /\ part = "inputs" => Inputs!InputsAreWhole

\* No step changes a stored bar, passes a flat decision without evidence for
\* what is still held, keeps a position at its stop, or books a fill before an
\* earlier one.
StepsAreSound ==
    [][/\ part = "ingest" => BarsAreImmutable
       /\ part = "flat" => Flat!FlatIsEvidenced
       /\ part = "fine" => SubBars!StopHonoured
       /\ part = "ticker" => Ticker!StopHonoured
       /\ part = "coarse" => Coarse!StopHonoured /\ Coarse!LedgerChronological]_vars
=============================================================================
