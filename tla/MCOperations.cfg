CONSTANTS
    None = None
    Nobody = Nobody
    Snapshots <- FourEnvelopes
    Contexts = {"c"}
    Policies = {"p"}
    Sessions = {"s"}
    Targets = {"schema_legacy", "research_ingestion", "ledger_compare", "shared_shadow", "parity_accepted", "new_paper"}
    MaxTransitions = 6
    MaxRollbacks = 1
    MaxDeployments = 1
    MaxPopulations = 1
    Exact = {"action", "side"}
    Numeric = {"quantity"}
    Values = {"buy", "hold", "long", "short"}
    Amounts = {10, 11, 30}
    Acceptance <- TwoPolicies
    Decisions = {"c1", "c2", "c3"}
    PairKeys = {"k"}
    Pairs <- DualRuns
    Basis = 2
    MaxDecisions = 2
    MaxParityPopulations = 2
    MaxAttempts = 1
    Symbols = {"A", "B"}
    Reconcilers = {1, 2}
    MaxStreams = 3
    MaxChanges = 3
    MaxMisses = 1
    Evaluators = {"monitor", "cron", "bar"}
    Prices = {7, 13}
    Entry = 10
    StopLoss = 8
    TakeProfit = 0
    ExitPolicies <- TwoExitPolicies
    TrailDist = 2
    AtrDist = 1
    FallbackStop = 4
    FallbackTake = 9
    StaleAfter = 3
    MaxDelay = 1
    CronEvery = 2
    MaxMoves = 2
    MaxFaults = 1
    DedupeKeys = {"k"}
    Callers = {"s1", "s2"}
    Cooldown = 1
    Window = 1
    Threshold = 2
    MaxTime = 2
    MaxRaises = 3
    MaxCrashes = 1
SPECIFICATION MCSpec
INVARIANTS CutoverIsEarned ParityIsJudged IncidentsAreAudited StreamsAreOwned MonitorsMissNothing
PROPERTIES HistoryIsKept WatchersReact
CHECK_DEADLOCK FALSE
