CONSTANTS
    Instruments = {1, 2, 3}
    Prices = {2, 3}
    Quantities = {1, 3}
    Priorities = {1, 2}
    Policies <- RiskPolicies
    Base = 10
    Portfolios <- StartPortfolios
    ZeroVolume = {1}
    MaxRounds = 1
    Factor = 10
    Marks = {7, 15, 100}
    Lots = {1, 3, 5, 10}
    FeeBPS = {0, 1000}
    SlippageBPS = {0, 500, 3000}
    MaxFills = 4
    Ingesters = {1, 2}
    Ranges <- OneRange
    LastOpen = 2
    Interval = 2
    PageSize = 2
    Answers = {1, 2}
    Delays <- AnyDelay
    MaxClock = 1
    MaxRuns = 3
    MaxBuilds = 1
    RangeWorkers = {1, 2}
    Spans <- FourSpans
    Intervals <- Listings
    Sealed <- SealedListings
    Cutoff = 5
    BadTimes = {4}
    RegimeAt <- Alternating
    MinRegimeSnapshots = 1
    MaxUniverseGap = 1
    MaxAttempts = 3
SPECIFICATION MCSpec
INVARIANTS DataIsPinned RangesAreObserved ReplayIsAccounted EngineIsHonest RoundTripIsFair ApprovedIsBookable
PROPERTIES StepsAreSound
CHECK_DEADLOCK FALSE
