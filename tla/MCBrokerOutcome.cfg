CONSTANTS
    Workers = {w1, w2}
    NoWorker = NoWorker
    NoOutcome = NoOutcome
    Outcomes <- MCOutcomes
    OpeningCash = 4
    MaxCalls = 4
    MaxFailures = 2
    MaxSpends = 2
SPECIFICATION FairOutcomeSpec
CHECK_DEADLOCK FALSE
INVARIANTS OutcomesAreWhole
PROPERTIES CallReturns ImplementsLog
