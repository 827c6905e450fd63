CONSTANTS
    Specs <- Manifests
    ManifestKeys = {"k1", "k2"}
    RequestKeys = {1, 2, 3}
    Times = {1, 2}
    MaxExperiments = 2
    MaxPending = 2
    MaxCrashes = 1
    Kinds <- FourJobs
    Slots = 2
    EngineBars = 2
    Windows = 2
    Workers = 2
    MaxRestarts = 2
    Readers = {1, 2}
    Series = {1, 2, 3, 4}
    Size <- SizeOf
    Maximum = 2
    MaxFlights = 3
SPECIFICATION MCSpec
INVARIANTS StudyIsEvidenced JobsAreBacked ResearchIsFair AdviceIsBounded CacheIsExact
PROPERTIES RecordsAreFinal WorkEnds
CHECK_DEADLOCK FALSE
