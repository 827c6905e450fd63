CONSTANTS
    Positions = {"p", "q", "r"}
    Automated = {"monitor", "cron"}
    Manual = {"api"}
    Boot = "boot"
    Prices = {1, 2}
    Corrected = {"p"}
    ExchangeHeld = {"q"}
    MaxCycle = 1
    MaxAmount = 2
    MaxFaults = 2
SPECIFICATION MCSpec
INVARIANTS CyclesAreBounded SoldOnce
PROPERTIES CommitsAreSound CycleEnds RebootRetriesEvery
CHECK_DEADLOCK FALSE
