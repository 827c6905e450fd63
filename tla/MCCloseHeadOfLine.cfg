CONSTANTS
    Positions = {p1, p2}
    Automated = {monitor}
    Manual = {api}
    Boot = boot
    Prices = {1}
    Corrected = {p1}
    ExchangeHeld = {}
    MaxCycle = 0
    MaxAmount = 1
    MaxFaults = 2
SPECIFICATION Spec
PROPERTY StartupRetriesEvery
