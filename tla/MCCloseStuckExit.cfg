CONSTANTS
    Positions = {p1}
    Automated = {monitor}
    Manual = {api}
    Boot = boot
    Prices = {1}
    Corrected = {}
    ExchangeHeld = {}
    MaxCycle = 1
    MaxAmount = 1
    MaxFaults = 1
SPECIFICATION Spec
PROPERTY FailedSaleIsRetried
