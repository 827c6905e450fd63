CONSTANTS
    Factor = 2
    Held = BTC
    Gone = ETH
    Symbols = {BTC, ETH}
    Keys = {k1, k2, k3, k4, k5}
    Quantities = {3}
    Prices = {3}
    Fees = {0}
    Amounts = {}
    Bases = {1}
    OpeningCash = 11
    LegacyOpen <- LegacyHoldings
    LegacyClosed = {ETH}
    Backfillers = {b1, b2}
    NoSymbol = NoSymbol
SPECIFICATION Spec
INVARIANT ServiceSatisfiesTriggers
SYMMETRY Interchangeable
