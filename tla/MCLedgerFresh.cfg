CONSTANTS
    Factor = 4
    Symbols = {BTC}
    Keys = {k1, k2, k3}
    Quantities = {1, 3, 5}
    Prices = {2, 6}
    Fees = {0, 1}
    Amounts = {2}
    Bases = {0}
    OpeningCash = 12
    LegacyOpen <- NoLegacyOpen
    LegacyClosed = {}
    Backfillers = {b1}
    NoSymbol = NoSymbol
SPECIFICATION Spec
INVARIANTS Accounted Solvent
PROPERTY AppendOnly
SYMMETRY KeySymmetry
