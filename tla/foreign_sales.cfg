SPECIFICATION RateSpec
CONSTANTS
    Docs = {1, 2, 3}
    Kind <- FxSalesKind
    Party <- OneParty
    Foreign = {1, 2, 3}
    Inputs <- FxInputs
    Dates = {1, 2}
    Rates = {3, 7}
    RateScale = 4
    MaxEntries = 5
    MaxMatched = 0
INVARIANTS EntriesBalanced ReversalsMirror ControlAccountRevalued
