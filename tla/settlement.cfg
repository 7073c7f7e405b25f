SPECIFICATION RequestSpec
CONSTANTS
    Docs = {1, 2, 3, 4, 5, 6, 7}
    Kind <- SettlementKind
    Party <- SettlementParty
    Foreign = {}
    Inputs <- SettlementInputs
    Dates = {1, 2}
    Rates = {}
    RateScale = 4
    MaxEntries = 4
    MaxMatched = 0
INVARIANTS TypeOK NeverOverApplied ApplicationsPinPosted
PROPERTIES OldestFirst AllocationExhausts
CHECK_DEADLOCK FALSE
