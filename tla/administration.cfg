SPECIFICATION Spec
CONSTANTS
    Docs = {1, 2}
    Kind <- CrossMonthKind
    Party <- OneParty
    Foreign = {1, 2}
    Inputs <- CrossMonthInputs
    Dates = {1, 2}
    Rates = {3, 7}
    RateScale = 4
    MaxEntries = 5
    MaxMatched = 1
INVARIANTS UnpostNeverStuck LiveEntriesOwned
PROPERTIES HistoryKept LedgerKept
