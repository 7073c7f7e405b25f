SPECIFICATION Spec
CONSTANTS
    Days = {1, 2, 3, 4}
    MonthLength = 2
    YearLength = 2
    YearIds = {1, 2, 3}
    PeriodIds = {1, 2, 3}
    Entries = {1, 2, 3, 4}
    Accounts = {"revenue"}
    Postings <- OneSale
    MaxEdits = 1
INVARIANTS TypeOK ClosedYearShut ClosingOwned SweptOnce OpenYearRestored
CHECK_DEADLOCK FALSE
