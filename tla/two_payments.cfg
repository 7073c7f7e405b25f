SPECIFICATION Spec
CONSTANTS
    Sessions = {s1, s2}
    Invoices = {1}
    Payments = {2, 3}
    Totals <- FullTotals
    MaxEntries = 4
INVARIANT NeverOverApplied
