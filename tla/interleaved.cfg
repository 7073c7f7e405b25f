SPECIFICATION Spec
CONSTANTS
    Sessions = {s1, s2}
    Invoices = {1}
    Payments = {2}
    Totals <- MixedTotals
    MaxEntries = 4
SYMMETRY SessionSymmetry
INVARIANTS TypeOK PostedEntryLive ReferencesKept
PROPERTY PostedFrozen
