SPECIFICATION Spec
CONSTANTS
    current = current
    savings = savings
    LineIds = {1, 2}
    Entries = {1, 2, 3}
    Accounts = {current, savings}
    Amounts = {1}
    Nets = {2}
    MaxRequests = 2
SYMMETRY AccountSymmetry
INVARIANTS TypeOK MatchSound ReconciledSound
PROPERTIES PinnedEntry AutoMatchComplete
