SPECIFICATION Spec
CONSTANTS
    Browsers = {b1, b2}
    Users = {u1, u2}
    Slots = {s1, s2}
    MaxSessions = 2
    MaxPassword = 1
SYMMETRY Alike
INVARIANTS TypeOK AdminRemains PasswordsCurrent SignedInAs
