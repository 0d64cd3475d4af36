SPECIFICATION FairSignInSpec
CONSTANTS
    a1 = a1
    a2 = a2
    p1 = p1
    p2 = p2
    NONE = NONE
    Accounts = {a1, a2}
    Pages = {p1}
    Checksummed = {a1}
    Method <- Methods
    MaxSessions = 2
    MaxSwitches = 1
    MaxRestarts = 1
INVARIANTS
    StaleTabIsRefused
PROPERTIES
    TryingSignsIn
