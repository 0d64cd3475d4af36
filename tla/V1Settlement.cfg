SPECIFICATION FairSpec
CONSTANTS
    Ids = {"i1"}
    Sids = {"s1", "s2"}
    Requests = {r1, r2}
    Sweeper = sweeper
    MaxFaults = 1
INVARIANTS
    PayoutWasEarned
    SettledMarkIsTrue
PROPERTIES
    FalseHashIsCleared
    BarredPlayerIsFreed
