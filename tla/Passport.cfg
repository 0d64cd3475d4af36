SPECIFICATION Spec
CONSTANTS
    t1 = t1
    t2 = t2
    Tabs = {t1, t2}
    TIER_RULES <- TwoTiers
    CP_INTERVAL = 2
    Window = 2
    Validity = 1
    Hops = {2, 4}
    MaxRuns = 3
    MaxClock = 3
    MaxClaims = 2
INVARIANTS
    TierWasEarned
    NewestClaimStands
PROPERTIES
    GateClosesByRevocation
