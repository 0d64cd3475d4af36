SPECIFICATION FairSpec
CONSTANTS
    w1 = w1
    w2 = w2
    s1 = s1
    s2 = s2
    r1 = r1
    r2 = r2
    Wallets = {w1, w2}
    Tickets <- TwoTickets
    Sessions = {s1, s2}
    OwnerOf <- Owners
    Rewards = {r1, r2}
    WinnerOf <- Winners
    RewardOf <- Prizes
    Limit = 1
    MaxTx = 2
    MaxFaults = 1
INVARIANTS
    ChainAgreesWithTags
    SettledIsNeverRefunded
    SpendIsCovered
PROPERTIES
    MinedRewardIsCredited
