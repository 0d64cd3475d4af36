SPECIFICATION FairSpec
CONSTANTS
    p = p
    t1 = t1
    t2 = t2
    Wallets <- OneWallet
    Tickets <- NoTickets
    Player = p
    Tabs = {t1, t2}
    Cycle = 7
    Box = {1}
    Usd = {1}
    FirstStreaks = {6, 7}
    Funds = 1
    MaxDay = 3
    MaxTxs = 2
    MaxFaults = 1
INVARIANTS
    OneRewardPerDay
    StreakIsPaid
PROPERTIES
    ClaimedIsShown
