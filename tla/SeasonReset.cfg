SPECIFICATION FairSeasonSpec
CONSTANTS
    Wallets = {1, 2, 3}
    Top = 2
    FirstDivisions <- TwoRunners
    PromotionPct <- HalfUp
    RelegationPct <- HalfDown
    TicketReward <- Prizes
    SmallDivision = 2
    TopCount = 1
    MaxSeason = 2
    MaxPoints = 1
    MaxCloses = 3
    MaxFaults = 1
INVARIANTS
    PromotedIsQueued
    StandingsDecide
    MovesAreCarriedOut
PROPERTIES
    NextSeasonOpens
