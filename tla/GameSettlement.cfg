SPECIFICATION SettlementSpec
CONSTANTS
    Players = {p1, p2}
    Settlements = {gs, other}
    NoAddress = NoAddress
    Supply = 3
    SessionIds = {s1, s2}
    NoId = NoId
    NoPlayer = NoPlayer
    This = gs
    Signers = {k1, k2}
    FixedStake = 1
    Scale = 2
    Multipliers = {1, 4}
    Ttl = 1
    Delays = {1, 2}
    MaxTime = 2
    MaxSigned = 2
SYMMETRY Symmetry
INVARIANTS
    StakeIsLocked
    Solvent
PROPERTIES
    OneClosePerStake
