SPECIFICATION FairSpec
CONSTANTS
    Interval = 2
    Stay = 1
    MaxRow = 3
    MaxIntents = 2
    MaxSockets = 2
    MaxInFlight = 2
INVARIANTS
    TracksAgree
    OfferedEndIsGranted
PROPERTIES
    SettlingEnds
    PausedRunIsResolved
