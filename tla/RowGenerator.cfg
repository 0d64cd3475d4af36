SPECIFICATION MapSpec
CONSTANTS
    Interval = 40
    MaxRoads = 4
    MaxRivers = 3
    Cooldown = 5
    SafeStart = 6
    Buffer = 2
    TrainGap = 2
    TrainBuffer = 6
    Batch = 20
    Margin = 10
    MaxQueue = 8
    MaxRows = 85
INVARIANTS
    RiversAreWhole
    QueueIsOnTheMap
