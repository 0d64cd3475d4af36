SPECIFICATION FairSpec
CONSTANTS
    d1 = d1
    d2 = d2
    Logs = {d1, d2}
    Claims = {d1, d2}
    Spent = {}
    DayOf <- TwoDays
    Backfills = {b1}
    Chunk = 2
    ColdStart = 2
    Faults = {"insert", "readRow", "writeRow", "readStreak", "writeStreak", "readCursor", "getLogs", "writeCursor"}
    NoLog = NoLog
    MaxBlock = 3
    MaxRestarts = 1
    MaxFaults = 1
    MaxDebits = 1
INVARIANTS
    NeverCreditedTwice
    StreakIsEarned
    CursorCoversLogs
PROPERTIES
    MissedLogsAreFound
