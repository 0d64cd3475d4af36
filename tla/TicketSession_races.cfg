SPECIFICATION Spec
CONSTANTS
    Sessions = {s1, s2}
    Intents = {i1, i2}
    Tasks = {t1, t2}
    Sweeper = sw
    NoSession = NoSession
    NoIntent = NoIntent
    Tickets = 2
    Threshold = 1
    MaxCp = 1
    MaxLeaked = 1
    MaxFaults = 0
    Resend = TRUE
SYMMETRY Symmetry
INVARIANTS
    OneChargedRun
    RefundExcludesOutcome
    NoDoublePoints
