SPECIFICATION FairSpec
CONSTANTS
    s1 = s1
    s2 = s2
    Handlers = {h1}
    Senders = {s1, s2}
    Goroutines = {g1, g2}
    Configs <- MixedConfigs
    Inputs <- MixedInputs
    NoRow = NoRow
    MinuteLen = 1
    HourLen = 2
    DefaultThreshold = 1
    DefaultReset = 2
    MaxTime = 1
    MaxEvents = 3
    MaxOps = 1
    MaxFaults = 1
CHECK_DEADLOCK FALSE
INVARIANTS TypeOK LimitOvershootBounded AuditLogCoversStats
 
