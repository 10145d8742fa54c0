SPECIFICATION Spec
CONSTANTS
    s1 = s1
    s2 = s2
    Handlers = {h1}
    Senders = {s1}
    Goroutines = {g1}
    Configs <- OneConfig
    Inputs <- OneInput
    NoRow = NoRow
    MinuteLen = 1
    HourLen = 1
    DefaultThreshold = 1
    DefaultReset = 2
    MaxTime = 2
    MaxEvents = 3
    MaxOps = 0
    MaxFaults = 0
CHECK_DEADLOCK FALSE
INVARIANTS FailingHandlersDisabled
