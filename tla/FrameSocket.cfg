SPECIFICATION FairSpec
CHECK_DEADLOCK FALSE
CONSTANTS
    c1 = c1
    c2 = c2
    HeaderLen = 3
    Streams <- TwoFrames
    GarbageLens = {0, 6}
    Callers = {c1, c2}
    None = None
INVARIANTS FramesIntact CountersInOrder DisconnectReportedOnce
PROPERTIES LossReported
