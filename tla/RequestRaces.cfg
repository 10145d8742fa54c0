SPECIFICATION FairSpec
CHECK_DEADLOCK FALSE
CONSTANTS
    c1 = c1
    c2 = c2
    c3 = c3
    Callers = {c1, c2, c3}
    Kind <- AllKinds
    NoChan = NoChan
    NoNode = NoNode
    MaxSockets = 2
    MaxErrors = 1
    MaxRequests = 2
INVARIANTS TypeOK OneDeliverer NoNilNoDoubleClose NoStrandedCaller
PROPERTIES WaitsEnd
