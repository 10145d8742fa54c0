SPECIFICATION Spec
CHECK_DEADLOCK FALSE
CONSTANTS
    c1 = c1
    c2 = c2
    c3 = c3
    Callers = {c1}
    Kind <- OneMessage
    NoChan = NoChan
    NoNode = NoNode
    MaxSockets = 1
    MaxErrors = 0
    MaxRequests = 1
INVARIANTS NoPanic
