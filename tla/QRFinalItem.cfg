SPECIFICATION Spec
CONSTANTS
    Codes = 2
    Cap = 2
    MaxQRs = 1
    MaxScans = 0
    MaxFaults = 0
INVARIANT FinalItemLast
CHECK_DEADLOCK FALSE
