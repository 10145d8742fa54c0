SPECIFICATION FairSpec
CONSTANTS
    Codes = 2
    Cap = 1
    MaxQRs = 1
    MaxScans = 1
    MaxFaults = 1
INVARIANTS ClosedOnce OneFinalItem ConfirmedIsStored
PROPERTIES DispatchReturns ChannelCloses
CHECK_DEADLOCK FALSE
