SPECIFICATION FairSpec
CHECK_DEADLOCK FALSE
CONSTANTS
    MaxSockets = 2
    MaxNodes = 1
    MaxUserOps = 2
INVARIANTS TypeOK NoOrphanSocket NeverAbandoned ExpectedHasCause
PROPERTIES DisconnectSticks LossRetried
