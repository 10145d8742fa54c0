SPECIFICATION FairSpec
CONSTANTS
    a = a
    b = b
    Indexes = {a, b}
    Keys <- MCKeys
    FirstKeys = {1}
    Updates <- MCUpdates
    Sends <- MCSends
    MaxMutations = 2
    PageSize = 2
    MaxVersion = 3
    MaxSends = 1
    MaxTrouble = 1
INVARIANTS TypeOK InStep UploadsVerify EventsInOrder EventsForUpdates
PROPERTY EventuallySynced
CHECK_DEADLOCK FALSE
