SPECIFICATION Spec
CHECK_DEADLOCK FALSE
CONSTANTS
    WantedPreKeyCount = 1
    MinPreKeyCount = 1
    InitialCount = 2
    Connects = {connect}
    Notifications = {notification}
    NoKey = NoKey
    MaxKeys = 4
    MaxFaults = 1
INVARIANTS KeysServable ServerBounded
