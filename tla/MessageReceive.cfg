SPECIFICATION FairSpec
CHECK_DEADLOCK FALSE
CONSTANTS
    m1 = m1
    m2 = m2
    Msgs = {m1}
    Kindings <- AnyKind
    NoJob = NoJob
    QueueCap = 1
    RetryLimit = 2
    MaxCopies = 2
    MaxEpochs = 1
    MaxFaults = 1
INVARIANTS TypeOK ReceiptMeansHandled OneAtATime RetriesBounded
PROPERTIES PromiseKept EveryStanzaAnswered
