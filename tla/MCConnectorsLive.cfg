CONSTANTS
    w1 = w1
    w2 = w2
    Worker = {w1, w2}
    Message <- MCMessages2
    BurstSize = 2
    MaxAttempts = 2
    Asking = {}
    FaultKinds = {"send"}
    MaxFaults = 1
    MaxCrashes = 1
SPECIFICATION FairSpec
CHECK_DEADLOCK FALSE
PROPERTY EveryEventReachesAnOutcome
PROPERTY EveryReplyLeavesTheOutbox
