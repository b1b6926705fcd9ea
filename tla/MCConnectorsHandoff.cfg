CONSTANTS
    w1 = w1
    w2 = w2
    Worker = {w1, w2}
    Message <- MCMessages2
    BurstSize = 2
    MaxAttempts = 2
    Asking = {1}
    FaultKinds = {}
    MaxFaults = 0
    MaxCrashes = 0
SPECIFICATION FairSpec
CHECK_DEADLOCK FALSE
PROPERTY SupersededRunStops
