CONSTANTS
    w1 = w1
    w2 = w2
    Worker = {w1, w2}
    Message <- MCMessages3
    BurstSize = 2
    MaxAttempts = 2
    Asking = {}
    FaultKinds = {}
    MaxFaults = 0
    MaxCrashes = 1
SPECIFICATION Spec
CHECK_DEADLOCK FALSE
INVARIANT OneRunPerMessage
 
