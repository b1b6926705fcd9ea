CONSTANTS
    w1 = w1
    w2 = w2
    Worker = {w1, w2}
    Message <- MCMessages3
    BurstSize = 2
    MaxAttempts = 2
    Asking = {1}
    FaultKinds = {"lease", "error", "reply", "mark", "deferral"}
    MaxFaults = 1
    MaxCrashes = 0
SPECIFICATION Spec
CHECK_DEADLOCK FALSE
INVARIANT TypeOK
INVARIANT OneOpenRequest
INVARIANT OneTurnPerMessage
INVARIANT ReplacementWaitsForTheReplaced
