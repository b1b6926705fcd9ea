SPECIFICATION Spec
CONSTANTS
    call = call
    repeat = repeat
    lost = lost
    Schedule = {call, repeat, lost}
    NoSchedule = NoSchedule
    AllowedKinds <- MCOnceOnly
    Period <- MCPeriod
    MaxRunCount <- MCMaxRunCount
    ApprovedCall = {call}
    MessageMode = {repeat}
    Deliverable = {call, repeat}
    StartWindow = 1
    RetryUnit = 1
    RetryCap = 2
    MaxFailureCount = 2
    ClaimLimit = 2
    StaleTimeout = 2
    Delays = {1}
    Lifetimes = {}
    MaxTime = 2
    MaxCrashes = 1
INVARIANTS
    ApprovedCallCarriedOutAtMostOnce
CHECK_DEADLOCK FALSE
