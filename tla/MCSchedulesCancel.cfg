SPECIFICATION PromptSpec
CONSTANTS
    call = call
    repeat = repeat
    lost = lost
    Schedule = {call, repeat}
    NoSchedule = NoSchedule
    AllowedKinds <- MCOnceOnly
    Period <- MCPeriod
    MaxRunCount <- MCMaxRunCount
    ApprovedCall = {call}
    MessageMode = {}
    Deliverable = {call, repeat}
    StartWindow = 1
    RetryUnit = 1
    RetryCap = 2
    MaxFailureCount = 2
    ClaimLimit = 2
    StaleTimeout = 2
    Delays = {1}
    Lifetimes = {}
    MaxTime = 3
    MaxCrashes = 0
PROPERTY
    CancelledCallIsNotCarriedOut
CHECK_DEADLOCK FALSE
