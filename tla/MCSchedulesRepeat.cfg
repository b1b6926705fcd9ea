SPECIFICATION Spec
CONSTANTS
    call = call
    repeat = repeat
    lost = lost
    Schedule = {repeat}
    NoSchedule = NoSchedule
    AllowedKinds <- MCRepeating
    Period <- MCPeriod
    MaxRunCount <- MCMaxRunCount
    ApprovedCall = {}
    MessageMode = {}
    Deliverable = {repeat}
    StartWindow = 1
    RetryUnit = 1
    RetryCap = 2
    MaxFailureCount = 2
    ClaimLimit = 2
    StaleTimeout = 2
    Delays = {0, 1}
    Lifetimes = {2}
    MaxTime = 4
    MaxCrashes = 1
INVARIANTS
    TypeOK
    EndedSchedulesStayEnded
    ToldOccurrenceNeverRunsAgain
    
CHECK_DEADLOCK FALSE
