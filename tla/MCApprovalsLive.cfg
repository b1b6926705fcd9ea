SPECIFICATION FairSpec
CONSTANTS
    Calls = {c1, c2}
    ChoiceCalls = {c2}
    Turns = {t1}
    Wakers = {"start", "session"}
    Replies = {r1}
    Meanings = {"approve", "later", "reject", "other"}
    Signals = {}
    Faults = {"expiry", "refused", "stop"}
    MaxHolds = 1
    MaxRestarts = 1
    None = None
    c1 = c1
    c2 = c2
    r1 = r1
    t1 = t1
PROPERTY EveryHoldIsDecided
CHECK_DEADLOCK FALSE
