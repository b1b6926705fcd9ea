SPECIFICATION Spec
CONSTANTS
    Calls = {c1, c2}
    ChoiceCalls = {c2}
    Turns = {t1, t2}
    Wakers = {"start"}
    Replies = {r1, r2}
    Meanings = {"approve", "later", "reject", "other"}
    Signals = {}
    Faults = {"expiry", "refused", "transport", "stop"}
    MaxHolds = 2
    MaxRestarts = 1
    None = None
    c1 = c1
    c2 = c2
    r1 = r1
    r2 = r2
    t1 = t1
    t2 = t2
SYMMETRY Symmetry
INVARIANT TypeOK
INVARIANT EachCallSpendsItsOwnApproval
INVARIANT RunGoesOnDecided
CHECK_DEADLOCK FALSE
