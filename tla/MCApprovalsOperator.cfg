SPECIFICATION Spec
CONSTANTS
    Calls = {c1}
    ChoiceCalls = {}
    Turns = {t1, t2}
    Wakers = {}
    Replies = {r1}
    Meanings = {"approve"}
    Signals = {"approve"}
    Faults = {}
    MaxHolds = 1
    MaxRestarts = 0
    None = None
    c1 = c1
    r1 = r1
    t1 = t1
    t2 = t2
SYMMETRY Symmetry
INVARIANT EachCallSpendsItsOwnApproval
CHECK_DEADLOCK FALSE
