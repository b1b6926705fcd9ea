SPECIFICATION Spec
CONSTANTS
    Calls = {c1, c2}
    ChoiceCalls = {c2}
    Turns = {t1, t2}
    Wakers = {"start", "resume"}
    Replies = {r1}
    Meanings = {"approve", "later"}
    Signals = {"approve", "reject"}
    Faults = {"expiry", "deferral"}
    MaxHolds = 1
    MaxRestarts = 1
    None = None
    c1 = c1
    c2 = c2
    r1 = r1
    t1 = t1
    t2 = t2
SYMMETRY Symmetry
INVARIANT OneApprovalCarriesOutOneCall
PROPERTY FirstAnswerStands
CHECK_DEADLOCK FALSE
