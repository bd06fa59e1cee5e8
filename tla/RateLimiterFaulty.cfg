SPECIFICATION FairSpec
CONSTANTS
    Callers = {c1, c2}
    Buckets = {b1}
    Custom = {}
    Cancellable = {}
    DontWait = {c1}
    Deadlines <- NoDeadlines
    Faults <- AllFaults
    Retries = 2
    Limit = 1
    Window = 2
    Extra = 1
    CustomReset = 2
    GlobalAfter = 2
    UintMod = 8
    Free = Free
    c1 = c1
    c2 = c2
    c3 = c3
    b1 = b1
    b2 = b2
PROPERTY Serialised
PROPERTY CallReturns
