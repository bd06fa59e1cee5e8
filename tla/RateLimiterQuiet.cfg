SPECIFICATION Spec
CONSTANTS
    Callers = {c1, c2}
    Buckets = {b1, b2}
    Custom = {b2}
    Cancellable = {}
    DontWait = {c2}
    Deadlines <- NoDeadlines
    Faults = {}
    Retries = 2
    Limit = 2
    Window = 2
    Extra = 1
    CustomReset = 2
    GlobalAfter = 2
    UintMod = 8
    Free = Free
    c1 = c1
    c2 = c2
    c3 = c3
    b1 = b1
    b2 = b2
INVARIANT NeverThrottled
INVARIANT NoUnderflow
INVARIANT CustomSpaced
