SPECIFICATION Spec
CONSTANTS
    Sessions = {s1, s2}
    Callers = {u1, m1, r1}
    Direct = {u1}
    Reach = {s1}
    Managing = {m1}
    Rescaling = {r1}
    Looking = {}
    Cancellable = {m1, u1}
    DontWaitForReady = FALSE
    MaxConns = 5
    Free = Free
    Nowhere = Nowhere
    s1 = s1
    s2 = s2
    u1 = u1
    u2 = u2
    m1 = m1
    r1 = r1
INVARIANT RescaleSurvives
CHECK_DEADLOCK FALSE
