SPECIFICATION Spec
CONSTANTS
    Sessions = {s1, s2, s3}
    s1 = s1
    s2 = s2
    s3 = s3
    None = None
    MaxSeq = 3
    MaxNet = 1
    MaxRuns = 1
    ReconnectAttempt = 1
    DeadBeat = 4
    Undecodable = {2}
    Faults = {"drop", "reconnect", "request", "invalid", "sequence", "fatal", "dial", "close"}
SYMMETRY SessionsSymmetry
PROPERTY EventsInOrder
INVARIANT ResumesWhereItWas
INVARIANT NoLimbo
INVARIANT FatalEnds
