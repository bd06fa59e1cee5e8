SPECIFICATION FairSpec
CONSTANTS
    Sessions = {s1, s2, s3}
    s1 = s1
    s2 = s2
    s3 = s3
    None = None
    MaxSeq = 1
    MaxNet = 1
    MaxRuns = 1
    ReconnectAttempt = 0
    DeadBeat = 4
    Undecodable = {}
    Faults = {"drop", "mute", "dial", "slow"}
PROPERTY Closes
PROPERTY Recovers
PROPERTY DeadDetected
