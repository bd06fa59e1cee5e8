SPECIFICATION FairSpec
CONSTANTS
    Senders = {g1}
    g1 = g1
    Owner = Owner
    Free = Free
    MaxConns = 2
    Faults = {"lost", "stalled"}
INVARIANT OneWriter
INVARIANT OneSocket
PROPERTY CloseReturns
