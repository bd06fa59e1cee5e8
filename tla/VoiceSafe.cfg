SPECIFICATION Spec
CONSTANTS
    Callers <- AllCallers
    Joiners = {j1}
    Leavers = {l1}
    Writers = {w1}
    Updaters = {u1}
    Guilds = {g1, g2}
    MaxSocks = 3
    WSMaxRetry = 2
    MaxGateways = 2
    Nobody = Nobody
    None = None
    j1 = j1
    l1 = l1
    w1 = w1
    u1 = u1
    g1 = g1
    g2 = g2
SYMMETRY GuildSymmetry
INVARIANT SocketsOwned
INVARIANT OneGateway
INVARIANT LeftStaysLeft
CHECK_DEADLOCK FALSE
