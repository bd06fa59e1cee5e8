SPECIFICATION StateSpec
CONSTANTS
    Guilds = {g1}
    Users = {u1}
    Roles = {r1}
    GuildChans = {c1, t1}
    Directs = {d1}
    Groups = {p1}
    Home <- OneHome
    Recipient <- OneRecipient
    NoGuild = NoGuild
    NoChan = NoChan
    Topics <- OneKind
    Getters = {a1}
    Threads = {t1}
    Accounts = {"bot", "user"}
    IntentSets <- SomeIntents
    MaxVer = 2
    MaxQueue = 3
    Callers = {b1}
    Limits = {0, 1}
    People = {a1, u1}
    Self = a1
    Faces = {e1}
    maxMsgs = 2
    MaxId = 4
    MaxText = 2
    MaxQueued = 2
    Themes = {"list", "content"}
    a1 = a1
    b1 = b1
    g1 = g1
    u1 = u1
    r1 = r1
    c1 = c1
    t1 = t1
    d1 = d1
    p1 = p1
    e1 = e1
INVARIANT Mirrors
INVARIANT MembersWhole
INVARIANT MessageList
INVARIANT MessagesFresh
PROPERTY JoinsAreReal
CHECK_DEADLOCK FALSE
