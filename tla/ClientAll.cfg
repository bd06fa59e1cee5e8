SPECIFICATION ClientSpec
CONSTANTS
    Sessions = {s1, s2}
    Callers = {u1, m1, r1}
    Direct = {u1}
    Reach = {s1}
    Managing = {m1}
    Rescaling = {r1}
    Looking = {u1}
    Cancellable = {u1}
    DontWaitForReady = FALSE
    MaxConns = 5
    Free = Free
    Nowhere = Nowhere
    s1 = s1
    s2 = s2
    u1 = u1
    m1 = m1
    r1 = r1
    Listed = {2, 3, 4, 5, 6}
    PageLimits = {0, 1, 2, 3}
    MaxFetch = 2
    UintMod = 16
    Names = {"a", "b"}
    MaxDepth = 3
    MaxRoutes = 2
    MaxUses = 2
    MaxPlaces = 4
    Depth = 2
    Snowflakes = {"1", "2"}
    ShortEmojis = {"heart", "blob:1"}
    LongEmojis = {"family", "pirates"}
    Tokens = {"t", "u"}
    MaxSent = 2
    Structs <- TwoStructs
    Main = "main"
    Middlewares <- AllWares
    CommandNames = {"mod"}
    Contents <- SomeContents
    Numbers = {"1"}
    EditableCommands = TRUE
    ReplyError = TRUE
    SilentUnknown = FALSE
    MaxAdded = 2
    MaxEvents = 2
    Bits = {"moderate", "admin"}
    PermissionAll = {"admin"}
    RoleIDs = {"r1", "r2"}
    MaxOverwrites = 2
    LooksOf <- SomeLooks
    MaxLooks = 3
    Palette <- SomeComponents
    MaxParts = 3
    OtherPosts <- SomePosts
    Texts = {"", "1", "-1", "x"}
    Reads <- SomeReads
    FormStructs <- SomeForms
    NoStyle = NoStyle
    Bad = Bad
    OwnCommands <- SomeCommands
    OtherCommands <- SomeKept
    Given <- SomeGiven
    Folded <- SomeFolded
    Receivers <- SomeReceivers
    NoOption = NoOption
INVARIANT OneLoop
INVARIANT NothingLeftRunning
INVARIANT PagesComplete
INVARIANT RoutesRight
INVARIANT AnsweredOnce
INVARIANT KeysRight
INVARIANT EachCalled
INVARIANT CommandCalled
INVARIANT PermissionsRight
INVARIANT ComponentsRight
INVARIANT CommandsRight
CHECK_DEADLOCK FALSE
