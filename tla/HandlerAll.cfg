SPECIFICATION FairSpec
CONSTANTS
    Handlers = {h1, h2, h3}
    Sync = {h1}
    Chan = {h2}
    Types = {t1, t2}
    Iface = Iface
    Kind <- TwoSlabs
    Accepts <- TwoTypes
    Callers = {c1}
    MaxEvents = 2
    None = None
    h1 = h1
    h2 = h2
    h3 = h3
    t1 = t1
    t2 = t2
    c1 = c1
    c2 = c2
INVARIANT NoneLost
INVARIANT SyncInOrder
INVARIANT AllCalled
PROPERTY SendsCancelled
INVARIANT NoLateEvent
