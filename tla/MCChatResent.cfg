SPECIFICATION ChatSpec
CONSTANTS
    u1 = u1
    u2 = u2
    c1 = c1
    c2 = c2
    m1 = m1
    m2 = m2
    p1 = p1
    p2 = p2
    p3 = p3
    UserIDs = {u1}
    Clients = {c1}
    UserOf <- LoneUserOf
    Payloads = {p1, p2, p3}
    Messages = {m1, m2}
    MessageOf <- MCMessageOf
    Frames = {m1}
    TargetLists <- LoneTargetLists
    ClientChanSize = 1
    Cancellable = TRUE
    None = None
INVARIANTS
    SessionTypeOK
    WireIsPrefix
    ReturnedIsForgotten
    ChatTypeOK
    SeenInFeedOrder
PROPERTIES
    ImplementsSessions
    ImplementsFanOut
CHECK_DEADLOCK FALSE
