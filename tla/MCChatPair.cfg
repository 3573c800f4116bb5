SPECIFICATION ChatSpec
CONSTANTS
    u1 = u1
    u2 = u2
    c1 = c1
    c2 = c2
    m1 = m1
    m2 = m2
    p1 = p1
    p2 = p2
    p3 = p3
    UserIDs = {u1, u2}
    Clients = {c1, c2}
    UserOf <- PairUserOf
    Payloads = {p1}
    Messages = {m1, m2}
    MessageOf <- MCMessageOf
    Frames = {m1}
    TargetLists <- PairTargetLists
    ClientChanSize = 1
    Cancellable = TRUE
    None = None
INVARIANTS
    SeenIsStored
PROPERTIES
    KeepsHubContract
CHECK_DEADLOCK FALSE
