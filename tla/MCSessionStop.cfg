SPECIFICATION FairSpec
CONSTANTS
    u1 = u1
    c1 = c1
    m1 = m1
    p1 = p1
    UserIDs = {u1}
    Clients = {c1}
    UserOf <- MCUserOf
    Payloads = {p1}
    Messages = {m1}
    MessageOf <- MCMessageOf
    Frames = {}
    TargetLists <- MCTargetLists
    ClientChanSize = 1
    Cancellable = TRUE
    None = None
PROPERTY
    HandlerReturns
CHECK_DEADLOCK FALSE
