SPECIFICATION FairHubSpec
CONSTANTS
    u1 = u1
    u2 = u2
    c1 = c1
    c2 = c2
    c3 = c3
    UserIDs = {u1, u2}
    Clients = {c1, c2, c3}
    UserOf <- MCUserOf
    Payloads = {m1, m2}
    TargetLists <- MCTargetLists
    ClientChanSize = 1
    Cancellable = TRUE
    None = None
INVARIANTS
    HubTypeOK
    RegistryExact
    NeverSendOnClosed
    ChannelsCarryOffered
PROPERTY
    HubNeverBlocks
CHECK_DEADLOCK FALSE
