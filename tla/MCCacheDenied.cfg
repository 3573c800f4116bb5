SPECIFICATION CacheSpec
CONSTANTS
    u1 = u1
    u2 = u2
    k1 = k1
    k2 = k2
    chat1 = chat1
    chat2 = chat2
    UserIDs = {u1, u2}
    ChatIDs = {chat1}
    Callers = {k1, k2}
    UserOf <- MCUserOf
    Absent = Absent
    Failed = Failed
    Changeable = FALSE
INVARIANT
    DeniedIsNotMember
CHECK_DEADLOCK FALSE
