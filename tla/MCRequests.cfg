SPECIFICATION FairRequestsSpec
CONSTANTS
    u1 = u1
    u2 = u2
    chat = chat
    hit = hit
    spaces = spaces
    long = long
    blank = blank
    MessageIDs = {1, 2}
    UserIDs = {u1, u2}
    ChatIDs = {chat}
    Types = {"text"}
    Contents = {hit, blank}
    Texts = {hit, blank, spaces, long}
    Trimmed <- MCTrimmed
    Blank = blank
    Oversized = {long}
    Matching = {hit}
    Readers = {}
    ChatOf <- MCChatOf
    Limit = 1
    ExpiryMinutes = {5}
    Requests = {1}
    Calls <- MCCalls
    Wirings <- MCWirings
    DefaultLimit = 1
    MaxList = 1
    MaxSearch = 1
    MaxDelete = 2
INVARIANTS
    RequestsTypeOK
    AnsweredOnce
    AnswerTellsEffect
    MoreAfterSome
    StartupTypeOK
    ServesIndexed
PROPERTIES
    ImplementsCollection
    RequestEnds
    StartEnds
CHECK_DEADLOCK FALSE
