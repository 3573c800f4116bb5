SPECIFICATION StoreSpec
CONSTANTS
    u1 = u1
    u2 = u2
    chat = chat
    elsewhere = elsewhere
    reader = reader
    hit = hit
    spaces = spaces
    blank = blank
    MessageIDs = {1, 2, 3}
    UserIDs = {u1}
    ChatIDs = {chat}
    Types = {"text"}
    Contents = {hit, blank}
    Texts = {hit, blank, spaces}
    Trimmed <- MCTrimmed
    Blank = blank
    Matching = {hit}
    Readers = {reader}
    ChatOf <- MCChatOf
    Limit = 1
INVARIANT
    AnnouncedPagesExist
CHECK_DEADLOCK FALSE
