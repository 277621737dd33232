CONSTANTS
    Accounts = {g, a1}
    Guest = g
    Chats = {c1, c2}
    Modes = {0, 1, 2}
    PageSize = 1
    Fails = TRUE
    Restarts = TRUE
    None = None
SPECIFICATION FairSpec
INVARIANTS TypeOK TrackedWhileAlive
PROPERTIES OnlyOwnChats OldUsagesGo OldChatsGo
