CONSTANTS
    Accounts = {g, a1}
    Guest = g
    Chats = {c1, c2}
    Modes = {1}
    PageSize = 1
    Fails = FALSE
    Restarts = FALSE
    None = None
SPECIFICATION Spec
PROPERTIES OnlyUnusedChats
