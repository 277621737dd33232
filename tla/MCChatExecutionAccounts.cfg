CONSTANTS
    Requests = {r1, r2}
    Accounts = {g, a1}
    Guest = g
    Turns = {t1, t2}
    Conversations <- OneContext
    MaxChats = 3
    Resumed = FALSE
    None = None
    g = g
    t1 = t1
    t2 = t2
SYMMETRY Symmetry
SPECIFICATION Spec
INVARIANTS TypeOK UsagesNameTheOwner SentWithItsAccount SessionsNameTheirConversation
PROPERTIES SavedChatAnsweredUnlessRefreshed
