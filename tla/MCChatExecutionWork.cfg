CONSTANTS
    Requests = {r1}
    Accounts = {g, a1}
    Guest = g
    Turns = {t1, t2}
    Conversations <- TwoContexts
    MaxChats = 5
    Resumed = TRUE
    None = None
    g = g
    t1 = t1
    t2 = t2
SPECIFICATION FairSpec
INVARIANTS WorkIsBounded
PROPERTIES RequestsEnd
CHECK_DEADLOCK FALSE
