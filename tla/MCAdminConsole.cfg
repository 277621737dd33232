CONSTANTS
    e1 = e1
    e2 = e2
    k1 = k1
    k2 = k2
    Admins = {a1, a2}
    Prompts = {"other"}
    Texts = {"", "quoted", "long"}
    Files <- MCFiles
    Given <- MCGiven
    Keys = {k1, k2}
    ApiKeys <- MCApiKeys
    Emails = {e1, e2}
    Malformed = malformed
    Pools <- MCPools
    Lists <- MCLists
    Tasks = {t1, t2}
    NoTask = none
    ReadOnly = TRUE
    None = none
    MaxRequests = 2
    MaxRestarts = 1
SPECIFICATION Spec
INVARIANTS
    SavedIsInEffect
    KeysInForce
    ImportAddsUp
    ImportsShareTheWork
PROPERTIES
    ReloadWins
    ImportsEnd
CHECK_DEADLOCK FALSE
