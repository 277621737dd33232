CONSTANTS
    p1 = p1
    p2 = p2
    Procs = {p1, p2}
    Does <- MCDoes
    Restorer = restorer
    Accounts = {a1}
    Configs <- MCConfigs
    MaxClock = 1
    None = None
SPECIFICATION Spec
INVARIANTS
    OneFetchPerExpiry
    TokensAreTheAccounts
PROPERTY EverythingEnds
CHECK_DEADLOCK FALSE
