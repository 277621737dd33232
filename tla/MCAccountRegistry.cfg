CONSTANTS
    Emails = {e1, e2}
    Guest = g
    Admins = {a1, a2}
    MaxToken = 3
    None = None
    ReadOnly = FALSE
    StoreFails = TRUE
    Restarts = TRUE
SYMMETRY Symmetry
SPECIFICATION Spec
INVARIANTS TypeOK GuestStandsIn StoreHoldsOwed PoolMatchesStore
PROPERTIES TokensNeverGoBack AddNeverReplaces
