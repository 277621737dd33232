CONSTANTS
    e1 = e1
    E1 = E1
    e2 = e2
    Emails = {e1, E1, e2}
    Fold <- MCFold
    Guest = g
    None = None
    Limit = 2
    Cooldown = 2
    MaxTime = 3
SPECIFICATION Spec
INVARIANTS TypeOK
PROPERTIES CoolingRests LeastRecentlyUsedFirst TurnsAreTaken
