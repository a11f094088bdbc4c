SPECIFICATION Spec
CONSTANTS
    w1 = w1
    w2 = w2
    Workers = {w1}
    NoOwner = NoOwner
    k1 = k1
    k2 = k2
    Grants = {k1, k2}
    Home = k1
    NoParent = NoParent
    NoKeys = NoKeys
    Gone = Gone
    Pages = 1
    Returns = TRUE
    MaxEvents = 2
INVARIANT SettledAccess
CHECK_DEADLOCK FALSE
