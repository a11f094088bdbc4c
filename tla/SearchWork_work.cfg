SPECIFICATION FairSpec
CONSTANTS
    w1 = w1
    w2 = w2
    Workers = {w1, w2}
    NoOwner = NoOwner
    k1 = k1
    k2 = k2
    Grants = {k1, k2}
    Home = k1
    NoParent = NoParent
    NoKeys = NoKeys
    Gone = Gone
    Pages = 1
    Returns = FALSE
    MaxEvents = 2
INVARIANTS ActivePagesIssued SettledContent SettledAccess DependentsTold
PROPERTIES GenerationsRise WorkDrains
CHECK_DEADLOCK FALSE
