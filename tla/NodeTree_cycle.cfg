SPECIFICATION Spec
CONSTANTS
    r1 = r1
    r2 = r2
    r3 = r3
    k1 = k1
    Requests = {r1, r2, r3}
    Stored = {1, 2, 3, 4}
    New <- MCNew
    Parents <- MCParents
    Edges <- MCTreeOnly
    Under <- MCAnyUnder
    Keys = {}
    NoKey = NoKey
    EdgePage = 1
    MaxEvents = 0
INVARIANT NoLastingCircle
CHECK_DEADLOCK FALSE
