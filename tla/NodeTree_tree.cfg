SPECIFICATION FairSpec
CONSTANTS
    r1 = r1
    r2 = r2
    r3 = r3
    k1 = k1
    Requests = {r1, r2}
    Stored = {1, 2, 3, 4}
    New <- MCNew
    Parents <- MCParents
    Edges <- MCEdges
    Under <- MCUnder
    Keys = {k1}
    NoKey = NoKey
    EdgePage = 1
    MaxEvents = 1
INVARIANTS ParentsAgree NoOrphans OneNodePerKey
PROPERTIES PlansKeepAcyclic JobsEnd
CHECK_DEADLOCK FALSE
