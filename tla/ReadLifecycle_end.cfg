\* A group read of two organizations and two recovery loops, with fairness.
SPECIFICATION FairSpec
CONSTANTS
    q1 = q1
    w1 = w1
    w2 = w2
    Reads = {1, 2}
    Requests = {q1}
    RequestOf <- OneRequest
    Workers = {w1, w2}
    ScanLimit = 1
    MaxLease = 2
    MaxFaults = 1
CHECK_DEADLOCK FALSE
INVARIANTS ReturnedIsRecorded OneTerminalEvent ReceiptsMatch
PROPERTY ReadsEnd
