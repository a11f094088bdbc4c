\* Both wirings: with the outbox behind it, and the synchronous ledger recorder
\* without one, where requests wait for room.  One event is refused for ever.
SPECIFICATION FairSpec
CONSTANTS
    e1 = e1
    e2 = e2
    e3 = e3
    e4 = e4
    e5 = e5
    Events = {e1, e2, e3, e4, e5}
    Writes = {e5}
    Poison = {e1}
    Capacity = 2
    BatchSize = 2
    MaxFaults = 1
CHECK_DEADLOCK FALSE
INVARIANTS MemoryBounded AcceptedIsKept NoLostWakeup
PROPERTIES AcceptedIsDelivered NobodyHangs
