\* Two relays, four entries, the third undecodable: overlapping drains, lost
\* leases, crashes and half-failed calls, and delivery once these stop.
SPECIFICATION FairSpec
CONSTANTS
    r1 = r1
    r2 = r2
    NoRelay = NoRelay
    Gone = Gone
    Relays = {r1, r2}
    Reads = {1, 2, 4}
    Undecodable = {3}
    BatchSize = 2
    MaxEntries = 4
    MaxFaults = 2
INVARIANTS NothingLost InCommitOrder ReceiptsArePublished
PROPERTIES DrainCompletes
