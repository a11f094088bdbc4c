\* Two consumers, and two events that compete for a completion worker with room
\* for one: e1 comes in two encodings and as a plain record, and the ledger
\* refuses it until its week is covered; e2 never verifies.
SPECIFICATION FairSpec
CONSTANTS
    c1 = c1
    c2 = c2
    e1 = e1
    e2 = e2
    d1 = d1
    d2 = d2
    Consumers = {c1, c2}
    Events = {e1, e2}
    DigestsOf <- Encodings
    NoDigest = NoDigest
    PartCount = 1
    Tampered = {e2}
    DatedAhead = {e1}
    Plain = {e1}
    Limit = 1
    MaxLog = 4
    MaxFaults = 1
INVARIANTS ReadyExactlyWhole CompletionIsClean OffsetsCoverMessages
PROPERTIES EvidenceKept PublishedIsAssembled
