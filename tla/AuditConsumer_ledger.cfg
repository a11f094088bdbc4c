\* Two consumers with a partition that moves between them; e3 never decodes,
\* e2 is refused until its week is covered.
SPECIFICATION FairSpec
CONSTANTS
    c1 = c1 c2 = c2 p1 = p1 k1 = k1 e1 = e1 e2 = e2 e3 = e3
    NoConsumer = NoConsumer NoPartition = NoPartition NoHead = NoHead
    Consumers = {c1, c2}
    Partitions = {p1}
    Chains = {k1}
    Events = {e1, e2, e3}
    ChainOf <- OneChain
    PartitionOf <- OnePartition
    UseTime <- Uses
    Malformed = {e3}
    DatedAhead = {e2}
    MaxRecords = 2
    BatchSize = 2
    MaxChainRetries = 2
    MaxFaults = 2
INVARIANTS ChainIntegrity OneRowPerEvent PIIFollowsRow OffsetsNeverLeadLedger LastUsedIsNewest
PROPERTIES ImplementsTrail DeadLettersKept EveryRecordSettles
