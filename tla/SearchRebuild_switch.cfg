\* Replacements, in any mode, of the index of a node of two pages.
SPECIFICATION FairSpec
CONSTANTS
    w1 = w1
    w2 = w2
    Workers = {w1}
    NoOwner = NoOwner
    NoIndex = NoIndex
    Pages = 2
    MaxChanges = 1
    MaxRebuilds = 2
    MaxFaults = 2
    Mixes <- EditOrRepeat
INVARIANTS SettledIsSearchable SnapshotsKept
PROPERTY RebuildEnds
CHECK_DEADLOCK FALSE
