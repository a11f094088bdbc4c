\* One replacement with two failures: is the alias still on the source when it fails?
SPECIFICATION Spec
CONSTANTS
    w1 = w1
    w2 = w2
    Workers = {w1}
    NoOwner = NoOwner
    NoIndex = NoIndex
    Pages = 1
    MaxChanges = 0
    MaxRebuilds = 1
    MaxFaults = 2
    Mixes <- OneReplacement
INVARIANT FailedKeepsAlias
CHECK_DEADLOCK FALSE
