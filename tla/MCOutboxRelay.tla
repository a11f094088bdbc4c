--------------------------- MODULE MCOutboxRelay ---------------------------
\* Small instances of OutboxRelay.
EXTENDS OutboxRelay, TLC

CONSTANTS r1, r2

Symmetry == Permutations(Relays)
============================================================================
