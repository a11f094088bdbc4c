-------------------------- MODULE MCReadLifecycle --------------------------
\* A small instance of ReadLifecycle: one request that reads two organizations.
EXTENDS ReadLifecycle

CONSTANTS q1, w1, w2

OneRequest == [e \in Reads |-> q1]
============================================================================
