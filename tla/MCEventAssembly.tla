-------------------------- MODULE MCEventAssembly --------------------------
\* A small instance of EventAssembly.
EXTENDS EventAssembly

CONSTANTS c1, c2, e1, e2, d1, d2

Encodings == [e \in Events |-> IF e = e1 THEN {d1, d2} ELSE {d1}]
============================================================================
