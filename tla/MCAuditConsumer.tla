-------------------------- MODULE MCAuditConsumer --------------------------
(* Instance of AuditConsumer for TLC: one partition and one chain on which *)
(* all events meet.                                                        *)
EXTENDS AuditConsumer

CONSTANTS c1, c2, p1, k1, e1, e2, e3

\* The event e1 reports the later token use, whichever is projected first.
Uses == [e \in Events |-> CASE e = e1 -> 2 [] e = e2 -> 1 [] e = e3 -> 0]

OneChain == [e \in Events |-> k1]
OnePartition == [k \in Chains |-> p1]
============================================================================
