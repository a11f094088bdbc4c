----------------------------- MODULE MCNodeTree -----------------------------
(* A small tree for TLC: the chain 1, 2, 3, 4 from the root down; in older *)
(* data node 4 has a second parent edge, and a link.                       *)
EXTENDS NodeTree

CONSTANTS r1, r2, r3, k1

MCNew == [r \in Requests |-> CASE r = r1 -> 5 [] r = r2 -> 6 [] r = r3 -> 7]
MCParents == [n \in 1..4 |-> n - 1]
MCTree == {<<n, "child_of", n - 1>> : n \in 2..4}
MCLegacy == MCTree \cup {<<4, "child_of", 1>>, <<4, "link", 2>>}
MCEdges == {MCTree, MCLegacy}
MCTreeOnly == {MCTree}

\* Node 4 is of a type that does not live under node 2's.
MCUnder == (Nodes \X Nodes) \ {<<4, 2>>}
MCAnyUnder == Nodes \X Nodes
=============================================================================
