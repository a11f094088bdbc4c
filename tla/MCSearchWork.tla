---------------------------- MODULE MCSearchWork ----------------------------
(* Small instances of SearchWork for TLC.                                  *)
EXTENDS SearchWork, TLC

Identical == Permutations(Workers) \cup Permutations(Grants)
=============================================================================
