--------------------------- MODULE MCOperatorKeys ---------------------------
(* Small instances of OperatorKeys for TLC.  boot is the bootstrap id, the *)
(* other ids are random ones and interchangeable, as the servers are.      *)
EXTENDS OperatorKeys, TLC

CONSTANTS boot

MintIds == Ids \ {boot}

Symmetry == Permutations(Servers) \cup Permutations(MintIds)
=============================================================================
