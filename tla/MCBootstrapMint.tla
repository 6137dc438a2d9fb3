-------------------------- MODULE MCBootstrapMint ---------------------------
(* A small instance of BootstrapMint for TLC. *)
EXTENDS BootstrapMint, TLC

Symmetry == Permutations(Starts) \cup Permutations(Tokens)
=============================================================================
