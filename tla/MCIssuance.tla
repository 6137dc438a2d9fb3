----------------------------- MODULE MCIssuance -----------------------------
(* Small instances of Issuance for TLC.                                    *)
EXTENDS Issuance, TLC

Symmetry == Permutations(Issuers) \cup Permutations(Revokers) \cup Permutations(Builders)
=============================================================================
