---------------------------- MODULE MCAcmeOrder -----------------------------
(* Small instances of AcmeOrder for TLC.                                   *)
EXTENDS AcmeOrder, TLC

Symmetry ==
    Permutations(Validators) \cup Permutations(Finalizers) \cup Permutations(Types)
=============================================================================
