---------------------------- MODULE MCAcmeAccess ----------------------------
(* A small instance of AcmeAccess for TLC: one key with two encodings, one *)
(* with one, and a JWK that does not decode.                               *)
EXTENDS AcmeAccess, TLC

CONSTANTS jA, jA2, jB, jX, kA, kB, e1

McKeyOf == jA :> kA @@ jA2 :> kA @@ jB :> kB @@ jX :> None
McKty == kA :> "EC" @@ kB :> "RSA"
McGrants == {<<e1, jB>>}

Symmetry ==
    Permutations(Requests) \cup Permutations(Nonces) \cup Permutations(Serials)
=============================================================================
