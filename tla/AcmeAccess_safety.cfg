SPECIFICATION Spec
CONSTANTS
    Requests = {r1, r2}
    Nonces = {n1, n2, n3, n4}
    jA = jA
    jA2 = jA2
    jB = jB
    jX = jX
    kA = kA
    kB = kB
    e1 = e1
    Jwks = {jA, jA2, jB, jX}
    KeyOf <- McKeyOf
    Kty <- McKty
    MaxAccounts = 2
    Serials = {s1}
    EabKeys = {e1}
    Grants <- McGrants
    None = None
SYMMETRY Symmetry
INVARIANT HandledOnce
INVARIANT LookupOwnsCerts
INVARIANT UsedByHolder
INVARIANT RevocationRecorded
PROPERTY AccountsSound
