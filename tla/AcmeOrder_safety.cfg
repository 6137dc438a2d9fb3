SPECIFICATION Spec
CONSTANTS
    N = 2
    Types = {http, dns}
    Validators = {v1, v2}
    Finalizers = {f1, f2}
    NoCert = NoCert
    NoJob = NoJob
CHECK_DEADLOCK FALSE
SYMMETRY Symmetry
INVARIANT IssuedOnlyIfProven
INVARIANT OneCertificate
INVARIANT ValidatedLeavesPending
PROPERTY SettledStaysAlone
INVARIANT DocumentsFit
