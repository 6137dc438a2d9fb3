SPECIFICATION Spec
CONSTANTS
    N = 1
    Types = {http, dns}
    Validators = {v1, v2}
    Finalizers = {f1}
    NoCert = NoCert
    NoJob = NoJob
CHECK_DEADLOCK FALSE
SYMMETRY Symmetry
PROPERTY ValidNotReadyAgain
