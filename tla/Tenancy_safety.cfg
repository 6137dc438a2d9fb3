SPECIFICATION Spec
CONSTANTS
    Root = root
    Tenants = {t1}
    MaxCalls = 3
    Default = default
    Names = {default, web}
    None = None
    Torn = Torn
CHECK_DEADLOCK FALSE
INVARIANT KeysMatchCertificates
INVARIANT AnsweredIsKept
PROPERTY CertificatesKept
INVARIANT OneCreationWins
INVARIANT TrailTells
