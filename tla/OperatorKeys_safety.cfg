SPECIFICATION LiveSpec
CONSTANTS
    Servers = {s1, s2}
    boot = boot
    BootId = boot
    Ids = {boot, k1}
INVARIANT OperatorSurvives
INVARIANT NoGhostOperator
PROPERTY ClaimsExclusive
INVARIANT RevokeRecorded
PROPERTY ClaimsEnd
PROPERTY BootKeyAccounted
