SPECIFICATION Spec
CONSTANTS
    Issuers = {i1}
    Revokers = {r1, r2}
    Builders = {b1, b2}
    MaxCRLs = 2
CHECK_DEADLOCK FALSE
SYMMETRY Symmetry
INVARIANT ReturnedIsRecorded
INVARIANT FailedIssueAccounted
INVARIANT OneRevocationAnswered
INVARIANT CRLsSound
