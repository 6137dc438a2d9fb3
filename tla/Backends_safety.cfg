SPECIFICATION FairSpec
CONSTANTS
    Callers = {c1, c2}
    LastKey = 2
    Top = 1
    Data <- McData
    Absent = Absent
    Refused = Refused
    Fns <- McFns
    Idle = Idle
    MaxSeq = 2
    MaxAttempts = 2
INVARIANT ScanComplete
PROPERTY AtomicSpec
PROPERTY EveryCallReturns
PROPERTY CallsAdvance
