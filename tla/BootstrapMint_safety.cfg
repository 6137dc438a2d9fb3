SPECIFICATION Spec
CONSTANTS
    Starts = {s1, s2, s3}
    Tokens = {t1, t2, t3, t4}
    Nothing = Nothing
    Stale = Stale
SYMMETRY Symmetry
INVARIANT PlaintextKept
INVARIANT CleanStarts
PROPERTY KeyFileKept
