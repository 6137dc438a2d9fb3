SPECIFICATION Spec
CONSTANTS
    Writers = {w1, w2, w3}
    MaxSeq = 4
    None = None
SYMMETRY Symmetry
INVARIANT Linked
INVARIANT AnsweredIsStored
PROPERTY RecordsKept
PROPERTY TrailSpec
PROPERTY VerdictTrue
