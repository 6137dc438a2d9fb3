SPECIFICATION Spec
CONSTANTS
    Writers = {w1, w2}
    MaxSeq = 3
    None = None
INVARIANT GenesisOnce
