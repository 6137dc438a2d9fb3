SPECIFICATION FileSpec
CONSTANTS
    MaxSeq = 3
    None = None
    Torn = Torn
    Garbled = Garbled
INVARIANT AnsweredVerifies
