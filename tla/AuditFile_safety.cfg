SPECIFICATION FileSpec
CONSTANTS
    MaxSeq = 6
    None = None
    Torn = Torn
    Garbled = Garbled
INVARIANT AnsweredSurvives
PROPERTY FileTrailSpec
CHECK_DEADLOCK FALSE
INVARIANT ChainKept
