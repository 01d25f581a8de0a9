SPECIFICATION FairSpec
CONSTANTS
    MaxEvents = 5
    Usages = {}
CHECK_DEADLOCK FALSE
INVARIANTS NumbersConsecutive ItemsBracketed CleanMeansComplete
PROPERTIES StreamsEnd
