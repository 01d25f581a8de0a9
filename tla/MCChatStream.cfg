SPECIFICATION FairSpec
CONSTANTS
    Streams = {s1}
    MaxEvents = 4
    Usages <- MCUsages
CHECK_DEADLOCK FALSE
INVARIANTS CleanMeansComplete StreamMatchesCompletion UsageReported
PROPERTIES KeepsContract AcceptedStreamsEnd
