SPECIFICATION Spec
CONSTANTS
    Ids <- ThreeSegmentIds
    BadIds = {}
    Fallback <- BuiltIn
    Callers = {c1, c2}
    NoCaller = NoCaller
    OkTTL = 2
    RetryTTL = 1
    MaxTime = 4
INVARIANTS NamesResolve

