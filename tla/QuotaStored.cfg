SPECIFICATION Spec
CONSTANTS
    NFiles = 2
    Readers = {r1}
    Kinds = {"stored"}
    MaxRenewals = 1
    MaxReads = 1
    CacheTTL = 1
    MaxTime = 0
INVARIANTS OwnAccountOnly
