SPECIFICATION Spec
CONSTANTS
    NFiles = 2
    Readers = {r1, r2}
    Kinds <- NamedKinds
    MaxRenewals = 1
    MaxReads = 2
    CacheTTL = 1
    MaxTime = 1
SYMMETRY Symmetry
INVARIANTS TypeOK OwnAccountOnly RetriedOnce
PROPERTIES AnswersAreFresh FailuresKeepTheCache
