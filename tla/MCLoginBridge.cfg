SPECIFICATION FlowSpec
CONSTANTS
    Logins = {l1, l2}
    Keys = {k1}
    NoKey = NoKey
    NoLogin = NoLogin
    Pollers = {p1}
    Callbacks = {c1, c2}
    TTL = 0
    MaxTime = 0
SYMMETRY Symmetry
INVARIANTS  SavedMeansStored ForwardedOnce
