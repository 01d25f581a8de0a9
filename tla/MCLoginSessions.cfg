SPECIFICATION Spec
CONSTANTS
    Logins = {l1, l2}
    Keys = {k1, k2}
    NoKey = NoKey
    Pollers = {p1}
    Callbacks = {c1, c2}
    TTL = 1
    MaxTime = 2
SYMMETRY Symmetry
INVARIANTS TypeOK HeldOnce CredentialsProved
PROPERTIES ClaimsAreTimely OnlyProofOrAgeEndsASession KeepsPromise
